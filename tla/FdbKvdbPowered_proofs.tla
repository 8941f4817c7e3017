------------------------ MODULE FdbKvdbPowered_proofs -------------------------
(***************************************************************************)
(* Theorems about FdbKvdb for the time in which the power is lost, if at   *)
(* all, only while the database is settled: no node is prepared for        *)
(* deletion, and a collection that was begun still has an empty sector.    *)
(* The database then implements the map of KVStore, reads are current, a   *)
(* key has one node, and the garbage collection always finds the space it  *)
(* needs, for every number and size of sectors, all keys and all lengths   *)
(* of the values.                                                          *)
(***************************************************************************)
EXTENDS FdbKvdb_proofs, FiniteSetTheorems

-----------------------------------------------------------------------------
(* The invariant of a database that loses its power only while it is       *)
(* settled, see Settled and LossesSettled.                                 *)

\* The database is being loaded ...
Resetting == pc \in {"reset_erase", "reset_format"}
Loading == \/ pc \in {"off", "load_new", "load_headers", "load_check", "load_gc", "load_start",
                      "load_kv", "load_end"}
           \/ Resetting /\ ret.reset = "load_check"

\* A node is being created for a set: its place is reserved.
Holding == \/ pc = "set_find"
           \/ pc \in Creating /\ ret.create # "move_delete"
           \/ pc = "dirty" /\ ret.del = "sector"

\* A node is being copied by a move.
Copying == pc \in Creating /\ ret.create = "move_delete"

\* The node at old is prepared for deletion ...
Prepared == \/ pc \in {"move_alloc", "move_delete", "set_delete"}
            \/ pc \in Creating /\ ret.create # "set_end"
            \/ pc = "dirty" /\ ret.del = "sector"

\* ... and what replaces it is written.
Replaced == pc \in {"move_delete", "set_delete"}

\* A sector is being emptied by the collection.
Emptying == pc \in MoveLabels \cup {"gc_kv"} \/ Copying

\* ... and runs a collection again that a loss of power interrupted.
Rerun == (Emptying \/ pc \in GcLabels) /\ ret.gc = "load_gc"

\* A set that has not taken effect.
Pursuing == \/ pc \in {"set_alloc", "set_retry"}
            \/ (Emptying \/ pc \in GcLabels) /\ ret.gc = "set_retry"
            \/ Holding

StatusOf(a) == NodeAt(a).status
KeyOf(a) == NodeAt(a).key
LenOf(a) == KvLen[NodeAt(a).val]
Garbage(a) == StatusOf(a) \notin {"WRITE", "PRE_DELETE"}

\* Where the procedures return, and the two flags that follow them.
ControlOK ==
    /\ pc # "move_again"
    /\ pc \in MoveLabels \/ Copying => ret.move = "gc_kv"
    /\ pc = "dirty" => ret.del \in {"sector", "set_end", "end"}
    /\ Emptying \/ pc \in GcLabels => ret.gc \in {"set_retry", "load_gc"}
    /\ Resetting => ret.reset \in {"end", "load_check"}
    /\ gcRequest <=> Emptying \/ pc \in GcLabels
    /\ lastDel <=> Prepared

\* The call in progress.
CallOK ==
    /\ pc = "idle" \/ Loading \/ Rerun => call = None
    /\ Pursuing => call # None /\ call.key \in Keys /\ call.val \in Vals /\ ~call.done
    /\ pc = "del" => call.val = None /\ ~call.done
    /\ Resetting /\ ~Loading => call = [key |-> None, val |-> None, done |-> FALSE]

\* The call a collection serves: a set, or none when the load runs it.
Served ==
    /\ ret.gc = "set_retry" => call # None /\ call.key \in Keys /\ call.val \in Vals /\ ~call.done
    /\ ret.gc = "load_gc" => call = None

\* The node being created and the one it replaces.
LinkOK ==
    /\ pc = "dirty" => old \in NodeAddrs
    /\ pc \in {"header", "data", "commit"} => ~new.full
    /\ pc \in {"data", "commit"} => /\ KeyOf(<<new.sec, new.off>>) = new.key
                                    /\ NodeAt(<<new.sec, new.off>>).val = new.val
    /\ Holding => new.key = call.key /\ new.val = call.val
    /\ Holding /\ Prepared => KeyOf(old) = call.key
    /\ Copying => new.key = KeyOf(old) /\ new.val = NodeAt(old).val /\ new.sec # gc.sec

\* The load has not looked for unfinished nodes yet.
Unwalked == (Loading /\ pc # "load_end") \/ Rerun

\* The place of a half-written node: the node being created ...
Begun(a) == pc \in {"data", "commit"} /\ a = <<new.sec, new.off>>

\* ... or one that a loss of power left there and that the load has not met yet.
Left(a) == StatusOf(a) = "PRE_WRITE" /\ ~Begun(a)

\* Only the node being replaced is prepared for deletion.
StatusOK ==
    /\ \A a \in NodeAddrs :
          /\ Begun(a) => StatusOf(a) = "PRE_WRITE"
          /\ Left(a) => Unwalked
          /\ StatusOf(a) = "PRE_DELETE" <=> Prepared /\ a = old
    /\ \A a, b \in NodeAddrs : Left(a) /\ Left(b) => a = b

\* A key has at most one written node, and at most one node that counts.
OneWritten == \A a, b \in NodeAddrs :
    StatusOf(a) = "WRITE" /\ StatusOf(b) = "WRITE" /\ KeyOf(a) = KeyOf(b) => a = b

KeysOK ==
    /\ OneWritten
    /\ Prepared /\ ~Replaced =>
          \A a \in NodeAddrs : StatusOf(a) = "WRITE" => KeyOf(a) # KeyOf(old)
    /\ Replaced => \E a \in NodeAddrs : StatusOf(a) = "WRITE" /\ KeyOf(a) = KeyOf(old)
    /\ pc \in Creating => \A a \in NodeAddrs : StatusOf(a) = "WRITE" => KeyOf(a) # new.key

\* The cache leads to the node that counts; a reset empties it first.
CacheLeads == \A k \in Keys : cache[k] # None =>
    /\ cache[k] \in NodeAddrs /\ KeyOf(cache[k]) = k
    /\ StatusOf(cache[k]) = "WRITE" \/ (StatusOf(cache[k]) = "PRE_DELETE" /\ ~Replaced)

LeadsOK ==
    /\ Resetting => \A k \in Keys : cache[k] = None
    /\ CacheLeads

\* Nodes do not overlap, and every node leaves the threshold behind it.
Spaced == \A s \in Sectors : \A o \in Occupied(s) :
    /\ o + LenOf(<<s, o>>) + Threshold < SectorSize
    /\ \A p \in Occupied(s) : o < p => o + LenOf(<<s, o>>) <= p

\* The node to be written fits behind the nodes of its sector.
Fits ==
    /\ store[new.sec] \in {"EMPTY", "USING"}
    /\ new.remain > KvLen[new.val] + Threshold
    /\ new.off + KvLen[new.val] + Threshold < SectorSize
    /\ \A o \in Occupied(new.sec) : o + LenOf(<<new.sec, o>>) <= new.off

LayoutOK == Spaced /\ (Reserved => Fits)

\* The headers of the sectors.
SectorsOK == \A s \in Sectors :
    /\ store[s] # "FULL"
    /\ store[s] = "EMPTY" => dirty[s] = "FALSE"

\* A load has an empty sector for the collection it is to run again; the flash it
\* sets to its default is blank.
LoadingOK ==
    /\ Loading /\ ~Resetting /\ EmptySectors = {} => \A s \in Sectors : dirty[s] # "GC"
    /\ pc = "load_new" \/ (Resetting /\ ret.reset = "load_check") => NodeAddrs = {}
    /\ pc = "load_kv" => scan.done = 0
    /\ Resetting => \A s \in Sectors : s < scan.done => store[s] = "EMPTY"

\* Outside a load, a reset and the emptying of a sector there is an empty sector;
\* a set does not take the last one.
ReserveOK ==
    /\ ~(Loading \/ Resetting \/ Emptying \/ pc = "gc_format") => EmptySectors # {}
    /\ Holding => EmptySectors \ {new.sec} # {}

\* What the collection passed in its sector is not worth keeping.
EmptyingOK == Emptying =>
    /\ dirty[gc.sec] = "GC"
    /\ \A o \in Occupied(gc.sec) : o < gc.pos => Garbage(<<gc.sec, o>>)
    /\ pc = "gc_kv" => \A o \in Occupied(gc.sec) : o = gc.pos => Garbage(<<gc.sec, o>>)
    /\ pc # "gc_kv" => old = <<gc.sec, gc.pos>>
    /\ pc = "move" => StatusOf(old) = "WRITE"

\* What the collection still has to look at.
Ahead == {p \in Occupied(gc.sec) : p > gc.pos \/ (pc \in {"move", "move_alloc"} /\ p = gc.pos)}

\* Some sector has room for all of it: it is filled no further than the sector
\* being emptied was passed.
Takes(u) ==
    /\ store[u] \in {"EMPTY", "USING"} /\ dirty[u] = "FALSE"
    /\ \A p \in Ahead :
          /\ store[u] = "USING" /\ Occupied(u) = {} => HdrSize <= p
          /\ \A o \in Occupied(u) : o + LenOf(<<u, o>>) <= p
          /\ pc \in {"sector", "header"} /\ u = new.sec => new.off + KvLen[new.val] <= p

RoomOK == Emptying => \E u \in Sectors \ {gc.sec} : Takes(u)

\* No node is prepared for deletion, and a collection that was begun still has an
\* empty sector.
Settled == /\ \A a \in NodeAddrs : StatusOf(a) # "PRE_DELETE"
           /\ EmptySectors = {} => \A s \in Sectors : dirty[s] # "GC"

Powered == /\ ControlOK /\ CallOK /\ LinkOK /\ StatusOK /\ KeysOK /\ LeadsOK
           /\ LayoutOK /\ SectorsOK /\ LoadingOK /\ ReserveOK /\ EmptyingOK /\ RoomOK

-----------------------------------------------------------------------------
(* What a step leaves of the nodes.                                        *)

\* A step keeps every node, its key and its value.
SameNodes ==
    /\ NodeAddrs' = NodeAddrs
    /\ \A a \in NodeAddrs : KeyOf(a)' = KeyOf(a) /\ NodeAt(a)'.val = NodeAt(a).val

\* A step keeps the status of every node, too.
SameFlash == SameNodes /\ \A a \in NodeAddrs : StatusOf(a)' = StatusOf(a)

\* A step writes the status st of the node at a.
Marks(a, st) ==
    /\ SameNodes
    /\ \A b \in NodeAddrs : StatusOf(b)' = IF b = a THEN st ELSE StatusOf(b)

\* The nodes after the step are nodes before it, at the same place.
FewerNodes == \A s \in Sectors :
    /\ Occupied(s)' \subseteq Occupied(s)
    /\ \A o \in Occupied(s)' : LenOf(<<s, o>>)' = LenOf(<<s, o>>)

LEMMA OccupiedAddrs ==
    \A s \in Sectors, o \in Offsets : o \in Occupied(s) <=> <<s, o>> \in NodeAddrs
  BY DEF Occupied, NodeAddrs, NodeAt, Addrs

LEMMA OccupiedAddrsNext ==
    \A s \in Sectors, o \in Offsets : o \in Occupied(s)' <=> <<s, o>> \in NodeAddrs'
  BY DEF Occupied, NodeAddrs, NodeAt, Addrs

LEMMA NodeFacts ==
    ASSUME TypeOK, NEW a \in NodeAddrs
    PROVE  /\ a \in Addrs /\ a[1] \in Sectors /\ a[2] \in Offsets /\ a = <<a[1], a[2]>>
           /\ a[2] \in Occupied(a[1])
           /\ KeyOf(a) \in Keys /\ NodeAt(a).val \in Vals /\ StatusOf(a) \in KvStatus
           /\ LenOf(a) \in Nat \ {0}
<1>1. a \in Addrs /\ NodeAt(a) # None
  BY DEF NodeAddrs
<1>2. NodeAt(a).val \in Vals /\ KeyOf(a) \in Keys /\ StatusOf(a) \in KvStatus
      /\ a[1] \in Sectors /\ a[2] \in Offsets /\ a = <<a[1], a[2]>>
  BY <1>1, NodeType DEF KeyOf, StatusOf
<1>3. LenOf(a) \in Nat \ {0}
  BY <1>2, FdbAssumption DEF LenOf
<1> QED
  BY <1>1, <1>2, <1>3 DEF Occupied, NodeAt

LEMMA OccupiedFacts ==
    ASSUME TypeOK, NEW s \in Sectors, NEW o \in Occupied(s)
    PROVE  /\ o \in Nat /\ o \in Offsets /\ <<s, o>> \in NodeAddrs
           /\ LenOf(<<s, o>>) \in Nat \ {0}
<1>1. o \in Offsets
  BY DEF Occupied
<1>2. <<s, o>> \in NodeAddrs
  BY <1>1, OccupiedAddrs
<1> QED
  BY <1>1, <1>2, NodeFacts DEF Offsets

LEMMA FlashKept ==
    ASSUME flash' = flash
    PROVE  SameFlash
<1>1. \A a \in Addrs : NodeAt(a)' = NodeAt(a)
  BY DEF NodeAt
<1>2. NodeAddrs' = NodeAddrs
  BY <1>1 DEF NodeAddrs
<1> QED
  BY <1>1, <1>2 DEF SameFlash, SameNodes, KeyOf, StatusOf, NodeAddrs

\* The slot a of the flash becomes n.
Puts(a, n) == flash' = [flash EXCEPT ![a[1]] = [flash[a[1]] EXCEPT ![a[2]] = n]]

LEMMA SlotNode ==
    ASSUME TypeOK, NEW a \in Addrs, NEW n \in Nodes, Puts(a, n)
    PROVE  \A b \in Addrs : NodeAt(b)' = IF b = a THEN n ELSE NodeAt(b)
<1>1. \A s \in Sectors, o \in Offsets : flash'[s][o] = IF <<s, o>> = a THEN n ELSE flash[s][o]
  BY SlotWrite DEF Puts
<1> QED
  BY <1>1 DEF NodeAt, Addrs

LEMMA StatusMarks ==
    ASSUME TypeOK, NEW a \in NodeAddrs, NEW st \in KvStatus,
           flash' = [flash EXCEPT ![a[1]][a[2]].status = st]
    PROVE  Marks(a, st)
<1> DEFINE n == [flash[a[1]][a[2]] EXCEPT !.status = st]
<1>1. a \in Addrs /\ NodeAt(a) # None /\ NodeAt(a) \in Nodes /\ a = <<a[1], a[2]>>
  BY NodeType DEF NodeAddrs
<1>2. n \in Nodes /\ n.key = NodeAt(a).key /\ n.val = NodeAt(a).val /\ n.status = st
  BY <1>1 DEF Nodes, NodeAt
<1>3. n # None
  BY <1>2, NoneAssumption
<1>4. flash' = [flash EXCEPT ![a[1]] = [flash[a[1]] EXCEPT ![a[2]] = n]]
  OBVIOUS
<1> HIDE DEF n
<1>5. Puts(a, n)
  BY <1>4 DEF Puts
<1>6. \A b \in Addrs : NodeAt(b)' = IF b = a THEN n ELSE NodeAt(b)
  BY <1>1, <1>2, <1>5, SlotNode
<1>7. NodeAddrs' = NodeAddrs
  BY <1>1, <1>3, <1>6 DEF NodeAddrs
<1>8. \A b \in NodeAddrs : /\ KeyOf(b)' = KeyOf(b) /\ NodeAt(b)'.val = NodeAt(b).val
                           /\ StatusOf(b)' = IF b = a THEN st ELSE StatusOf(b)
  BY <1>1, <1>2, <1>6 DEF NodeAddrs, KeyOf, StatusOf
<1> QED
  BY <1>7, <1>8 DEF Marks, SameNodes

LEMMA SameNodesFewer ==
    ASSUME SameNodes
    PROVE  FewerNodes /\ \A s \in Sectors : Occupied(s)' = Occupied(s)
<1>1. ASSUME NEW s \in Sectors
      PROVE  Occupied(s)' = Occupied(s)
  <2>1. Occupied(s) \subseteq Offsets /\ Occupied(s)' \subseteq Offsets
    BY DEF Occupied
  <2>2. \A o \in Offsets : o \in Occupied(s)' <=> o \in Occupied(s)
    BY OccupiedAddrs, OccupiedAddrsNext DEF SameNodes
  <2> QED
    BY <2>1, <2>2
<1>2. ASSUME NEW s \in Sectors, NEW o \in Occupied(s)
      PROVE  LenOf(<<s, o>>)' = LenOf(<<s, o>>)
  <2>1. <<s, o>> \in NodeAddrs
    BY OccupiedAddrs DEF Occupied
  <2> QED
    BY <2>1 DEF SameNodes, LenOf
<1> QED
  BY <1>1, <1>2 DEF FewerNodes

\* A step that writes no node keeps the layout.
LEMMA SpacedKept ==
    ASSUME Spaced, FewerNodes
    PROVE  Spaced'
<1> SUFFICES ASSUME NEW s \in Sectors, NEW o \in Occupied(s)'
             PROVE  /\ o + LenOf(<<s, o>>)' + Threshold < SectorSize
                    /\ \A p \in Occupied(s)' : o < p => o + LenOf(<<s, o>>)' <= p
  BY DEF Spaced
<1>1. o \in Occupied(s) /\ LenOf(<<s, o>>)' = LenOf(<<s, o>>)
      /\ Occupied(s)' \subseteq Occupied(s)
  BY DEF FewerNodes
<1> QED
  BY <1>1 DEF Spaced

\* Between the writes of a set, a deletion or a move.
Plain == \/ pc \in {"idle", "set_alloc", "set_retry", "set_end", "del", "end", "gc_begin",
                    "gc_sector"}
         \/ pc = "dirty" /\ ret.del \in {"set_end", "end"}

\* A node is half-written.
Writing == pc \in {"data", "commit"}

LEMMA PlainPhase ==
    Plain => /\ ~Loading /\ ~Resetting /\ ~Emptying /\ ~Holding /\ ~Copying /\ ~Prepared
             /\ ~Replaced /\ ~Reserved /\ ~Writing /\ pc \notin Creating
             /\ pc \notin {"gc_format", "header", "off", "load_new", "load_kv", "move", "move_again"}
             /\ (Unwalked => pc \in GcLabels /\ ret.gc = "load_gc")
  BY DEF Plain, Loading, Resetting, Emptying, Holding, Copying, Prepared, Replaced, Reserved,
         Writing, Creating, MoveLabels, Unwalked, Rerun

LEMMA PlainPhaseNext ==
    Plain' => /\ ~Loading' /\ ~Resetting' /\ ~Emptying' /\ ~Holding' /\ ~Copying' /\ ~Prepared'
              /\ ~Replaced' /\ ~Reserved' /\ ~Writing' /\ pc' \notin Creating
              /\ pc' \notin {"gc_format", "header", "off", "load_new", "load_kv", "move", "move_again"}
             /\ (Unwalked' => pc' \in GcLabels /\ ret'.gc = "load_gc")
  BY DEF Plain, Loading, Resetting, Emptying, Holding, Copying, Prepared, Replaced, Reserved,
         Writing, Creating, MoveLabels, Unwalked, Rerun

\* Statuses and phase unchanged.
LEMMA StatusKept ==
    ASSUME StatusOK, SameFlash, Writing' <=> Writing, Writing => new' = new,
           Prepared' <=> Prepared, Prepared => old' = old,
           (Unwalked => Unwalked') \/ \A a \in NodeAddrs : ~Left(a)
    PROVE  StatusOK'
<1>1. ASSUME NEW a \in NodeAddrs
      PROVE  /\ StatusOf(a)' = StatusOf(a)
             /\ Begun(a)' <=> Begun(a)
             /\ Left(a)' <=> Left(a)
  BY DEF SameFlash, Left, Begun, Writing
<1>2. NodeAddrs' = NodeAddrs
  BY DEF SameFlash, SameNodes
<1>3. ASSUME NEW a \in NodeAddrs
      PROVE  /\ Begun(a)' => StatusOf(a)' = "PRE_WRITE"
             /\ Left(a)' => Unwalked'
             /\ StatusOf(a)' = "PRE_DELETE" <=> Prepared' /\ a = old'
  BY <1>1 DEF StatusOK
<1>4. \A a, b \in NodeAddrs : Left(a)' /\ Left(b)' => a = b
  BY <1>1 DEF StatusOK
<1> QED
  BY <1>2, <1>3, <1>4 DEF StatusOK

\* No node is written.
LEMMA OneWrittenKept ==
    ASSUME OneWritten, SameNodes,
           \A a \in NodeAddrs : StatusOf(a)' = "WRITE" => StatusOf(a) = "WRITE"
    PROVE  OneWritten'
  BY DEF OneWritten, SameNodes

\* The cache leads where it led, nowhere, or to written nodes.
CacheStep == \A k \in Keys :
    \/ cache'[k] = cache[k]
    \/ cache'[k] = None
    \/ cache'[k] \in NodeAddrs /\ KeyOf(cache'[k]) = k /\ StatusOf(cache'[k]) = "WRITE"

LEMMA CacheLeadsKept ==
    ASSUME CacheLeads, SameFlash, CacheStep, ~Replaced'
    PROVE  CacheLeads'
<1> SUFFICES ASSUME NEW k \in Keys, NEW a, a = cache'[k], a # None
             PROVE  /\ a \in NodeAddrs' /\ KeyOf(a)' = k
                    /\ StatusOf(a)' = "WRITE" \/ StatusOf(a)' = "PRE_DELETE"
  BY DEF CacheLeads
<1>1. /\ a \in NodeAddrs /\ KeyOf(a) = k
      /\ StatusOf(a) = "WRITE" \/ StatusOf(a) = "PRE_DELETE"
  BY DEF CacheStep, CacheLeads
<1> QED
  BY <1>1 DEF SameFlash, SameNodes

LEMMA SectorsKept ==
    ASSUME SectorsOK, store' = store,
           \A s \in Sectors : store[s] = "EMPTY" => dirty'[s] = dirty[s]
    PROVE  SectorsOK'
  BY DEF SectorsOK

\* What is left to show when a step ends between the writes of a call.
LEMMA PlainPowered ==
    ASSUME Plain', ControlOK', CallOK', StatusOK', OneWritten', CacheLeads', Spaced',
           SectorsOK', EmptySectors' # {}, pc' # "dirty" \/ old' \in NodeAddrs'
    PROVE  Powered'
<1>1. /\ ~Loading' /\ ~Resetting' /\ ~Emptying' /\ ~Holding' /\ ~Copying' /\ ~Prepared'
      /\ ~Replaced' /\ ~Reserved' /\ pc' \notin Creating
      /\ pc' \notin {"gc_format", "header", "off", "load_new", "load_kv", "move", "move_again"}
      /\ pc' \notin {"header", "data", "commit"}
  BY PlainPhaseNext DEF Writing
<1>2. LinkOK' /\ KeysOK' /\ LeadsOK' /\ LayoutOK' /\ ReserveOK' /\ EmptyingOK' /\ RoomOK'
  BY <1>1 DEF LinkOK, KeysOK, LeadsOK, LayoutOK, ReserveOK, EmptyingOK, RoomOK
<1>3. LoadingOK'
  BY <1>1 DEF LoadingOK
<1> QED
  BY <1>2, <1>3 DEF Powered

LEMMA PlainStep ==
    ASSUME Powered, Plain, Plain', UNCHANGED <<store, dirty, flash>>, CacheStep,
           ControlOK', CallOK', pc' # "dirty",
           pc \in GcLabels /\ ret.gc = "load_gc" => pc' \in GcLabels /\ ret'.gc = "load_gc"
    PROVE  Powered'
<1>1. SameFlash /\ SameNodes /\ FewerNodes
  BY FlashKept, SameNodesFewer DEF SameFlash
<1>2. /\ ~Prepared /\ ~Writing /\ pc # "header" /\ ~Prepared' /\ ~Writing' /\ ~Replaced'
      /\ ~Loading /\ ~Resetting /\ ~Emptying /\ pc # "gc_format" /\ (Unwalked => Unwalked')
  <2>1. Unwalked => Unwalked'
    BY PlainPhase DEF Unwalked, Rerun
  <2> QED
    BY <2>1, PlainPhase, PlainPhaseNext
<1>3. StatusOK'
  BY <1>1, <1>2, StatusKept DEF Powered
<1>4. OneWritten' /\ CacheLeads' /\ Spaced' /\ SectorsOK'
  BY <1>1, <1>2, OneWrittenKept, CacheLeadsKept, SpacedKept, SectorsKept
     DEF Powered, KeysOK, LeadsOK, LayoutOK, SameFlash
<1>5. EmptySectors' # {}
  BY <1>2 DEF Powered, ReserveOK, EmptySectors
<1> QED
  BY <1>3, <1>4, <1>5, PlainPowered

LEMMA PlainControl ==
    ASSUME Plain, ControlOK
    PROVE  /\ gcRequest <=> pc \in GcLabels
           /\ ~lastDel
           /\ pc \in GcLabels => ret.gc \in {"set_retry", "load_gc"}
  BY PlainPhase DEF ControlOK

LEMMA PlainControlNext ==
    ASSUME Plain', gcRequest' <=> pc' \in GcLabels, ~lastDel',
           pc' \in GcLabels => ret'.gc \in {"set_retry", "load_gc"}
    PROVE  ControlOK'
<1>1. /\ ~Emptying' /\ ~Copying' /\ ~Prepared' /\ ~Resetting' /\ pc' # "move_again"
      /\ pc' \notin MoveLabels
  BY DEF Plain, Emptying, Copying, Prepared, Resetting, MoveLabels, Creating
<1>2. pc' = "dirty" => ret'.del \in {"set_end", "end"}
  BY DEF Plain
<1> QED
  BY <1>1, <1>2 DEF ControlOK

LEMMA PlainCallNext ==
    ASSUME Plain', pc' = "idle" => call' = None,
           pc' \in GcLabels /\ ret'.gc = "load_gc" => call' = None,
           pc' \in {"set_alloc", "set_retry"} \/ (pc' \in GcLabels /\ ret'.gc = "set_retry") =>
               call' # None /\ call'.key \in Keys /\ call'.val \in Vals /\ ~call'.done,
           pc' = "del" => call'.val = None /\ ~call'.done
    PROVE  CallOK'
<1>1. ~Loading' /\ ~Resetting' /\ ~Emptying' /\ ~Holding'
  BY PlainPhaseNext
<1> QED
  BY <1>1 DEF CallOK, Pursuing, Rerun

LEMMA NoneIsNoCall == None \notin Calls
  BY NoneAssumption

LEMMA SetPowered ==
    ASSUME IInv, Powered, NEW k \in Keys, NEW v \in Vals, Set(k, v)
    PROVE  Powered'
<1>1. /\ pc = "idle" /\ pc' = "set_alloc" /\ call' = [key |-> k, val |-> v, done |-> FALSE]
      /\ UNCHANGED <<store, dirty, flash, gcRequest, lastDel, cache, ret>>
  BY DEF Set, flashVars, dbVars
<1>2. Plain /\ Plain' /\ CacheStep
  BY <1>1 DEF Plain, CacheStep
<1>3. ControlOK'
  BY <1>1, <1>2, PlainControl, PlainControlNext DEF Powered, GcLabels
<1>4. CallOK'
  <2>1. call' \in Calls /\ call'.key = k /\ call'.val = v /\ ~call'.done
    BY <1>1 DEF Calls
  <2> QED
    BY <1>1, <1>2, <2>1, NoneIsNoCall, PlainCallNext DEF GcLabels
<1> QED
  BY <1>1, <1>2, <1>3, <1>4, PlainStep DEF GcLabels

LEMMA DelPowered ==
    ASSUME IInv, Powered, NEW k \in Keys, Del(k)
    PROVE  Powered'
<1>1. /\ pc = "idle" /\ pc' = "del" /\ call' = [key |-> k, val |-> None, done |-> FALSE]
      /\ UNCHANGED <<store, dirty, flash, gcRequest, lastDel, cache, ret>>
  BY DEF Del, flashVars, dbVars
<1>2. Plain /\ Plain' /\ CacheStep
  BY <1>1 DEF Plain, CacheStep
<1>3. ControlOK'
  BY <1>1, <1>2, PlainControl, PlainControlNext DEF Powered, GcLabels
<1>4. CallOK'
  BY <1>1, <1>2, PlainCallNext DEF GcLabels
<1> QED
  BY <1>1, <1>2, <1>3, <1>4, PlainStep DEF GcLabels

\* A call that ends.
LEMMA IdlePowered ==
    ASSUME Powered, Plain, pc \notin GcLabels, Idle,
           UNCHANGED <<store, dirty, flash, lastDel, cache>>, ~gcRequest'
    PROVE  Powered'
<1>1. pc' = "idle" /\ call' = None
  BY DEF Idle
<1>2. Plain' /\ CacheStep
  BY <1>1 DEF Plain, CacheStep
<1>3. ControlOK'
  BY <1>1, <1>2, PlainControl, PlainControlNext DEF Powered, GcLabels
<1>4. CallOK'
  BY <1>1, <1>2, PlainCallNext DEF GcLabels
<1> QED
  BY <1>1, <1>2, <1>3, <1>4, PlainStep DEF GcLabels

LEMMA DelMissingPowered ==
    ASSUME IInv, Powered, DelMissing
    PROVE  Powered'
<1>1. pc = "del" /\ Idle /\ UNCHANGED <<store, dirty, flash, gcRequest, lastDel, cache>>
  BY DEF DelMissing, flashVars, dbVars
<1>2. Plain
  BY <1>1 DEF Plain
<1>3. ~gcRequest
  BY <1>1, <1>2, PlainControl DEF Powered, GcLabels
<1> QED
  BY <1>1, <1>2, <1>3, IdlePowered DEF GcLabels

LEMMA ReturnPowered ==
    ASSUME IInv, Powered, Return
    PROVE  Powered'
<1>1. pc = "end" /\ Idle /\ UNCHANGED <<store, dirty, flash, gcRequest, lastDel, cache>>
  BY DEF Return, flashVars, dbVars
<1>2. Plain
  BY <1>1 DEF Plain
<1>3. ~gcRequest
  BY <1>1, <1>2, PlainControl DEF Powered, GcLabels
<1> QED
  BY <1>1, <1>2, <1>3, IdlePowered DEF GcLabels

\* No set asks for a collection after it has written: no sector is ever full.
LEMMA SetEndPowered ==
    ASSUME IInv, Powered, SetEnd
    PROVE  Powered'
<1>1. pc = "set_end" /\ UNCHANGED <<store, dirty, flash, gcRequest, lastDel, cache>>
  BY DEF SetEnd, flashVars, dbVars
<1>2. Plain
  BY <1>1 DEF Plain
<1>3. ~gcRequest
  BY <1>1, <1>2, PlainControl DEF Powered, GcLabels
<1>4. Idle
  BY <1>3 DEF SetEnd
<1> QED
  BY <1>1, <1>2, <1>3, <1>4, IdlePowered DEF GcLabels

LEMMA ReadPowered ==
    ASSUME IInv, Powered, NEW k \in Keys, Read(k)
    PROVE  Powered'
<1>1. /\ pc = "idle" /\ Find(k) # None /\ cache' = [cache EXCEPT ![k] = Find(k)]
      /\ UNCHANGED <<store, dirty, flash, gcRequest, lastDel, ret, call, pc>>
  BY DEF Read, Cached, flashVars, ctlVars
<1>2. Plain /\ Plain'
  BY <1>1 DEF Plain
<1>3. CacheStep
  <2>1. cache \in [Keys -> Addrs \cup {None}]
    BY DEF IInv, TypeOK
  <2>2. cache'[k] = Find(k) /\ \A l \in Keys : l # k => cache'[l] = cache[l]
    BY <1>1, <2>1
  <2>3. CASE CacheHit(k)
    BY <2>2, <2>3 DEF Find, CacheStep
  <2>4. CASE ~CacheHit(k)
    <3>1. Written(k) # {} /\ Find(k) = FirstAddr(Written(k))
      BY <1>1, <2>4 DEF Find
    <3>2. Written(k) \subseteq Addrs
      BY DEF Written, NodeAddrs
    <3>3. Find(k) \in Written(k)
      BY <3>1, <3>2, FirstAddrType DEF IInv, TypeOK
    <3> QED
      BY <2>2, <3>3 DEF Written, CacheStep, KeyOf, StatusOf
  <2> QED
    BY <2>3, <2>4
<1>4. ControlOK'
  BY <1>1, <1>2, PlainControl, PlainControlNext DEF Powered, GcLabels
<1>5. CallOK'
  <2>1. call = None
    BY <1>1 DEF Powered, CallOK
  <2> QED
    BY <1>1, <1>2, <2>1, PlainCallNext DEF GcLabels
<1> QED
  BY <1>1, <1>2, <1>3, <1>4, <1>5, PlainStep DEF GcLabels

\* A sector alloc_kv accepts takes the node behind its last one.
LEMMA RoomyFits ==
    ASSUME TypeOK, BlankOK, Spaced, NEW len \in Nat,
           NEW status \in {"USING", "EMPTY"}, NEW s \in Roomy(status, len)
    PROVE  /\ s \in Sectors /\ store[s] = status
           /\ Remain(s) > len + Threshold
           /\ FreeOffset(s) + len + Threshold < SectorSize
           /\ \A o \in Occupied(s) : o + LenOf(<<s, o>>) <= FreeOffset(s)
<1>1. s \in Sectors /\ store[s] = status /\ Remain(s) > len + Threshold
  BY DEF Roomy
<1>2. SectorSize \in Nat \ {0} /\ HdrSize \in Nat \ {0} /\ Threshold \in Nat
  BY FdbAssumption
<1>3. CASE status = "EMPTY"
  <2>1. FreeOffset(s) = 0 /\ Remain(s) = SectorSize
    BY <1>1, <1>3 DEF FreeOffset, Remain
  <2>2. Occupied(s) = {}
    BY <1>1, <1>3 DEF BlankOK, Occupied
  <2> QED
    BY <1>1, <1>2, <2>1, <2>2
<1>4. CASE status = "USING"
  <2>1. FreeOffset(s) = EmptyKv(s) /\ Remain(s) = SectorSize - EmptyKv(s)
    BY <1>1, <1>4 DEF FreeOffset, Remain
  <2>2. CASE Occupied(s) = {}
    <3>1. EmptyKv(s) = HdrSize
      BY <2>2 DEF EmptyKv
    <3> QED
      BY <1>1, <1>2, <2>1, <2>2, <3>1
  <2>3. CASE Occupied(s) # {}
    <3> DEFINE g == Greatest(Occupied(s))
    <3>1. g \in Occupied(s) /\ \A p \in Occupied(s) : p <= g
      BY <2>3, GreatestType DEF Occupied
    <3>2. EmptyKv(s) = g + LenOf(<<s, g>>)
      BY <2>3 DEF EmptyKv, LenOf, NodeAt
    <3> HIDE DEF g
    <3>3. g \in Nat /\ LenOf(<<s, g>>) \in Nat
      BY <1>1, <3>1, OccupiedFacts
    <3>4. ASSUME NEW o \in Occupied(s)
          PROVE  o + LenOf(<<s, o>>) <= EmptyKv(s)
      <4>1. o \in Nat /\ LenOf(<<s, o>>) \in Nat /\ o <= g
        BY <1>1, <3>1, OccupiedFacts
      <4>2. o < g => o + LenOf(<<s, o>>) <= g
        BY <1>1, <3>1 DEF Spaced
      <4> QED
        BY <3>2, <3>3, <4>1, <4>2
    <3> QED
      BY <1>1, <1>2, <2>1, <3>2, <3>3, <3>4
  <2> QED
    BY <2>2, <2>3
<1> QED
  BY <1>3, <1>4

\* The place alloc_kv finds for a node.
LEMMA PlaceFits ==
    ASSUME TypeOK, BlankOK, Spaced, NEW k \in Keys, NEW v \in Vals,
           Candidates(KvLen[v]) # {},
           NEW n, n = NewNode(FirstSector(Candidates(KvLen[v])), k, v)
    PROVE  /\ n.sec \in Sectors /\ n.key = k /\ n.val = v
           /\ n.remain > KvLen[v] + Threshold
           /\ n.off + KvLen[v] + Threshold < SectorSize
           /\ \A o \in Occupied(n.sec) : o + LenOf(<<n.sec, o>>) <= n.off
           /\ \/ n.sec \in Roomy("USING", KvLen[v])
              \/ n.sec \in Roomy("EMPTY", KvLen[v]) /\ MayOpenEmpty
<1> DEFINE len == KvLen[v]
           s == FirstSector(Candidates(len))
<1>1. len \in Nat
  BY FdbAssumption
<1>2. Candidates(len) \subseteq Sectors
  BY DEF Candidates, Roomy
<1>3. s \in Candidates(len)
  BY <1>2, FirstSectorType DEF TypeOK
<1>4. \/ s \in Roomy("USING", len)
      \/ s \in Roomy("EMPTY", len) /\ MayOpenEmpty
  BY <1>3 DEF Candidates
<1>5. n = [sec |-> s, off |-> FreeOffset(s), remain |-> Remain(s), key |-> k, val |-> v, full |-> FALSE]
  BY DEF NewNode
<1> HIDE DEF len, s
<1>6. /\ s \in Sectors /\ Remain(s) > len + Threshold
      /\ FreeOffset(s) + len + Threshold < SectorSize
      /\ \A o \in Occupied(s) : o + LenOf(<<s, o>>) <= FreeOffset(s)
  BY <1>1, <1>4, RoomyFits
<1> QED
  BY <1>4, <1>5, <1>6 DEF len

\* An allocation that succeeds leaves a sector empty.
LEMMA SetAllocPowered ==
    ASSUME IInv, Powered, SetAlloc
    PROVE  Powered'
<1>1. pc \in {"set_alloc", "set_retry"} /\ UNCHANGED <<store, dirty, flash, lastDel, cache, scan>>
  BY DEF SetAlloc, flashVars
<1>2. Plain /\ CacheStep
  BY <1>1 DEF Plain, CacheStep
<1>3. ~gcRequest /\ ~lastDel
  BY <1>1, <1>2, PlainControl DEF Powered, GcLabels
<1>4. call # None /\ call.key \in Keys /\ call.val \in Vals /\ ~call.done
  BY <1>1 DEF Powered, CallOK, Pursuing
<1>5. TypeOK /\ BlankOK /\ Spaced /\ SectorsOK /\ EmptySectors # {}
  BY <1>2, PlainPhase DEF IInv, Powered, LayoutOK, ReserveOK
<1>6. CASE /\ Candidates(KvLen[call.val]) # {}
           /\ new' = NewNode(FirstSector(Candidates(KvLen[call.val])), call.key, call.val)
           /\ pc' = "set_find"
           /\ UNCHANGED <<gcRequest, call, ret, old, gc>>
  <2>1. /\ new'.sec \in Sectors /\ new'.key = call.key /\ new'.val = call.val
        /\ new'.remain > KvLen[new'.val] + Threshold
        /\ new'.off + KvLen[new'.val] + Threshold < SectorSize
        /\ \A o \in Occupied(new'.sec) : o + LenOf(<<new'.sec, o>>) <= new'.off
        /\ \/ new'.sec \in Roomy("USING", KvLen[new'.val])
           \/ new'.sec \in Roomy("EMPTY", KvLen[new'.val]) /\ MayOpenEmpty
    BY <1>4, <1>5, <1>6, PlaceFits
  <2>2. store[new'.sec] \in {"EMPTY", "USING"}
    BY <2>1 DEF Roomy
  <2>3. EmptySectors \ {new'.sec} # {}
    <3>1. CASE new'.sec \in Roomy("USING", KvLen[new'.val])
      BY <1>5, <3>1 DEF Roomy, EmptySectors
    <3>2. CASE MayOpenEmpty
      BY <1>3, <3>2, ReserveStays DEF MayOpenEmpty
    <3> QED
      BY <2>1, <3>1, <3>2
  <2>4. SameFlash /\ SameNodes /\ FewerNodes /\ \A s \in Sectors : Occupied(s)' = Occupied(s)
    BY <1>1, FlashKept, SameNodesFewer DEF SameFlash
  <2>5. /\ ~Loading' /\ ~Resetting' /\ ~Emptying' /\ ~Copying' /\ ~Prepared' /\ ~Replaced'
        /\ ~Writing' /\ Holding' /\ pc' \notin Creating /\ pc' \notin GcLabels
        /\ pc' \notin MoveLabels /\ ~Rerun' /\ ~Unwalked
    BY <1>1, <1>6 DEF Loading, Resetting, Emptying, Holding, Copying, Prepared, Replaced, Writing,
                Creating, MoveLabels, GcLabels, Rerun, Unwalked
  <2>6. ControlOK'
    BY <1>1, <1>3, <1>6, <2>5 DEF ControlOK
  <2>7. CallOK' /\ LinkOK'
    BY <1>4, <1>6, <2>1, <2>5 DEF CallOK, LinkOK, Pursuing
  <2>8. ~Writing /\ ~Prepared
    BY <1>2, PlainPhase
  <2>9. StatusOK' /\ KeysOK' /\ LeadsOK' /\ Spaced' /\ SectorsOK'
    BY <1>1, <1>2, <1>6, <2>4, <2>5, <2>8, StatusKept, OneWrittenKept, CacheLeadsKept, SpacedKept,
       SectorsKept DEF Powered, KeysOK, LeadsOK, LayoutOK, SameFlash
  <2>10. LayoutOK'
    <3>1. Occupied(new.sec)' = Occupied(new'.sec)
      BY <1>1 DEF Occupied
    <3>2. \A o : LenOf(<<new.sec, o>>)' = LenOf(<<new'.sec, o>>)
      BY <1>1 DEF LenOf, NodeAt
    <3>3. Fits'
      BY <1>1, <2>1, <2>2, <3>1, <3>2 DEF Fits
    <3> QED
      BY <2>9, <3>3 DEF LayoutOK
  <2>11. LoadingOK' /\ EmptyingOK' /\ RoomOK'
    BY <1>6, <2>5 DEF LoadingOK, EmptyingOK, RoomOK
  <2>12. ReserveOK'
    BY <1>1, <1>5, <2>3, <2>5 DEF ReserveOK, EmptySectors
  <2> QED
    BY <2>6, <2>7, <2>9, <2>10, <2>11, <2>12 DEF Powered
<1>7. CASE gcRequest' = TRUE /\ CallGc(KvLen[call.val], "set_retry") /\ UNCHANGED <<call, new, old>>
  <2>1. pc' = "gc_begin" /\ ret'.gc = "set_retry"
    BY <1>7 DEF CallGc, IInv, TypeOK
  <2>2. Plain'
    BY <2>1 DEF Plain
  <2>3. ControlOK'
    BY <1>1, <1>3, <1>7, <2>1, <2>2, PlainControlNext DEF GcLabels
  <2>4. CallOK'
    BY <1>4, <1>7, <2>1, <2>2, PlainCallNext
  <2> QED
    BY <1>1, <1>2, <2>1, <2>2, <2>3, <2>4, PlainStep DEF GcLabels
<1>8. CASE gcRequest' = FALSE /\ Idle
  BY <1>1, <1>2, <1>8, IdlePowered DEF GcLabels
<1> QED
  BY <1>6, <1>7, <1>8 DEF SetAlloc

-----------------------------------------------------------------------------
(* The load, and the reset.                                                *)

LEMMA AwayPhaseNext ==
    Loading' \/ Resetting' =>
        /\ ~Emptying' /\ ~Holding' /\ ~Copying' /\ ~Prepared' /\ ~Replaced' /\ ~Reserved'
        /\ ~Writing' /\ ~Pursuing' /\ ~Rerun' /\ pc' \notin Creating /\ pc' \notin MoveLabels
        /\ pc' \notin GcLabels
        /\ pc' \notin {"idle", "del", "dirty", "gc_format", "header", "data", "commit"}
  BY DEF Loading, Resetting, Emptying, Holding, Copying, Prepared, Replaced, Reserved, Pursuing,
         Rerun, Writing, Creating, MoveLabels, GcLabels

LEMMA AwayPhase ==
    Loading \/ Resetting =>
        /\ ~Emptying /\ ~Prepared /\ ~Writing /\ ~Rerun /\ pc \notin GcLabels /\ pc # "header"
  BY DEF Loading, Resetting, Emptying, Copying, Prepared, Rerun, Writing, Creating, MoveLabels,
         GcLabels

LEMMA AwayFacts ==
    ASSUME Powered, Loading \/ Resetting
    PROVE  /\ ~gcRequest /\ ~lastDel
           /\ Resetting => \A k \in Keys : cache[k] = None
           /\ Loading => call = None
  BY AwayPhase DEF Powered, ControlOK, CallOK, LeadsOK

\* What is left to show when a step ends in the load or in a reset.
LEMMA AwayPowered ==
    ASSUME Loading' \/ Resetting', LoadingOK', SectorsOK', CallOK', CacheLeads',
           Resetting' => \A k \in Keys : cache'[k] = None, ~gcRequest', ~lastDel',
           Resetting' => ret'.reset \in {"end", "load_check"},
           StatusOK', OneWritten', Spaced'
    PROVE  Powered'
<1>1. /\ ~Emptying' /\ ~Holding' /\ ~Copying' /\ ~Prepared' /\ ~Replaced' /\ ~Reserved'
      /\ pc' \notin Creating /\ pc' \notin MoveLabels /\ pc' \notin GcLabels
      /\ pc' \notin {"idle", "del", "dirty", "gc_format", "header", "data", "commit"}
  BY AwayPhaseNext
<1>2. ControlOK'
  BY <1>1 DEF ControlOK, MoveLabels
<1>3. LinkOK' /\ KeysOK' /\ LayoutOK' /\ ReserveOK' /\ EmptyingOK' /\ RoomOK'
  BY <1>1 DEF LinkOK, KeysOK, LayoutOK, ReserveOK, EmptyingOK, RoomOK
<1>4. LeadsOK'
  BY DEF LeadsOK
<1> QED
  BY <1>2, <1>3, <1>4 DEF Powered

\* A step of the load that writes nothing.
LEMMA LoadStep ==
    ASSUME Powered, Loading, Loading', LoadingOK', UNCHANGED <<store, dirty, flash, call>>,
           CacheStep, Resetting' => \A k \in Keys : cache'[k] = None, ~gcRequest', ~lastDel',
           Resetting' => ret'.reset \in {"end", "load_check"},
           (Unwalked => Unwalked') \/ \A a \in NodeAddrs : ~Left(a)
    PROVE  Powered'
<1>1. SameFlash /\ SameNodes /\ FewerNodes
  BY FlashKept, SameNodesFewer DEF SameFlash
<1>2. ~Prepared /\ ~Writing /\ ~Prepared' /\ ~Writing' /\ ~Replaced'
  BY AwayPhase, AwayPhaseNext
<1>3. StatusOK'
  BY <1>1, <1>2, StatusKept DEF Powered
<1>4. OneWritten' /\ CacheLeads' /\ Spaced' /\ SectorsOK'
  BY <1>1, <1>2, OneWrittenKept, CacheLeadsKept, SpacedKept, SectorsKept
     DEF Powered, KeysOK, LeadsOK, LayoutOK, SameFlash
<1>5. CallOK'
  BY AwayFacts, AwayPhaseNext DEF CallOK
<1> QED
  BY <1>3, <1>4, <1>5, AwayPowered

\* A flash without a header holds no node.
LEMMA UnformattedBlank ==
    ASSUME BlankOK, Unformatted = Sectors
    PROVE  NodeAddrs = {}
<1>1. \A s \in Sectors, o \in Offsets : flash[s][o] = None
  BY DEF BlankOK, Unformatted
<1> QED
  BY <1>1 DEF NodeAddrs, NodeAt, Addrs

LEMMA BootPowered ==
    ASSUME IInv, Powered, Boot
    PROVE  Powered'
<1>1. pc = "off" /\ UNCHANGED <<store, dirty, flash, call, cache, gcRequest, lastDel>>
  BY DEF Boot, flashVars
<1>2. Loading /\ ~Resetting /\ CacheStep
  BY <1>1 DEF Loading, Resetting, CacheStep
<1>3. \/ pc' = "load_new" /\ Unformatted = Sectors
      \/ pc' = "load_headers"
  BY DEF Boot
<1>4. Loading' /\ ~Resetting' /\ Unwalked'
  BY <1>3 DEF Loading, Resetting, Unwalked
<1>5. pc' = "load_new" => NodeAddrs' = {}
  BY <1>1, <1>3, UnformattedBlank, FlashKept DEF IInv, SameFlash, SameNodes
<1>6. LoadingOK'
  BY <1>1, <1>2, <1>3, <1>4, <1>5 DEF Powered, LoadingOK, EmptySectors
<1> QED
  BY <1>1, <1>2, <1>4, <1>6, AwayFacts, LoadStep

LEMMA LoadCheckPowered ==
    ASSUME IInv, Powered, LoadCheck
    PROVE  Powered'
<1>1. pc = "load_check" /\ pc' = "load_gc"
      /\ UNCHANGED <<store, dirty, flash, call, cache, gcRequest, lastDel>>
  BY DEF LoadCheck, flashVars, dbVars
<1>2. Loading /\ Loading' /\ ~Resetting /\ ~Resetting' /\ Unwalked' /\ CacheStep
  BY <1>1 DEF Loading, Resetting, Unwalked, CacheStep
<1>3. LoadingOK'
  BY <1>1, <1>2 DEF Powered, LoadingOK, EmptySectors
<1> QED
  BY <1>1, <1>2, <1>3, AwayFacts, LoadStep

LEMMA LoadStartPowered ==
    ASSUME IInv, Powered, LoadStart
    PROVE  Powered'
<1>1. pc = "load_start" /\ pc' = "load_kv" /\ scan' = [from |-> oldest, done |-> 0]
      /\ UNCHANGED <<store, dirty, flash, call, cache, gcRequest, lastDel>>
  BY DEF LoadStart, flashVars, dbVars
<1>2. Loading /\ Loading' /\ ~Resetting /\ ~Resetting' /\ Unwalked' /\ CacheStep
  BY <1>1 DEF Loading, Resetting, Unwalked, CacheStep
<1>3. scan'.done = 0
  BY <1>1
<1>4. LoadingOK'
  BY <1>1, <1>2, <1>3 DEF Powered, LoadingOK, EmptySectors
<1> QED
  BY <1>1, <1>2, <1>4, AwayFacts, LoadStep

\* A collection that a loss of power interrupted has its empty sector.
LEMMA LoadGcPowered ==
    ASSUME IInv, Powered, LoadGc
    PROVE  Powered'
<1>1. pc = "load_gc" /\ UNCHANGED <<store, dirty, flash, call, cache, lastDel>>
  BY DEF LoadGc, flashVars
<1>2. Loading /\ ~Resetting /\ CacheStep /\ pc \notin GcLabels
  BY <1>1 DEF Loading, Resetting, CacheStep, GcLabels
<1>3. CASE pc' = "load_start" /\ gcRequest' = gcRequest
  <2>1. Loading' /\ ~Resetting' /\ Unwalked'
    BY <1>3 DEF Loading, Resetting, Unwalked
  <2>2. LoadingOK'
    BY <1>1, <1>2, <1>3, <2>1 DEF Powered, LoadingOK, EmptySectors
  <2> QED
    BY <1>1, <1>2, <1>3, <2>1, <2>2, AwayFacts, LoadStep
<1>4. CASE /\ \E s \in Sectors : dirty[s] = "GC"
           /\ gcRequest' = TRUE /\ CallGc(MaxSize, "load_gc")
  <2>1. pc' = "gc_begin" /\ ret'.gc = "load_gc"
    BY <1>4 DEF CallGc, IInv, TypeOK
  <2>2. Plain' /\ Unwalked'
    BY <2>1 DEF Plain, Unwalked, Rerun, GcLabels
  <2>3. ~lastDel /\ call = None /\ ~Prepared /\ ~Writing /\ ~Prepared' /\ ~Writing' /\ ~Replaced'
    BY <1>2, <2>2, AwayFacts, AwayPhase, PlainPhaseNext
  <2>4. ControlOK'
    BY <1>1, <1>4, <2>1, <2>2, <2>3, PlainControlNext DEF GcLabels
  <2>5. CallOK'
    BY <1>1, <2>1, <2>2, <2>3, PlainCallNext
  <2>6. SameFlash /\ SameNodes /\ FewerNodes
    BY <1>1, FlashKept, SameNodesFewer DEF SameFlash
  <2>7. StatusOK' /\ OneWritten' /\ CacheLeads' /\ Spaced' /\ SectorsOK'
    BY <1>1, <1>2, <2>2, <2>3, <2>6, StatusKept, OneWrittenKept, CacheLeadsKept, SpacedKept,
       SectorsKept DEF Powered, KeysOK, LeadsOK, LayoutOK, SameFlash
  <2>8. EmptySectors' # {}
    BY <1>1, <1>2, <1>4 DEF Powered, LoadingOK, EmptySectors
  <2> QED
    BY <2>1, <2>2, <2>4, <2>5, <2>7, <2>8, PlainPowered
<1>5. \/ pc' = "load_start" /\ gcRequest' = gcRequest
      \/ /\ \E s \in Sectors : dirty[s] = "GC"
         /\ gcRequest' = TRUE /\ CallGc(MaxSize, "load_gc")
  <2> DEFINE ahead == {s \in Sectors : dirty[s] = "GC" /\ Distance(scan.from, s) >= scan.done}
  <2>1. IF ahead = {} THEN pc' = "load_start" /\ gcRequest' = gcRequest
                      ELSE gcRequest' = TRUE /\ CallGc(MaxSize, "load_gc")
    BY DEF LoadGc
  <2> QED
    BY <2>1
<1> QED
  BY <1>3, <1>4, <1>5

\* A collection returns to the set that asked for it, or to the load.
LEMMA GcReturnPowered ==
    ASSUME IInv, Powered, pc \in {"gc_begin", "gc_sector"}, pc' = ret.gc, gcRequest' = FALSE,
           UNCHANGED <<store, dirty, flash, lastDel, cache, call, ret>>
    PROVE  Powered'
<1>1. Plain /\ CacheStep
  BY DEF Plain, CacheStep
<1>2. ~lastDel /\ ret.gc \in {"set_retry", "load_gc"}
  BY <1>1, PlainControl DEF Powered, GcLabels
<1>3. EmptySectors # {} /\ ~Prepared /\ ~Writing
  BY <1>1, PlainPhase DEF Powered, ReserveOK
<1>4. SameFlash /\ SameNodes /\ FewerNodes
  BY FlashKept, SameNodesFewer DEF SameFlash
<1>5. CASE ret.gc = "set_retry"
  <2>1. Plain' /\ ~Unwalked
    BY <1>5 DEF Plain, Unwalked, Loading, Resetting, Rerun
  <2>2. ControlOK'
    BY <1>2, <1>5, <2>1, PlainControlNext DEF GcLabels
  <2>3. call # None /\ call.key \in Keys /\ call.val \in Vals /\ ~call.done
    BY <1>5 DEF Powered, CallOK, Pursuing, GcLabels
  <2>4. CallOK'
    BY <1>5, <2>1, <2>3, PlainCallNext DEF GcLabels
  <2>5. ~Prepared' /\ ~Writing' /\ ~Replaced'
    BY <2>1, PlainPhaseNext
  <2>6. StatusOK' /\ OneWritten' /\ CacheLeads' /\ Spaced' /\ SectorsOK'
    BY <1>1, <1>3, <1>4, <2>1, <2>5, StatusKept, OneWrittenKept, CacheLeadsKept, SpacedKept,
       SectorsKept DEF Powered, KeysOK, LeadsOK, LayoutOK, SameFlash
  <2>7. EmptySectors' # {}
    BY <1>3 DEF EmptySectors
  <2> QED
    BY <1>5, <2>1, <2>2, <2>4, <2>6, <2>7, PlainPowered
<1>6. CASE ret.gc = "load_gc"
  <2>1. Loading' /\ ~Resetting' /\ Unwalked'
    BY <1>6 DEF Loading, Resetting, Unwalked
  <2>2. call = None
    BY <1>6 DEF Powered, CallOK, Rerun, GcLabels
  <2>3. CallOK'
    BY <2>1, <2>2, AwayPhaseNext DEF CallOK
  <2>4. ~Prepared' /\ ~Writing' /\ ~Replaced'
    BY <2>1, AwayPhaseNext
  <2>5. StatusOK' /\ OneWritten' /\ CacheLeads' /\ Spaced' /\ SectorsOK'
    BY <1>1, <1>3, <1>4, <2>1, <2>4, StatusKept, OneWrittenKept, CacheLeadsKept, SpacedKept,
       SectorsKept DEF Powered, KeysOK, LeadsOK, LayoutOK, SameFlash
  <2>6. LoadingOK'
    BY <1>3, <1>6, <2>1 DEF LoadingOK, EmptySectors
  <2> QED
    BY <1>2, <2>1, <2>3, <2>5, <2>6, AwayPowered
<1> QED
  BY <1>2, <1>5, <1>6

LEMMA GcBeginPowered ==
    ASSUME IInv, Powered, GcBegin
    PROVE  Powered'
<1>1. pc = "gc_begin" /\ UNCHANGED <<store, dirty, flash, lastDel, cache, call, ret>>
  BY DEF GcBegin, flashVars
<1>2. Plain /\ CacheStep
  BY <1>1 DEF Plain, CacheStep
<1>3. gcRequest /\ ~lastDel /\ ret.gc \in {"set_retry", "load_gc"}
  BY <1>1, <1>2, PlainControl DEF Powered, GcLabels
<1>4. CASE pc' = "gc_sector" /\ gcRequest' = gcRequest
  <2>1. Plain'
    BY <1>4 DEF Plain
  <2>2. ControlOK'
    BY <1>1, <1>3, <1>4, <2>1, PlainControlNext DEF GcLabels
  <2>3. /\ ret.gc = "load_gc" => call = None
        /\ ret.gc = "set_retry" => call # None /\ call.key \in Keys /\ call.val \in Vals /\ ~call.done
    BY <1>1 DEF Powered, CallOK, Pursuing, Rerun, GcLabels
  <2>4. CallOK'
    BY <1>1, <1>4, <2>1, <2>3, PlainCallNext
  <2> QED
    BY <1>1, <1>2, <1>4, <2>1, <2>2, <2>4, PlainStep DEF GcLabels
<1>5. CASE pc' = ret.gc /\ gcRequest' = FALSE
  BY <1>1, <1>5, GcReturnPowered
<1> QED
  BY <1>4, <1>5 DEF GcBegin

LEMMA GcEndPowered ==
    ASSUME IInv, Powered, GcEnd
    PROVE  Powered'
<1>1. pc = "gc_sector" /\ UNCHANGED <<store, dirty, flash, lastDel, cache, call, ret>>
      /\ gcRequest' = FALSE /\ pc' = ret.gc
  BY DEF GcEnd, flashVars
<1> QED
  BY <1>1, GcReturnPowered

\* The walk of the load leads the cache to written nodes only.
LEMMA CachedUpToStep ==
    ASSUME TypeOK, scan # None, NEW p \in Nat, cache' = CachedUpTo(p)
    PROVE  CacheStep
  BY CachedUpToWritten DEF CacheStep, Written, KeyOf, StatusOf

\* The one node that a loss of power left half-written is discarded: no other is
\* left when the walk ends.
LEMMA LoadKvPowered ==
    ASSUME IInv, Powered, LoadKv
    PROVE  Powered'
<1>1. pc = "load_kv" /\ UNCHANGED <<store, dirty, gcRequest, lastDel, call>>
  BY DEF LoadKv
<1>2. Loading /\ ~Resetting
  BY <1>1 DEF Loading, Resetting
<1>3. ~Prepared /\ ~Writing
  BY <1>2, AwayPhase
<1>4. TypeOK /\ scan # None /\ scan \in Walks
  BY <1>1 DEF IInv, RunningOK, Scanning, TypeOK
<1>5. PICK a \in Unfinished :
          /\ cache' = CachedUpTo(Place(a))
          /\ \/ NodeAt(a).status = "PRE_DELETE"
             \/ /\ NodeAt(a).status = "PRE_WRITE"
                /\ flash' = [flash EXCEPT ![a[1]][a[2]].status = "ERR_HDR"]
                /\ pc' = "load_end"
  BY <1>4, LoadKvPick
<1>6. a \in NodeAddrs /\ a \in Addrs /\ Place(a) \in Nat
  BY <1>4, <1>5, PlaceType DEF Unfinished, NodeAddrs
<1>7. StatusOf(a) # "PRE_DELETE"
  BY <1>3, <1>6 DEF Powered, StatusOK
<1>8. /\ StatusOf(a) = "PRE_WRITE" /\ pc' = "load_end"
      /\ flash' = [flash EXCEPT ![a[1]][a[2]].status = "ERR_HDR"]
  BY <1>5, <1>7 DEF StatusOf
<1>9. Marks(a, "ERR_HDR") /\ SameNodes /\ FewerNodes
  BY <1>4, <1>6, <1>8, StatusMarks, SameNodesFewer DEF KvStatus, Marks
<1>10. Loading' /\ ~Resetting'
  BY <1>8 DEF Loading, Resetting
<1>11. ~Prepared' /\ ~Writing' /\ ~Replaced'
  BY <1>10, AwayPhaseNext
<1>12. Left(a) /\ \A b \in NodeAddrs : StatusOf(b) = "PRE_WRITE" => b = a
  BY <1>3, <1>6, <1>8 DEF Powered, StatusOK, Left, Begun, Writing
<1>13. \A b \in NodeAddrs : StatusOf(b)' # "PRE_WRITE" /\ StatusOf(b)' # "PRE_DELETE"
  BY <1>3, <1>9, <1>12 DEF Marks, Powered, StatusOK
<1>14. StatusOK'
  BY <1>9, <1>11, <1>13 DEF StatusOK, SameNodes, Left, Begun, Writing
<1>15. OneWritten'
  BY <1>9, OneWrittenKept DEF Marks, Powered, KeysOK
<1>16. CacheStep
  BY <1>4, <1>5, <1>6, CachedUpToStep
<1>17. CacheLeads'
  <2> SUFFICES ASSUME NEW k \in Keys, NEW b, b = cache'[k], b # None
               PROVE  b \in NodeAddrs' /\ KeyOf(b)' = k /\ StatusOf(b)' = "WRITE"
    BY DEF CacheLeads
  <2>1. /\ b \in NodeAddrs /\ KeyOf(b) = k
        /\ StatusOf(b) = "WRITE" \/ StatusOf(b) = "PRE_DELETE"
    BY <1>16 DEF CacheStep, Powered, LeadsOK, CacheLeads
  <2>2. StatusOf(b) = "WRITE"
    BY <1>3, <2>1 DEF Powered, StatusOK
  <2> QED
    BY <1>8, <1>9, <2>1, <2>2 DEF Marks, SameNodes
<1>18. Spaced' /\ SectorsOK'
  BY <1>1, <1>9, SpacedKept, SectorsKept DEF Powered, LayoutOK
<1>19. LoadingOK'
  BY <1>1, <1>2, <1>8, <1>10 DEF Powered, LoadingOK, EmptySectors
<1>20. CallOK'
  BY <1>1, <1>2, <1>10, AwayFacts, AwayPhaseNext DEF CallOK
<1> QED
  BY <1>1, <1>2, <1>10, <1>14, <1>15, <1>17, <1>18, <1>19, <1>20, AwayFacts, AwayPowered

LEMMA LoadKvEndPowered ==
    ASSUME IInv, Powered, LoadKvEnd
    PROVE  Powered'
<1>1. pc = "load_kv" /\ pc' = "load_end" /\ cache' = CachedUpTo(MaxSize) /\ Unfinished = {}
      /\ UNCHANGED <<store, dirty, flash, call, gcRequest, lastDel>>
  BY DEF LoadKvEnd, flashVars
<1>2. Loading /\ Loading' /\ ~Resetting /\ ~Resetting'
  BY <1>1 DEF Loading, Resetting
<1>3. TypeOK /\ scan # None /\ scan \in Walks /\ scan.done = 0
  BY <1>1 DEF IInv, RunningOK, Scanning, TypeOK, Powered, LoadingOK
<1>4. \A a \in NodeAddrs : ~Left(a)
  BY <1>1, <1>3, PlaceType DEF Unfinished, NodeAddrs, Left, StatusOf
<1>5. CacheStep
  BY <1>1, <1>3, MaxSizeType, CachedUpToStep
<1>6. LoadingOK'
  BY <1>1, <1>2 DEF Powered, LoadingOK, EmptySectors
<1> QED
  BY <1>1, <1>2, <1>4, <1>5, <1>6, AwayFacts, LoadStep

LEMMA LoadEndPowered ==
    ASSUME IInv, LeftInv, Powered, LoadEnd
    PROVE  Powered'
<1>1. pc = "load_end" /\ UNCHANGED <<store, dirty, flash, call, cache, gcRequest, lastDel>>
  BY DEF LoadEnd, flashVars
<1>2. Loading /\ ~Unwalked /\ CacheStep
  BY <1>1 DEF Loading, Unwalked, Rerun, Emptying, Copying, Creating, MoveLabels, GcLabels, CacheStep
<1>3. ~gcRequest /\ ~lastDel /\ call = None
  BY <1>2, AwayFacts
<1>4. pc' = "idle"
  BY <1>3 DEF LoadEnd
<1>5. Plain'
  BY <1>4 DEF Plain
<1>6. ControlOK' /\ CallOK'
  BY <1>1, <1>3, <1>4, <1>5, PlainControlNext, PlainCallNext DEF GcLabels
<1>7. SameFlash /\ SameNodes /\ FewerNodes
  BY <1>1, FlashKept, SameNodesFewer DEF SameFlash
<1>8. StatusOK' /\ OneWritten' /\ CacheLeads' /\ Spaced' /\ SectorsOK'
  <2>1. ~Prepared /\ ~Writing /\ ~Prepared' /\ ~Writing' /\ ~Replaced'
    BY <1>2, <1>5, AwayPhase, PlainPhaseNext
  <2> QED
    BY <1>1, <1>2, <1>7, <2>1, StatusKept, OneWrittenKept, CacheLeadsKept, SpacedKept, SectorsKept
       DEF Powered, KeysOK, LeadsOK, LayoutOK, SameFlash
<1>9. EmptySectors' # {}
  <2>1. pc \notin Between /\ ~InGc
    BY <1>1 DEF Between, InGc, Moving, MoveLabels, Creating
  <2> QED
    BY <1>1, <2>1 DEF LeftInv, LeftOK, EmptyLeft, EmptySectors
<1> QED
  BY <1>4, <1>5, <1>6, <1>8, <1>9, PlainPowered

LEMMA LoadHeadersEndPowered ==
    ASSUME IInv, Powered, LoadHeadersEnd
    PROVE  Powered'
<1>1. /\ pc \in {"load_new", "load_headers"}
      /\ UNCHANGED <<store, dirty, flash, call, gcRequest, lastDel>>
  BY DEF LoadHeadersEnd, flashVars
<1>2. Loading /\ ~Resetting
  BY <1>1 DEF Loading, Resetting
<1>3. CASE pc = "load_headers"
  <2>1. pc' = "load_check" /\ cache' = cache
    BY <1>3 DEF LoadHeadersEnd
  <2>2. Loading' /\ ~Resetting' /\ Unwalked' /\ CacheStep
    BY <2>1 DEF Loading, Resetting, Unwalked, CacheStep
  <2>3. LoadingOK'
    BY <1>1, <1>2, <2>1, <2>2 DEF Powered, LoadingOK, EmptySectors
  <2> QED
    BY <1>1, <1>2, <2>2, <2>3, AwayFacts, LoadStep
<1>4. CASE pc = "load_new"
  <2>1. CallReset("load_check")
    BY <1>4 DEF LoadHeadersEnd
  <2>2. pc' = "reset_erase" /\ ret'.reset = "load_check" /\ (\A k \in Keys : cache'[k] = None)
        /\ scan' = [from |-> 0, done |-> 0]
    BY <2>1 DEF CallReset, IInv, TypeOK
  <2>3. Loading' /\ Unwalked' /\ CacheStep
    BY <2>2 DEF Loading, Resetting, Unwalked, CacheStep
  <2>4. NodeAddrs' = {}
    BY <1>1, <1>4, FlashKept DEF Powered, LoadingOK, SameFlash, SameNodes
  <2>5. \A s \in Sectors : ~(s < scan'.done)
    BY <2>2 DEF Sectors
  <2>6. LoadingOK'
    BY <1>1, <2>2, <2>4, <2>5 DEF LoadingOK, Resetting
  <2> QED
    BY <1>1, <1>2, <2>2, <2>3, <2>6, AwayFacts, LoadStep
<1> QED
  BY <1>1, <1>3, <1>4

LEMMA LoadHeaderPowered ==
    ASSUME IInv, Powered, LoadHeader
    PROVE  Powered'
<1>1. pc \in {"load_new", "load_headers"} /\ Unformatted # {} /\ Format(FirstSector(Unformatted))
      /\ UNCHANGED <<flash, call, pc, ret, new, old, scan, cache, gcRequest, lastDel>>
  BY DEF LoadHeader, dbVars, ctlVars
<1>2. Loading /\ Loading' /\ ~Resetting /\ ~Resetting' /\ Unwalked' /\ CacheStep
  BY <1>1 DEF Loading, Resetting, Unwalked, CacheStep
<1>3. PICK s \in Sectors : s = FirstSector(Unformatted)
  <2>1. oldest \in Sectors /\ Unformatted \subseteq Sectors
    BY DEF IInv, TypeOK, Unformatted
  <2>2. FirstSector(Unformatted) \in Unformatted
    BY <1>1, <2>1, FirstSectorType
  <2> QED
    BY <2>1, <2>2
<1>4. \A t \in Sectors : /\ store'[t] = IF t = s THEN "EMPTY" ELSE store[t]
                         /\ dirty'[t] = IF t = s THEN "FALSE" ELSE dirty[t]
  BY <1>1, <1>3 DEF Format, IInv, TypeOK
<1>5. SameFlash /\ SameNodes /\ FewerNodes
  BY <1>1, FlashKept, SameNodesFewer DEF SameFlash
<1>6. LoadingOK'
  <2>1. EmptySectors' # {}
    BY <1>4 DEF EmptySectors
  <2> QED
    BY <1>1, <1>2, <1>5, <2>1 DEF Powered, LoadingOK, SameNodes
<1>7. SectorsOK'
  BY <1>4 DEF Powered, SectorsOK
<1>8. CallOK'
  BY <1>1, <1>2, AwayFacts, AwayPhaseNext DEF CallOK
<1>9. StatusOK' /\ OneWritten' /\ CacheLeads' /\ Spaced'
  <2>1. ~Prepared /\ ~Writing /\ ~Prepared' /\ ~Writing' /\ ~Replaced'
    BY <1>2, AwayPhase, AwayPhaseNext
  <2> QED
    BY <1>2, <1>5, <2>1, StatusKept, OneWrittenKept, CacheLeadsKept, SpacedKept
       DEF Powered, KeysOK, LeadsOK, LayoutOK, SameFlash
<1> QED
  BY <1>1, <1>2, <1>6, <1>7, <1>8, <1>9, AwayFacts, AwayPowered

LEMMA ResetPowered ==
    ASSUME IInv, Powered, Reset
    PROVE  Powered'
<1>1. /\ pc = "idle" /\ call' = [key |-> None, val |-> None, done |-> FALSE]
      /\ CallReset("end")
      /\ UNCHANGED <<store, dirty, flash, gcRequest, lastDel>>
  BY DEF Reset, flashVars
<1>2. /\ pc' = "reset_erase" /\ ret'.reset = "end" /\ \A k \in Keys : cache'[k] = None
      /\ scan' = [from |-> 0, done |-> 0]
  BY <1>1 DEF CallReset, IInv, TypeOK
<1>3. Plain /\ ~Loading' /\ Resetting'
  BY <1>1, <1>2 DEF Plain, Loading, Resetting
<1>4. LoadingOK'
  <2>1. \A s \in Sectors : ~(s < 0)
    BY DEF Sectors
  <2> QED
    BY <1>2, <1>3, <2>1 DEF LoadingOK
<1>5. CallOK' /\ CacheStep
  BY <1>1, <1>2, <1>3, AwayPhaseNext DEF CallOK, CacheStep
<1>6. SameFlash /\ SameNodes /\ FewerNodes
  BY <1>1, FlashKept, SameNodesFewer DEF SameFlash
<1>7. StatusOK' /\ OneWritten' /\ CacheLeads' /\ Spaced' /\ SectorsOK'
  <2>1. ~Prepared /\ ~Writing /\ ~Prepared' /\ ~Writing' /\ ~Replaced'
    BY <1>3, AwayPhaseNext, PlainPhase
  <2>2. ~Unwalked
    BY <1>1, <1>3, PlainPhase DEF GcLabels
  <2> QED
    BY <1>1, <1>5, <1>6, <2>1, <2>2, StatusKept, OneWrittenKept, CacheLeadsKept, SpacedKept,
       SectorsKept DEF Powered, KeysOK, LeadsOK, LayoutOK, SameFlash
<1>8. ~gcRequest' /\ ~lastDel'
  BY <1>1, <1>3, PlainControl DEF Powered, GcLabels
<1> QED
  BY <1>2, <1>3, <1>4, <1>5, <1>7, <1>8, AwayPowered

\* An erase leaves the nodes of the other sectors.
LEMMA EraseNodes ==
    ASSUME TypeOK, NEW e \in Sectors, Erase(e)
    PROVE  /\ NodeAddrs' = {a \in NodeAddrs : a[1] # e}
           /\ \A a \in NodeAddrs' : NodeAt(a)' = NodeAt(a)
           /\ \A s \in Sectors : Occupied(s)' = IF s = e THEN {} ELSE Occupied(s)
           /\ FewerNodes
           /\ \A s \in Sectors : /\ store'[s] = IF s = e THEN "UNUSED" ELSE store[s]
                                 /\ dirty'[s] = IF s = e THEN "UNUSED" ELSE dirty[s]
<1>1. \A s \in Sectors, o \in Offsets : flash'[s][o] = IF s = e THEN None ELSE flash[s][o]
  BY DEF Erase, TypeOK
<1>2. \A a \in Addrs : NodeAt(a)' = IF a[1] = e THEN None ELSE NodeAt(a)
  BY <1>1 DEF NodeAt, Addrs
<1>3. NodeAddrs' = {a \in NodeAddrs : a[1] # e}
  BY <1>2 DEF NodeAddrs
<1>4. \A a \in NodeAddrs' : NodeAt(a)' = NodeAt(a)
  BY <1>2, <1>3 DEF NodeAddrs
<1>5. \A s \in Sectors : Occupied(s)' = IF s = e THEN {} ELSE Occupied(s)
  BY <1>1 DEF Occupied
<1>6. ASSUME NEW s \in Sectors, NEW o \in Occupied(s)'
      PROVE  LenOf(<<s, o>>)' = LenOf(<<s, o>>)
  <2>1. s # e /\ o \in Offsets
    BY <1>5 DEF Occupied
  <2>2. flash'[s][o] = flash[s][o]
    BY <1>1, <2>1
  <2> QED
    BY <2>2 DEF LenOf, NodeAt
<1>7. FewerNodes
  BY <1>5, <1>6 DEF FewerNodes
<1> QED
  BY <1>3, <1>4, <1>5, <1>7 DEF Erase, TypeOK

\* What an erase keeps.
LEMMA EraseKeeps ==
    ASSUME TypeOK, StatusOK, OneWritten, Spaced, SectorsOK, NEW e \in Sectors, Erase(e),
           ~Prepared, ~Prepared', ~Writing, ~Writing', Unwalked => Unwalked'
    PROVE  StatusOK' /\ OneWritten' /\ Spaced' /\ SectorsOK'
<1>1. /\ NodeAddrs' \subseteq NodeAddrs
      /\ \A a \in NodeAddrs' : StatusOf(a)' = StatusOf(a) /\ KeyOf(a)' = KeyOf(a)
  BY EraseNodes DEF StatusOf, KeyOf
<1>2. StatusOK'
  BY <1>1 DEF StatusOK, Writing, Left, Begun
<1>3. OneWritten'
  BY <1>1 DEF OneWritten
<1>4. Spaced'
  BY EraseNodes, SpacedKept
<1>5. \A s \in Sectors :
          /\ Occupied(s)' = IF s = e THEN {} ELSE Occupied(s)
          /\ store'[s] = IF s = e THEN "UNUSED" ELSE store[s]
          /\ dirty'[s] = IF s = e THEN "UNUSED" ELSE dirty[s]
  BY EraseNodes
<1>6. SectorsOK'
  BY <1>5 DEF SectorsOK
<1> QED
  BY <1>2, <1>3, <1>4, <1>6

LEMMA ResetErasePowered ==
    ASSUME IInv, Powered, ResetErase
    PROVE  Powered'
<1>1. /\ pc = "reset_erase" /\ Erase(scan.done) /\ pc' = "reset_format"
      /\ UNCHANGED <<gcRequest, lastDel, cache, call, ret, scan>>
  BY DEF ResetErase, dbVars
<1>2. scan.done \in Sectors
  BY <1>1 DEF IInv, RunningOK
<1>3. Resetting /\ Resetting' /\ (Loading' <=> Loading)
  BY <1>1 DEF Resetting, Loading
<1>4. ~Prepared /\ ~Prepared' /\ ~Writing /\ ~Writing' /\ (Unwalked => Unwalked')
  BY <1>1, <1>3, AwayPhase, AwayPhaseNext DEF Unwalked
<1>5. StatusOK' /\ OneWritten' /\ Spaced' /\ SectorsOK'
  BY <1>1, <1>2, <1>4, EraseKeeps DEF IInv, Powered, KeysOK, LayoutOK
<1>6. \A s \in Sectors :
          /\ Occupied(s)' = IF s = scan.done THEN {} ELSE Occupied(s)
          /\ store'[s] = IF s = scan.done THEN "UNUSED" ELSE store[s]
          /\ dirty'[s] = IF s = scan.done THEN "UNUSED" ELSE dirty[s]
  BY <1>1, <1>2, EraseNodes DEF IInv
<1>7. LoadingOK'
  <2>1. \A s \in Sectors : s < scan.done => s # scan.done
    BY <1>2 DEF Sectors
  <2>2. NodeAddrs' \subseteq NodeAddrs
    BY <1>1, <1>2, EraseNodes DEF IInv
  <2> QED
    BY <1>1, <1>3, <1>6, <2>1, <2>2 DEF Powered, LoadingOK
<1>8. CallOK' /\ CacheLeads'
  BY <1>1, <1>3, AwayFacts, AwayPhaseNext DEF Powered, CallOK, CacheLeads
<1> QED
  BY <1>1, <1>3, <1>5, <1>7, <1>8, AwayFacts, AwayPowered DEF Powered, ControlOK

LEMMA FormatKeeps ==
    ASSUME TypeOK, SectorsOK, NEW e \in Sectors, Format(e)
    PROVE  /\ SectorsOK'
           /\ \A s \in Sectors : /\ store'[s] = IF s = e THEN "EMPTY" ELSE store[s]
                                 /\ dirty'[s] = IF s = e THEN "FALSE" ELSE dirty[s]
<1>1. \A s \in Sectors : /\ store'[s] = IF s = e THEN "EMPTY" ELSE store[s]
                         /\ dirty'[s] = IF s = e THEN "FALSE" ELSE dirty[s]
  BY DEF Format, TypeOK
<1> QED
  BY <1>1 DEF SectorsOK

LEMMA ResetFormatPowered ==
    ASSUME IInv, Powered, ResetFormat
    PROVE  Powered'
<1>1. /\ pc = "reset_format" /\ Format(scan.done)
      /\ UNCHANGED <<flash, gcRequest, lastDel, cache, call, ret>>
  BY DEF ResetFormat
<1>2. scan.done \in Sectors
  BY <1>1 DEF IInv, RunningOK
<1>3. Resetting /\ ~Prepared /\ ~Writing
  BY <1>1, AwayPhase DEF Resetting
<1>4. SectorsOK' /\ \A s \in Sectors : /\ store'[s] = IF s = scan.done THEN "EMPTY" ELSE store[s]
                                       /\ dirty'[s] = IF s = scan.done THEN "FALSE" ELSE dirty[s]
  BY <1>1, <1>2, <1>3, FormatKeeps DEF IInv, Powered
<1>5. SameFlash /\ SameNodes /\ FewerNodes /\ \A s \in Sectors : Occupied(s)' = Occupied(s)
  BY <1>1, FlashKept, SameNodesFewer DEF SameFlash
<1>6. OneWritten' /\ Spaced'
  BY <1>5, OneWrittenKept, SpacedKept DEF Powered, KeysOK, LayoutOK, SameFlash
<1>7. ~gcRequest' /\ ~lastDel' /\ (\A k \in Keys : cache'[k] = None)
      /\ ret.reset \in {"end", "load_check"}
  BY <1>1, <1>3, AwayFacts DEF Powered, ControlOK
<1>8. CacheLeads' /\ (Loading => call = None)
  BY <1>7, AwayFacts DEF CacheLeads
<1>9. CASE /\ scan.done < NumSectors - 1
           /\ scan' = [scan EXCEPT !.done = scan.done + 1]
           /\ pc' = "reset_erase"
  <2>1. Resetting' /\ (Loading' <=> Loading) /\ (Unwalked => Unwalked')
    BY <1>1, <1>3, <1>9, AwayPhase DEF Resetting, Loading, Unwalked
  <2>2. StatusOK'
    BY <1>3, <1>5, <2>1, AwayPhaseNext, StatusKept DEF Powered
  <2>3. scan'.done = scan.done + 1
    BY <1>3, <1>9 DEF IInv, RunningOK, TypeOK, Scanning, Resetting, Walks
  <2>4. \A s \in Sectors : s < scan'.done => store'[s] = "EMPTY"
    <3>1. \A s \in Sectors : s < scan.done + 1 => s < scan.done \/ s = scan.done
      BY <1>2, FdbAssumption DEF Sectors
    <3> QED
      BY <1>3, <1>4, <2>3, <3>1 DEF Powered, LoadingOK
  <2>5. LoadingOK'
    BY <1>1, <1>3, <1>5, <1>9, <2>1, <2>4 DEF Powered, LoadingOK, SameNodes
  <2>6. CallOK'
    BY <1>1, <1>3, <1>8, <2>1, AwayPhaseNext DEF Powered, CallOK
  <2> QED
    BY <1>1, <1>4, <1>6, <1>7, <1>8, <1>9, <2>1, <2>2, <2>5, <2>6, AwayPowered
<1>10. CASE ~(scan.done < NumSectors - 1) /\ pc' = ret.reset
  <2>1. scan.done = NumSectors - 1
    BY <1>2, <1>10, FdbAssumption DEF Sectors
  <2>2. \A s \in Sectors : store'[s] = "EMPTY"
    <3>1. \A s \in Sectors : s # scan.done => s < scan.done
      BY <2>1, FdbAssumption DEF Sectors
    <3> QED
      BY <1>3, <1>4, <3>1 DEF Powered, LoadingOK
  <2>3. EmptySectors' # {}
    <3>1. 0 \in Sectors
      BY FdbAssumption DEF Sectors
    <3> QED
      BY <2>2, <3>1 DEF EmptySectors
  <2>4. CASE ret.reset = "end"
    <3>1. pc' = "end" /\ Plain'
      BY <1>10, <2>4 DEF Plain
    <3>2. ~Prepared' /\ ~Writing' /\ ~Unwalked
      BY <1>1, <2>4, <3>1, PlainPhaseNext, AwayPhase, <1>3 DEF Unwalked, Loading, Resetting
    <3>3. StatusOK'
      BY <1>3, <1>5, <3>2, StatusKept DEF Powered
    <3>4. ControlOK' /\ CallOK'
      BY <1>7, <3>1, PlainControlNext, PlainCallNext DEF GcLabels
    <3> QED
      BY <1>4, <1>6, <1>8, <2>3, <3>1, <3>3, <3>4, PlainPowered
  <2>5. CASE ret.reset = "load_check"
    <3>1. pc' = "load_check" /\ Loading /\ Loading' /\ ~Resetting' /\ Unwalked'
      BY <1>3, <1>10, <2>5 DEF Loading, Resetting, Unwalked
    <3>2. LoadingOK'
      BY <2>3, <3>1 DEF LoadingOK
    <3>3. CallOK'
      BY <1>1, <1>8, <3>1, AwayPhaseNext DEF CallOK
    <3>4. StatusOK'
      BY <1>3, <1>5, <3>1, AwayPhaseNext, StatusKept DEF Powered
    <3> QED
      BY <1>4, <1>6, <1>7, <1>8, <3>1, <3>2, <3>3, <3>4, AwayPowered
  <2> QED
    BY <1>7, <2>4, <2>5
<1> QED
  BY <1>9, <1>10 DEF ResetFormat

-----------------------------------------------------------------------------
(* Sets and deletions.                                                     *)

LEMMA HoldingPhaseNext ==
    Holding' => /\ ~Loading' /\ ~Resetting' /\ ~Emptying' /\ ~Copying' /\ ~Replaced' /\ ~Plain'
                /\ pc' \notin GcLabels /\ pc' \notin MoveLabels
                /\ pc' \notin {"idle", "del", "off", "load_new", "load_kv", "gc_format",
                               "move", "move_again"}
                /\ ~Rerun'
  BY DEF Loading, Resetting, Emptying, Holding, Copying, Replaced, Plain, Rerun,
         Creating, MoveLabels, GcLabels

LEMMA HoldingPhase ==
    Holding => /\ ~Loading /\ ~Resetting /\ ~Emptying /\ ~Copying /\ ~Replaced /\ Pursuing
               /\ pc \notin GcLabels /\ ~Unwalked
  BY DEF Loading, Resetting, Emptying, Holding, Copying, Replaced, Pursuing, Unwalked, Rerun,
         Creating, MoveLabels, GcLabels

\* What is left to show when a step ends while a set holds a place.
LEMMA HoldingPowered ==
    ASSUME Holding', ~gcRequest', lastDel' <=> Prepared',
           pc' = "dirty" => ret'.del = "sector",
           call' # None, call'.key \in Keys, call'.val \in Vals, ~call'.done,
           LinkOK', StatusOK', KeysOK', CacheLeads', LayoutOK', SectorsOK',
           EmptySectors' \ {new'.sec} # {}
    PROVE  Powered'
<1>1. /\ ~Loading' /\ ~Resetting' /\ ~Emptying' /\ ~Copying'
      /\ pc' \notin GcLabels /\ pc' \notin MoveLabels /\ ~Rerun'
      /\ pc' \notin {"idle", "del", "off", "load_new", "load_kv", "move_again"}
  BY HoldingPhaseNext
<1>2. ControlOK'
  BY <1>1 DEF ControlOK
<1>3. CallOK'
  BY <1>1 DEF CallOK
<1>4. LeadsOK' /\ LoadingOK' /\ EmptyingOK' /\ RoomOK'
  BY <1>1 DEF LeadsOK, LoadingOK, EmptyingOK, RoomOK
<1>5. ReserveOK'
  BY <1>1 DEF ReserveOK
<1> QED
  BY <1>2, <1>3, <1>4, <1>5 DEF Powered

\* What a running set knows.
LEMMA HoldingFacts ==
    ASSUME Powered, Holding
    PROVE  /\ ~gcRequest /\ (lastDel <=> Prepared)
           /\ call # None /\ call.key \in Keys /\ call.val \in Vals /\ ~call.done
           /\ new.key = call.key /\ new.val = call.val
           /\ Prepared => KeyOf(old) = call.key
           /\ EmptySectors \ {new.sec} # {}
<1>1. ~Loading /\ ~Resetting /\ ~Emptying /\ Pursuing /\ pc \notin GcLabels
  BY HoldingPhase
<1> QED
  BY <1>1 DEF Powered, ControlOK, CallOK, LinkOK, ReserveOK

\* While nothing is prepared for deletion, find_kv finds the written node.
LEMMA FindWritten ==
    ASSUME IInv, Powered, ~Prepared, NEW k \in Keys, Find(k) # None
    PROVE  Find(k) \in NodeAddrs /\ KeyOf(Find(k)) = k /\ StatusOf(Find(k)) = "WRITE"
<1>1. CASE CacheHit(k)
  <2>1. Find(k) = cache[k] /\ cache[k] # None
    BY <1>1 DEF Find, CacheHit
  <2>2. cache[k] \in NodeAddrs /\ KeyOf(cache[k]) = k /\ StatusOf(cache[k]) \in {"WRITE", "PRE_DELETE"}
    BY <2>1 DEF Powered, LeadsOK, CacheLeads
  <2> QED
    BY <2>1, <2>2 DEF Powered, StatusOK
<1>2. CASE ~CacheHit(k)
  <2>1. Written(k) # {} /\ Find(k) = FirstAddr(Written(k))
    BY <1>2 DEF Find
  <2>2. Written(k) \subseteq Addrs
    BY DEF Written, NodeAddrs
  <2>3. Find(k) \in Written(k)
    BY <2>1, <2>2, FirstAddrType DEF IInv, TypeOK
  <2> QED
    BY <2>3 DEF Written, KeyOf, StatusOf
<1> QED
  BY <1>1, <1>2

\* A key that find_kv does not find has no written node.
LEMMA FindNone ==
    ASSUME IInv, Powered, NEW k \in Keys, Find(k) = None, NEW a \in NodeAddrs,
           StatusOf(a) = "WRITE"
    PROVE  KeyOf(a) # k
<1> SUFFICES ASSUME KeyOf(a) = k
             PROVE  FALSE
  OBVIOUS
<1>1. a \in Written(k)
  BY DEF Written, IInv, CommittedIsComplete, KeyOf, StatusOf
<1>2. ~CacheHit(k)
  BY DEF Find, CacheHit
<1>3. Find(k) = FirstAddr(Written(k))
  BY <1>1, <1>2 DEF Find
<1>4. Written(k) \subseteq Addrs
  BY DEF Written, NodeAddrs
<1>5. Find(k) \in Addrs
  BY <1>1, <1>3, <1>4, FirstAddrType DEF IInv, TypeOK
<1> QED
  BY <1>5, NoneAssumption

\* A sector with a node is in use.
LEMMA UsedSector ==
    ASSUME TypeOK, BlankOK, NEW a \in NodeAddrs
    PROVE  a[1] \in Sectors /\ store[a[1]] \notin {"EMPTY", "UNUSED"}
<1>1. a[1] \in Sectors /\ a[2] \in Offsets /\ flash[a[1]][a[2]] # None
  BY DEF NodeAddrs, Addrs, NodeAt
<1> QED
  BY <1>1 DEF BlankOK

\* The deletion of a node leaves one node for every other key.
LEMMA DeleteMarks ==
    ASSUME StatusOK, OneWritten, NEW a \in NodeAddrs, Marks(a, "DELETED"),
           Prepared => a = old, ~Prepared', ~Writing, ~Writing', Unwalked => Unwalked'
    PROVE  StatusOK' /\ OneWritten'
<1>1. NodeAddrs' = NodeAddrs /\ \A b \in NodeAddrs : StatusOf(b)' = IF b = a THEN "DELETED" ELSE StatusOf(b)
  BY DEF Marks, SameNodes
<1>2. StatusOK'
  BY <1>1 DEF StatusOK, Writing, Left, Begun
<1>3. OneWritten'
  BY <1>1, OneWrittenKept DEF Marks
<1> QED
  BY <1>2, <1>3

LEMMA DeleteLeads ==
    ASSUME CacheLeads, NEW a \in NodeAddrs, Marks(a, "DELETED"), ~Replaced',
           \A k \in Keys : cache'[k] = None \/ (cache'[k] = cache[k] /\ cache[k] # a)
    PROVE  CacheLeads'
<1> SUFFICES ASSUME NEW k \in Keys, NEW b, b = cache'[k], b # None
             PROVE  /\ b \in NodeAddrs' /\ KeyOf(b)' = k
                    /\ StatusOf(b)' = "WRITE" \/ StatusOf(b)' = "PRE_DELETE"
  BY DEF CacheLeads
<1>1. b = cache[k] /\ b # a
  OBVIOUS
<1>2. /\ b \in NodeAddrs /\ KeyOf(b) = k
      /\ StatusOf(b) = "WRITE" \/ StatusOf(b) = "PRE_DELETE"
  BY <1>1 DEF CacheLeads
<1> QED
  BY <1>1, <1>2 DEF Marks, SameNodes

LEMMA DelFoundPowered ==
    ASSUME IInv, IInv', Powered, DelFound
    PROVE  Powered'
<1>1. /\ pc = "del" /\ Find(call.key) # None /\ old' = Find(call.key)
      /\ flash' = [flash EXCEPT ![old'[1]][old'[2]].status = "DELETED"]
      /\ lastDel' = FALSE
      /\ cache' = Cached(call.key, IF lastDel THEN old' ELSE None)
      /\ ThenDirty(old', "end")
      /\ UNCHANGED <<store, dirty, gcRequest>>
  BY DEF DelFound
<1>2. Plain /\ call.key \in Keys
  BY <1>1 DEF Plain, IInv, RunningOK
<1>3. ~gcRequest /\ ~lastDel /\ ~Prepared /\ ~Writing /\ ~Unwalked /\ EmptySectors # {}
  BY <1>1, <1>2, PlainControl, PlainPhase DEF Powered, GcLabels, ReserveOK
<1>4. PICK a \in NodeAddrs : a = old' /\ KeyOf(a) = call.key /\ StatusOf(a) = "WRITE"
  BY <1>1, <1>2, <1>3, FindWritten
<1>5. Marks(a, "DELETED")
  <2>1. flash' = [flash EXCEPT ![a[1]][a[2]].status = "DELETED"]
    BY <1>1, <1>4
  <2> QED
    BY <2>1, StatusMarks DEF IInv, KvStatus
<1>6. pc' = "end" \/ (pc' = "dirty" /\ ret'.del = "end")
  <2>1. ret' = [ret EXCEPT !.del = "end"] => ret'.del = "end"
    BY DEF IInv, TypeOK
  <2> QED
    BY <1>1, <2>1 DEF ThenDirty
<1>7. Plain' /\ ~Prepared' /\ ~Writing' /\ ~Replaced'
  BY <1>6, PlainPhaseNext DEF Plain
<1>8. ControlOK' /\ CallOK'
  BY <1>1, <1>3, <1>6, <1>7, PlainControlNext, PlainCallNext DEF GcLabels
<1>9. StatusOK' /\ OneWritten'
  BY <1>3, <1>5, <1>7, DeleteMarks DEF Powered, KeysOK
<1>10. CacheLeads'
  <2>1. cache' = [cache EXCEPT ![call.key] = None]
    BY <1>1, <1>3 DEF Cached
  <2>2. ASSUME NEW k \in Keys
        PROVE  cache'[k] = None \/ (cache'[k] = cache[k] /\ cache[k] # a)
    <3>1. k = call.key => cache'[k] = None
      BY <2>1 DEF IInv, TypeOK
    <3>2. k # call.key => cache'[k] = cache[k]
      BY <2>1 DEF IInv, TypeOK
    <3>3. cache[k] = a /\ a # None => k = call.key
      BY <1>4 DEF Powered, LeadsOK, CacheLeads
    <3> QED
      BY <3>1, <3>2, <3>3
  <2> QED
    BY <1>5, <1>7, <2>2, DeleteLeads DEF Powered, LeadsOK
<1>11. Spaced' /\ SectorsOK' /\ EmptySectors' # {}
  BY <1>1, <1>3, <1>5, SameNodesFewer, SpacedKept, SectorsKept
     DEF Marks, Powered, LayoutOK, EmptySectors
<1>12. old' \in NodeAddrs'
  BY <1>4, <1>5 DEF Marks, SameNodes
<1> QED
  BY <1>7, <1>8, <1>9, <1>10, <1>11, <1>12, PlainPowered

LEMMA SetDeletePowered ==
    ASSUME IInv, Powered, SetDelete
    PROVE  Powered'
<1>1. /\ pc = "set_delete" /\ DelStatus(old, TRUE) /\ ThenDirty(old, "set_end")
      /\ UNCHANGED <<store, dirty, gcRequest, old>>
  BY DEF SetDelete
<1>2. /\ Prepared /\ Replaced /\ Replacing /\ ~Writing /\ ~Unwalked
      /\ ~Loading /\ ~Resetting /\ ~Emptying /\ pc \notin GcLabels /\ pc # "gc_format"
  BY <1>1 DEF Prepared, Replaced, Replacing, Writing, Loading, Resetting, Emptying, Copying,
              Unwalked, Rerun, Creating, MoveLabels, GcLabels
<1>3. ~gcRequest /\ lastDel /\ EmptySectors # {}
  BY <1>2 DEF Powered, ControlOK, ReserveOK
<1>4. old \in NodeAddrs /\ NodeAt(old) # None
  BY <1>2 DEF IInv, OldOK, RunningOK, TypeOK, NodeAddrs
<1>5. StatusOf(old) = "PRE_DELETE"
  BY <1>2, <1>4 DEF Powered, StatusOK
<1>6. flash' = [flash EXCEPT ![old[1]][old[2]].status = "DELETED"] /\ lastDel' = FALSE
      /\ cache' = cache
  BY <1>1, <1>3 DEF DelStatus
<1>7. Marks(old, "DELETED")
  BY <1>4, <1>6, StatusMarks DEF IInv, KvStatus
<1>8. pc' = "set_end" \/ (pc' = "dirty" /\ ret'.del = "set_end")
  BY <1>1 DEF ThenDirty, IInv, TypeOK
<1>9. Plain' /\ ~Prepared' /\ ~Writing' /\ ~Replaced'
  BY <1>8, PlainPhaseNext DEF Plain
<1>10. ControlOK' /\ CallOK'
  BY <1>1, <1>3, <1>6, <1>8, <1>9, PlainControlNext, PlainCallNext DEF GcLabels
<1>11. StatusOK' /\ OneWritten'
  BY <1>2, <1>4, <1>7, <1>9, DeleteMarks DEF Powered, KeysOK
<1>12. CacheLeads'
  <2>1. \A k \in Keys : cache[k] # None => cache[k] # old
    BY <1>2, <1>5 DEF Powered, LeadsOK, CacheLeads
  <2> QED
    BY <1>4, <1>6, <1>7, <1>9, <2>1, DeleteLeads DEF Powered, LeadsOK
<1>13. Spaced' /\ SectorsOK' /\ EmptySectors' # {}
  BY <1>1, <1>2, <1>3, <1>7, SameNodesFewer, SpacedKept, SectorsKept
     DEF Marks, Powered, LayoutOK, EmptySectors
<1>14. old' \in NodeAddrs'
  BY <1>1, <1>4, <1>7 DEF Marks, SameNodes
<1> QED
  BY <1>9, <1>10, <1>11, <1>12, <1>13, <1>14, PlainPowered

LEMMA MarkDirtyPowered ==
    ASSUME IInv, Powered, MarkDirty
    PROVE  Powered'
<1>1. /\ pc = "dirty" /\ pc' = ret.del /\ dirty' = [dirty EXCEPT ![old[1]] = "TRUE"]
      /\ UNCHANGED <<store, flash, gcRequest, lastDel, cache, call, ret, new, old>>
  BY DEF MarkDirty, dbVars
<1>2. old \in NodeAddrs
  BY <1>1 DEF Powered, LinkOK
<1>3. \A s \in Sectors : store[s] = "EMPTY" => dirty'[s] = dirty[s]
  <2>1. store[old[1]] # "EMPTY"
    BY <1>2, UsedSector DEF IInv
  <2> QED
    BY <1>1, <2>1 DEF IInv, TypeOK
<1>4. SameFlash /\ SameNodes /\ FewerNodes
  BY <1>1, FlashKept, SameNodesFewer DEF SameFlash
<1>5. OneWritten' /\ Spaced' /\ SectorsOK' /\ EmptySectors' = EmptySectors
  BY <1>1, <1>3, <1>4, OneWrittenKept, SpacedKept, SectorsKept
     DEF Powered, KeysOK, LayoutOK, SameFlash, EmptySectors
<1>6. ret.del \in {"sector", "set_end", "end"}
  BY <1>1 DEF Powered, ControlOK
<1>7. ~Unwalked
  BY <1>1 DEF Unwalked, Rerun, Loading, Resetting, Emptying, Copying, Creating, MoveLabels, GcLabels
<1>8. CASE ret.del \in {"set_end", "end"}
  <2>1. Plain /\ Plain'
    BY <1>1, <1>8 DEF Plain
  <2>2. /\ ~Prepared /\ ~Writing /\ ~Prepared' /\ ~Writing' /\ ~Replaced'
        /\ EmptySectors # {} /\ ~gcRequest /\ ~lastDel
    BY <1>1, <2>1, PlainPhase, PlainPhaseNext, PlainControl DEF Powered, GcLabels, ReserveOK
  <2>3. StatusOK' /\ CacheLeads'
    BY <1>1, <1>4, <1>7, <2>2, StatusKept, CacheLeadsKept DEF Powered, LeadsOK, CacheStep
  <2>4. ControlOK' /\ CallOK'
    BY <1>1, <1>8, <2>1, <2>2, PlainControlNext, PlainCallNext DEF GcLabels
  <2> QED
    BY <1>1, <1>5, <1>8, <2>1, <2>2, <2>3, <2>4, PlainPowered
<1>9. CASE ret.del = "sector"
  <2>1. /\ Holding /\ Holding' /\ Prepared /\ Prepared' /\ ~Writing /\ ~Writing' /\ ~Replaced'
        /\ Reserved /\ pc' = "sector" /\ ret.create = "set_delete"
    BY <1>1, <1>9 DEF Holding, Prepared, Writing, Replaced, Reserved, Creating,
                      IInv, ReturnsOK
  <2>2. /\ ~gcRequest /\ (lastDel <=> Prepared)
        /\ call # None /\ call.key \in Keys /\ call.val \in Vals /\ ~call.done
        /\ new.key = call.key /\ new.val = call.val
        /\ KeyOf(old) = call.key
        /\ EmptySectors \ {new.sec} # {}
    BY <2>1, HoldingFacts
  <2>3. ~Copying'
    BY <2>1, HoldingPhaseNext
  <2>4. KeyOf(old)' = KeyOf(old)
    BY <1>1 DEF KeyOf, NodeAt
  <2>5. LinkOK'
    BY <1>1, <2>1, <2>2, <2>3, <2>4 DEF LinkOK
  <2>6. StatusOK' /\ CacheLeads'
    BY <1>1, <1>4, <1>7, <2>1, StatusKept, CacheLeadsKept DEF Powered, LeadsOK, CacheStep
  <2>7. KeysOK'
    <3>1. \A a \in NodeAddrs : StatusOf(a) = "WRITE" => KeyOf(a) # KeyOf(old)
      BY <1>1, <2>1 DEF Powered, KeysOK, Replaced
    <3>2. \A a \in NodeAddrs' : StatusOf(a)' = "WRITE" => KeyOf(a)' # KeyOf(old)
      BY <1>4, <3>1 DEF SameFlash, SameNodes
    <3> QED
      BY <1>1, <1>5, <2>1, <2>2, <2>4, <3>2 DEF KeysOK
  <2>8. LayoutOK'
    <3>1. Occupied(new.sec)' = Occupied(new.sec) /\ \A o : LenOf(<<new.sec, o>>)' = LenOf(<<new.sec, o>>)
      BY <1>1 DEF Occupied, LenOf, NodeAt
    <3>2. Fits
      BY <2>1 DEF Powered, LayoutOK
    <3> QED
      BY <1>1, <1>5, <3>1, <3>2 DEF LayoutOK, Fits
  <2> QED
    BY <1>1, <1>5, <2>1, <2>2, <2>5, <2>6, <2>7, <2>8, HoldingPowered
<1> QED
  BY <1>6, <1>8, <1>9

\* The place found for the new node is kept by a step that writes no node.
LEMMA FitsKept ==
    ASSUME Fits, FewerNodes, new.sec \in Sectors, UNCHANGED <<store, new>>
    PROVE  Fits'
<1>1. \A o \in Occupied(new.sec)' : o \in Occupied(new.sec)
          /\ LenOf(<<new.sec, o>>)' = LenOf(<<new.sec, o>>)
  <2>1. new'.sec = new.sec
    OBVIOUS
  <2>2. \A s \in Sectors : s = new.sec => 
            \A o \in Occupied(s)' : o \in Occupied(s) /\ LenOf(<<s, o>>)' = LenOf(<<s, o>>)
    BY DEF FewerNodes
  <2>3. PICK s \in Sectors : s = new.sec
    OBVIOUS
  <2>4. Occupied(new.sec)' = Occupied(s)' /\ \A o : LenOf(<<new.sec, o>>)' = LenOf(<<s, o>>)'
    BY <2>3 DEF Occupied, LenOf, NodeAt
  <2> QED
    BY <2>2, <2>3, <2>4
<1> QED
  BY <1>1 DEF Fits

LEMMA SetFreshPowered ==
    ASSUME IInv, Powered, SetFresh
    PROVE  Powered'
<1>1. /\ pc = "set_find" /\ Find(call.key) = None /\ pc' = "sector"
      /\ UNCHANGED <<store, dirty, flash, gcRequest, lastDel, cache, call, new, old>>
  BY DEF SetFresh, flashVars, dbVars
<1>2. ret'.create = "set_end"
  BY DEF SetFresh, IInv, TypeOK
<1>3. /\ Holding /\ Holding' /\ ~Prepared /\ ~Prepared' /\ ~Writing /\ ~Writing' /\ ~Replaced'
      /\ Reserved /\ ~Unwalked
  BY <1>1, <1>2, HoldingPhase DEF Holding, Prepared, Writing, Replaced, Reserved, Creating
<1>4. /\ ~gcRequest /\ (lastDel <=> Prepared)
      /\ call # None /\ call.key \in Keys /\ call.val \in Vals /\ ~call.done
      /\ new.key = call.key /\ new.val = call.val
      /\ EmptySectors \ {new.sec} # {}
  BY <1>3, HoldingFacts
<1>5. SameFlash /\ SameNodes /\ FewerNodes
  BY <1>1, FlashKept, SameNodesFewer DEF SameFlash
<1>6. OneWritten' /\ Spaced' /\ SectorsOK' /\ EmptySectors' = EmptySectors
  BY <1>1, <1>3, <1>5, OneWrittenKept, SpacedKept, SectorsKept
     DEF Powered, KeysOK, LayoutOK, SameFlash, EmptySectors
<1>7. StatusOK' /\ CacheLeads'
  BY <1>1, <1>3, <1>5, StatusKept, CacheLeadsKept DEF Powered, LeadsOK, CacheStep
<1>8. LinkOK'
  BY <1>1, <1>3, <1>4, HoldingPhaseNext DEF LinkOK
<1>9. KeysOK'
  <2>1. \A a \in NodeAddrs : StatusOf(a) = "WRITE" => KeyOf(a) # new.key
    BY <1>1, <1>4, FindNone
  <2>2. \A a \in NodeAddrs' : StatusOf(a)' = "WRITE" => KeyOf(a)' # new'.key
    BY <1>1, <1>5, <2>1 DEF SameFlash, SameNodes
  <2> QED
    BY <1>3, <1>6, <2>2 DEF KeysOK
<1>10. LayoutOK'
  <2>1. new.sec \in Sectors /\ Fits
    BY <1>3 DEF IInv, RunningOK, TypeOK, NewNodes, Powered, LayoutOK
  <2> QED
    BY <1>1, <1>5, <1>6, <2>1, FitsKept DEF LayoutOK
<1> QED
  BY <1>1, <1>3, <1>4, <1>6, <1>7, <1>8, <1>9, <1>10, HoldingPowered

LEMMA SetPreparePowered ==
    ASSUME IInv, IInv', Powered, SetPrepare
    PROVE  Powered'
<1>1. /\ pc = "set_find" /\ Find(call.key) # None /\ old' = Find(call.key)
      /\ flash' = [flash EXCEPT ![old'[1]][old'[2]].status = "PRE_DELETE"]
      /\ lastDel' = TRUE
      /\ cache' = [cache EXCEPT ![call.key] = old']
      /\ ret' = [ret EXCEPT !.create = "set_delete", !.del = "sector"]
      /\ pc' = "dirty" \/ pc' = "sector"
      /\ UNCHANGED <<store, dirty, gcRequest, call, new>>
  BY DEF SetPrepare, Cached
<1>2. ret'.create = "set_delete" /\ ret'.del = "sector"
  BY <1>1 DEF IInv, TypeOK
<1>3. /\ Holding /\ Holding' /\ ~Prepared /\ Prepared' /\ ~Writing /\ ~Writing' /\ ~Replaced'
      /\ Reserved /\ ~Unwalked /\ pc' \notin {"header", "data", "commit"}
  BY <1>1, <1>2, HoldingPhase DEF Holding, Prepared, Writing, Replaced, Reserved, Creating
<1>4. /\ ~gcRequest
      /\ call # None /\ call.key \in Keys /\ call.val \in Vals /\ ~call.done
      /\ new.key = call.key /\ new.val = call.val
      /\ EmptySectors \ {new.sec} # {}
  BY <1>3, HoldingFacts
<1>5. PICK a \in NodeAddrs : a = old' /\ KeyOf(a) = call.key /\ StatusOf(a) = "WRITE"
  BY <1>1, <1>3, <1>4, FindWritten
<1>6. Marks(a, "PRE_DELETE")
  <2>1. flash' = [flash EXCEPT ![a[1]][a[2]].status = "PRE_DELETE"]
    BY <1>1, <1>5
  <2> QED
    BY <2>1, StatusMarks DEF IInv, KvStatus
<1>7. /\ NodeAddrs' = NodeAddrs /\ SameNodes /\ FewerNodes
      /\ \A b \in NodeAddrs : KeyOf(b)' = KeyOf(b)
      /\ \A b \in NodeAddrs : StatusOf(b)' = IF b = a THEN "PRE_DELETE" ELSE StatusOf(b)
  BY <1>6, SameNodesFewer DEF Marks, SameNodes
<1>8. OneWritten' /\ Spaced' /\ SectorsOK' /\ EmptySectors' = EmptySectors
  BY <1>1, <1>3, <1>7, OneWrittenKept, SpacedKept, SectorsKept
     DEF Powered, KeysOK, LayoutOK, EmptySectors
<1>9. StatusOK'
  BY <1>3, <1>5, <1>7 DEF Powered, StatusOK, Left, Begun, Writing
<1>10. KeyOf(old)' = call.key
  <2>1. KeyOf(old)' = KeyOf(a)'
    BY <1>5 DEF KeyOf, NodeAt
  <2> QED
    BY <1>5, <1>7, <2>1
<1>11. LinkOK'
  BY <1>1, <1>3, <1>4, <1>5, <1>7, <1>10, HoldingPhaseNext DEF LinkOK
<1>12. KeysOK'
  <2>1. \A b \in NodeAddrs : b # a /\ StatusOf(b) = "WRITE" => KeyOf(b) # call.key
    BY <1>5 DEF Powered, KeysOK, OneWritten
  <2>2. \A b \in NodeAddrs' : StatusOf(b)' = "WRITE" => KeyOf(b)' # call.key
    BY <1>7, <2>1
  <2> QED
    BY <1>1, <1>3, <1>4, <1>8, <1>10, <2>2 DEF KeysOK
<1>13. CacheLeads'
  <2> SUFFICES ASSUME NEW k \in Keys, NEW b, b = cache'[k], b # None
               PROVE  /\ b \in NodeAddrs' /\ KeyOf(b)' = k
                      /\ StatusOf(b)' = "WRITE" \/ StatusOf(b)' = "PRE_DELETE"
    BY <1>3 DEF CacheLeads
  <2>1. cache \in [Keys -> Addrs \cup {None}]
    BY DEF IInv, TypeOK
  <2>2. CASE k = call.key
    <3>1. b = a
      BY <1>1, <1>5, <2>1, <2>2
    <3> QED
      BY <1>5, <1>7, <2>2, <3>1
  <2>3. CASE k # call.key
    <3>1. b = cache[k]
      BY <1>1, <2>1, <2>3
    <3>2. b \in NodeAddrs /\ KeyOf(b) = k /\ StatusOf(b) \in {"WRITE", "PRE_DELETE"}
      BY <3>1 DEF Powered, LeadsOK, CacheLeads
    <3> QED
      BY <1>7, <3>2
  <2> QED
    BY <2>2, <2>3
<1>14. LayoutOK'
  <2>1. new.sec \in Sectors /\ Fits
    BY <1>3 DEF IInv, RunningOK, TypeOK, NewNodes, Powered, LayoutOK
  <2> QED
    BY <1>1, <1>7, <1>8, <2>1, FitsKept DEF LayoutOK
<1> QED
  BY <1>1, <1>2, <1>3, <1>4, <1>8, <1>9, <1>11, <1>12, <1>13, <1>14, HoldingPowered

-----------------------------------------------------------------------------
(* The four writes of a node.                                              *)

LEMMA EmptyingPhaseNext ==
    Emptying' => /\ ~Loading' /\ ~Resetting' /\ ~Holding' /\ ~Plain'
                 /\ pc' \notin {"idle", "del", "off", "load_new", "load_kv", "gc_format",
                                "dirty", "set_alloc", "set_retry"}
                 /\ (Unwalked' <=> ret'.gc = "load_gc")
  BY DEF Loading, Resetting, Emptying, Holding, Copying, Plain, Unwalked, Rerun, Creating,
         MoveLabels

LEMMA EmptyingPhase ==
    Emptying => /\ ~Loading /\ ~Resetting /\ ~Holding
                /\ (Unwalked <=> ret.gc = "load_gc")
  BY DEF Loading, Resetting, Emptying, Holding, Copying, Unwalked, Rerun, Creating, MoveLabels

\* What is left to show when a step ends while a sector is being emptied.
LEMMA EmptyingPowered ==
    ASSUME Emptying', gcRequest', lastDel' <=> Prepared', ret'.gc \in {"set_retry", "load_gc"},
           pc' \in MoveLabels \/ Copying' => ret'.move = "gc_kv", pc' # "move_again",
           Served', LinkOK', StatusOK', KeysOK', CacheLeads', LayoutOK', SectorsOK', EmptyingOK', RoomOK'
    PROVE  Powered'
<1>1. /\ ~Loading' /\ ~Resetting' /\ ~Holding'
      /\ pc' \notin {"idle", "del", "off", "load_new", "load_kv", "dirty", "set_alloc",
                     "set_retry"}
  BY EmptyingPhaseNext
<1>2. ControlOK'
  BY <1>1 DEF ControlOK
<1>3. CallOK' /\ LeadsOK' /\ LoadingOK' /\ ReserveOK'
  BY <1>1 DEF CallOK, Served, Pursuing, Rerun, LeadsOK, LoadingOK, ReserveOK
<1> QED
  BY <1>2, <1>3 DEF Powered

LEMMA EmptyingFacts ==
    ASSUME IInv, Powered, Emptying
    PROVE  /\ gcRequest /\ (lastDel <=> Prepared) /\ ret.gc \in {"set_retry", "load_gc"}
           /\ pc \in MoveLabels \/ Copying => ret.move = "gc_kv"
           /\ pc # "move_again" /\ Served
           /\ gc \in Collections /\ gc.sec \in Sectors /\ gc.pos \in Offsets \cup {-1}
<1>2. /\ gcRequest /\ (lastDel <=> Prepared) /\ ret.gc \in {"set_retry", "load_gc"}
      /\ pc \in MoveLabels \/ Copying => ret.move = "gc_kv"
      /\ pc # "move_again" /\ Served
  BY DEF Powered, ControlOK, CallOK, Served, Pursuing, Rerun
<1>3. Collecting
  BY <1>2 DEF Collecting, Moving, Emptying, Copying, GcLabels
<1>4. gc \in Collections
  BY <1>3 DEF IInv, RunningOK, TypeOK
<1> QED
  BY <1>2, <1>4 DEF Collections

\* A step from one write of a node to the next.
LEMMA CreatingPowered ==
    ASSUME IInv, Powered, pc \in Creating, pc' \in Creating,
           UNCHANGED <<ret, gcRequest, lastDel, call>>,
           LinkOK', StatusOK', KeysOK', CacheLeads', LayoutOK', SectorsOK',
           Holding => EmptySectors' \ {new'.sec} # {},
           Copying => EmptyingOK' /\ RoomOK'
    PROVE  Powered'
<1>1. (Prepared' <=> Prepared) /\ pc' \notin {"dirty", "move_again"} /\ pc' \notin MoveLabels
  BY DEF Prepared, Creating, MoveLabels
<1>2. CASE ret.create = "move_delete"
  <2>1. Emptying /\ Emptying' /\ Copying
    BY <1>2 DEF Emptying, Copying
  <2> QED
    BY <1>1, <2>1, EmptyingFacts, EmptyingPowered DEF Served
<1>3. CASE ret.create # "move_delete"
  <2>1. Holding /\ Holding'
    BY <1>3 DEF Holding
  <2> QED
    BY <1>1, <2>1, HoldingFacts, HoldingPowered
<1> QED
  BY <1>2, <1>3

\* The place of the node being created.
LEMMA NewPlace ==
    ASSUME IInv, pc \in Creating
    PROVE  /\ new \in NewNodes /\ new.sec \in Sectors /\ new.off \in Offsets
           /\ new.key \in Keys /\ new.val \in Vals /\ new.remain \in Nat
           /\ <<new.sec, new.off>> \in Addrs
           /\ KvLen[new.val] \in Nat
<1>1. new \in NewNodes
  BY DEF IInv, RunningOK, TypeOK
<1>2. /\ new.sec \in Sectors /\ new.off \in Offsets
      /\ new.key \in Keys /\ new.val \in Vals /\ new.remain \in Nat
  BY <1>1, FdbAssumption DEF NewNodes
<1> QED
  BY <1>1, <1>2, FdbAssumption DEF Addrs

\* What the collection has to look at is the same while the node is created.
LEMMA AheadKept ==
    ASSUME gc' = gc, Occupied(gc.sec)' = Occupied(gc.sec),
           pc \notin {"move", "move_alloc"}, pc' \notin {"move", "move_alloc"}
    PROVE  Ahead' = Ahead
  BY DEF Ahead

\* The writes of a node are all in one phase.
LEMMA CreatingPhase ==
    ASSUME pc \in Creating, pc' \in Creating, ret' = ret
    PROVE  Unwalked' <=> Unwalked
  BY DEF Unwalked, Rerun, Loading, Resetting, Emptying, Copying, Creating, MoveLabels, GcLabels

LEMMA WriteSectorPowered ==
    ASSUME IInv, Powered, WriteSector
    PROVE  Powered'
<1>1. pc = "sector" /\ pc' = "header"
      /\ UNCHANGED <<dirty, flash, gcRequest, lastDel, cache, call, ret, old, gc>>
  BY DEF WriteSector, dbVars
<1>2. pc \in Creating /\ pc' \in Creating /\ Reserved
      /\ ~Writing /\ ~Writing' /\ ~Replaced'
  BY <1>1 DEF Creating, Reserved, Writing, Replaced
<1>3. /\ new \in NewNodes /\ new.sec \in Sectors /\ new.val \in Vals /\ new.remain \in Nat
      /\ KvLen[new.val] \in Nat
  BY <1>2, NewPlace
<1>4. Fits /\ Spaced
  BY <1>2 DEF Powered, LayoutOK
<1>5. /\ ~(new.remain < Threshold) /\ ~(new.remain - KvLen[new.val] < Threshold)
  BY <1>3, <1>4, FdbAssumption DEF Fits
<1>6. store' = [store EXCEPT ![new.sec] = "USING"] /\ new' = [new EXCEPT !.full = FALSE]
  BY <1>5 DEF WriteSector
<1>7. /\ new'.sec = new.sec /\ new'.off = new.off /\ new'.remain = new.remain
      /\ new'.key = new.key /\ new'.val = new.val /\ ~new'.full
  BY <1>3, <1>6 DEF NewNodes
<1>8. \A s \in Sectors : store'[s] = IF s = new.sec THEN "USING" ELSE store[s]
  BY <1>6 DEF IInv, TypeOK
<1>9. SameFlash /\ SameNodes /\ FewerNodes /\ \A s \in Sectors : Occupied(s)' = Occupied(s)
  BY <1>1, FlashKept, SameNodesFewer DEF SameFlash
<1>10. (Prepared' <=> Prepared) /\ (Holding' <=> Holding) /\ (Copying' <=> Copying)
       /\ (Unwalked' <=> Unwalked)
  BY <1>1, <1>2, CreatingPhase DEF Prepared, Holding, Copying
<1>11. StatusOK' /\ CacheLeads'
  BY <1>1, <1>2, <1>9, <1>10, StatusKept, CacheLeadsKept DEF Powered, LeadsOK, CacheStep
<1>12. KeyOf(old)' = KeyOf(old) /\ NodeAt(old)'.val = NodeAt(old).val
  BY <1>1 DEF KeyOf, NodeAt
<1>13. LinkOK'
  BY <1>1, <1>7, <1>10, <1>12 DEF Powered, LinkOK
<1>14. KeysOK'
  <2>1. OneWritten'
    BY <1>9, OneWrittenKept DEF Powered, KeysOK, SameFlash
  <2>2. Prepared => \A a \in NodeAddrs : StatusOf(a) = "WRITE" => KeyOf(a) # KeyOf(old)
    BY <1>1 DEF Powered, KeysOK, Replaced
  <2>3. \A a \in NodeAddrs : StatusOf(a) = "WRITE" => KeyOf(a) # new.key
    BY <1>2 DEF Powered, KeysOK
  <2> QED
    BY <1>2, <1>7, <1>9, <1>10, <1>12, <2>1, <2>2, <2>3 DEF KeysOK, SameFlash, SameNodes
<1>15. LayoutOK'
  <2>1. Spaced'
    BY <1>4, <1>9, SpacedKept
  <2>2. Occupied(new.sec)' = Occupied(new.sec) /\ \A o : LenOf(<<new.sec, o>>)' = LenOf(<<new.sec, o>>)
    BY <1>1, <1>7 DEF Occupied, LenOf, NodeAt
  <2>3. Fits'
    BY <1>3, <1>4, <1>7, <1>8, <2>2 DEF Fits
  <2> QED
    BY <2>1, <2>3 DEF LayoutOK
<1>16. SectorsOK'
  BY <1>1, <1>8 DEF Powered, SectorsOK
<1>17. Holding => EmptySectors' \ {new'.sec} # {}
  <2>1. Holding => EmptySectors \ {new.sec} # {}
    BY HoldingFacts
  <2> QED
    BY <1>7, <1>8, <2>1 DEF EmptySectors
<1>18. ASSUME Copying
       PROVE  EmptyingOK' /\ RoomOK'
  <2>1. Emptying /\ Emptying'
    BY <1>10, <1>18 DEF Emptying
  <2>2. gc.sec \in Sectors
    BY <2>1, EmptyingFacts
  <2>3. Occupied(gc.sec)' = Occupied(gc.sec) /\ \A o : StatusOf(<<gc.sec, o>>)' = StatusOf(<<gc.sec, o>>)
    BY <1>1 DEF Occupied, StatusOf, NodeAt
  <2>4. EmptyingOK'
    BY <1>1, <2>1, <2>3 DEF Powered, EmptyingOK, Garbage
  <2>5. Ahead' = Ahead
    BY <1>1, <2>3, AheadKept
  <2>6. PICK u \in Sectors \ {gc.sec} : Takes(u)
    BY <2>1 DEF Powered, RoomOK
  <2>7. Occupied(u)' = Occupied(u) /\ \A o : LenOf(<<u, o>>)' = LenOf(<<u, o>>)
    BY <1>1 DEF Occupied, LenOf, NodeAt
  <2>8. u = new.sec => \A p \in Ahead : HdrSize <= p
    <3>1. KvLen[new.val] >= HdrSize /\ new.off \in Nat
      BY <1>3, FdbAssumption DEF NewNodes, Offsets
    <3>2. u = new.sec => \A p \in Ahead : new.off + KvLen[new.val] <= p
      BY <1>1, <2>6 DEF Takes
    <3>3. \A p \in Ahead : p \in Nat
      BY DEF Ahead, Occupied, Offsets
    <3> QED
      BY <1>3, <3>1, <3>2, <3>3, FdbAssumption
  <2>9. Takes(u)'
    BY <1>1, <1>7, <1>8, <2>5, <2>6, <2>7, <2>8 DEF Takes
  <2> QED
    BY <1>1, <2>4, <2>6, <2>9 DEF RoomOK
<1> QED
  BY <1>1, <1>2, <1>11, <1>13, <1>14, <1>15, <1>16, <1>17, <1>18, CreatingPowered

\* Once a node is being replaced or moved, the old one is there.
LEMMA OldThere ==
    ASSUME IInv, Prepared
    PROVE  old \in NodeAddrs
<1>1. Replacing
  BY DEF Prepared, Replacing, MoveLabels, Creating
<1> QED
  BY <1>1 DEF IInv, OldOK, RunningOK, TypeOK, NodeAddrs

LEMMA HeaderNodes ==
    ASSUME IInv, WriteHeader, NEW n, n = <<new.sec, new.off>>
    PROVE  /\ n \notin NodeAddrs /\ NodeAddrs' = NodeAddrs \cup {n}
           /\ \A a \in NodeAddrs : /\ KeyOf(a)' = KeyOf(a) /\ StatusOf(a)' = StatusOf(a)
                                   /\ NodeAt(a)'.val = NodeAt(a).val
           /\ KeyOf(n)' = new.key /\ StatusOf(n)' = "PRE_WRITE" /\ LenOf(n)' = KvLen[new.val]
           /\ NodeAt(n)'.val = new.val
           /\ \A s \in Sectors :
                  Occupied(s)' = IF s = new.sec THEN Occupied(s) \cup {new.off} ELSE Occupied(s)
<1> DEFINE m == [key |-> new.key, val |-> new.val, status |-> HeaderStatus, crc |-> FALSE]
<1>1. pc = "header"
  BY DEF WriteHeader
<1>2. new.key \in Keys /\ new.val \in Vals /\ n \in Addrs /\ new.sec \in Sectors /\ new.off \in Offsets
  BY <1>1, NewPlace DEF Creating
<1>3. m \in Nodes /\ m.key = new.key /\ m.val = new.val /\ m.status = "PRE_WRITE"
  BY <1>2 DEF Nodes, HeaderStatus, KvStatus
<1>4. m # None
  BY <1>3, NoneAssumption
<1>5. flash' = [flash EXCEPT ![n[1]] = [flash[n[1]] EXCEPT ![n[2]] = m]]
  BY DEF WriteHeader
<1> HIDE DEF m
<1>6. \A s \in Sectors, o \in Offsets : flash'[s][o] = IF <<s, o>> = n THEN m ELSE flash[s][o]
  BY <1>2, <1>3, <1>5, SlotWrite DEF IInv
<1>7. \A a \in Addrs : NodeAt(a)' = IF a = n THEN m ELSE NodeAt(a)
  BY <1>6 DEF NodeAt, Addrs
<1>8. NodeAt(n) = None
  BY <1>1 DEF IInv, NewOK, Reserved, NodeAt
<1>9. n \notin NodeAddrs /\ NodeAddrs' = NodeAddrs \cup {n}
  BY <1>2, <1>4, <1>7, <1>8 DEF NodeAddrs
<1>10. \A a \in NodeAddrs : NodeAt(a)' = NodeAt(a)
  BY <1>7, <1>9 DEF NodeAddrs
<1>11. NodeAt(n)' = m
  BY <1>2, <1>7
<1>12. /\ KeyOf(n)' = new.key /\ StatusOf(n)' = "PRE_WRITE" /\ LenOf(n)' = KvLen[new.val]
       /\ NodeAt(n)'.val = new.val
  BY <1>3, <1>11 DEF KeyOf, StatusOf, LenOf
<1>13. \A s \in Sectors :
           Occupied(s)' = IF s = new.sec THEN Occupied(s) \cup {new.off} ELSE Occupied(s)
  BY <1>2, <1>4, <1>6 DEF Occupied
<1> QED
  BY <1>9, <1>10, <1>12, <1>13 DEF KeyOf, StatusOf

\* The new node keeps its distance from the nodes of its sector.
LEMMA HeaderSpaced ==
    ASSUME IInv, WriteHeader, Spaced, Fits
    PROVE  Spaced'
<1> SUFFICES ASSUME NEW s \in Sectors, NEW o \in Occupied(s)'
             PROVE  /\ o + LenOf(<<s, o>>)' + Threshold < SectorSize
                    /\ \A p \in Occupied(s)' : o < p => o + LenOf(<<s, o>>)' <= p
  BY DEF Spaced
<1>1. PICK n : n = <<new.sec, new.off>>
  OBVIOUS
<1>2. /\ new.sec \in Sectors /\ new.off \in Nat /\ KvLen[new.val] \in Nat
  BY NewPlace DEF WriteHeader, Creating, Offsets
<1>3. /\ \A a \in NodeAddrs : NodeAt(a)'.val = NodeAt(a).val
      /\ LenOf(n)' = KvLen[new.val]
      /\ \A t \in Sectors :
             Occupied(t)' = IF t = new.sec THEN Occupied(t) \cup {new.off} ELSE Occupied(t)
  BY <1>1, HeaderNodes
<1>4. ASSUME NEW p \in Occupied(s)
      PROVE  /\ p \in Nat /\ LenOf(<<s, p>>) \in Nat \ {0} /\ LenOf(<<s, p>>)' = LenOf(<<s, p>>)
             /\ s = new.sec => p + LenOf(<<s, p>>) <= new.off
  <2>1. p \in Nat /\ LenOf(<<s, p>>) \in Nat \ {0} /\ <<s, p>> \in NodeAddrs
    BY OccupiedFacts DEF IInv
  <2>2. s = new.sec => p + LenOf(<<s, p>>) <= new.off
    BY DEF Fits
  <2> QED
    BY <1>3, <2>1, <2>2 DEF LenOf
<1>5. CASE o \in Occupied(s)
  <2>1. o + LenOf(<<s, o>>) + Threshold < SectorSize
        /\ \A p \in Occupied(s) : o < p => o + LenOf(<<s, o>>) <= p
    BY <1>5 DEF Spaced
  <2>2. LenOf(<<s, o>>)' = LenOf(<<s, o>>) /\ (s = new.sec => o + LenOf(<<s, o>>) <= new.off)
    BY <1>4, <1>5
  <2> QED
    BY <1>3, <2>1, <2>2
<1>6. CASE o \notin Occupied(s)
  <2>1. s = new.sec /\ o = new.off /\ <<s, o>> = n
    BY <1>1, <1>3, <1>6
  <2>2. LenOf(<<s, o>>)' = KvLen[new.val]
    BY <1>3, <2>1
  <2>3. o + KvLen[new.val] + Threshold < SectorSize
    BY <2>1 DEF Fits
  <2>4. \A p \in Occupied(s)' : o < p => FALSE
    <3>1. ASSUME NEW p \in Occupied(s)', o < p
          PROVE  FALSE
      <4>1. p \in Occupied(s)
        BY <1>2, <1>3, <2>1, <3>1
      <4>2. p \in Nat /\ LenOf(<<s, p>>) \in Nat \ {0} /\ p + LenOf(<<s, p>>) <= o
        BY <1>4, <2>1, <4>1
      <4> QED
        BY <1>2, <2>1, <3>1, <4>2
    <3> QED
      BY <3>1
  <2> QED
    BY <2>2, <2>3, <2>4
<1> QED
  BY <1>5, <1>6

LEMMA WriteHeaderPowered ==
    ASSUME IInv, Powered, WriteHeader
    PROVE  Powered'
<1>1. pc = "header" /\ pc' = "data"
      /\ UNCHANGED <<store, dirty, gcRequest, lastDel, cache, call, ret, new, old, gc>>
  BY DEF WriteHeader, dbVars
<1>2. pc \in Creating /\ pc' \in Creating /\ Reserved /\ ~Reserved' /\ ~Writing /\ Writing' /\ ~Replaced'
  BY <1>1 DEF Creating, Reserved, Writing, Replaced
<1>3. PICK n : n = <<new.sec, new.off>>
  OBVIOUS
<1>4. /\ n \notin NodeAddrs /\ NodeAddrs' = NodeAddrs \cup {n}
      /\ \A a \in NodeAddrs : /\ KeyOf(a)' = KeyOf(a) /\ StatusOf(a)' = StatusOf(a)
                              /\ NodeAt(a)'.val = NodeAt(a).val
      /\ KeyOf(n)' = new.key /\ StatusOf(n)' = "PRE_WRITE" /\ LenOf(n)' = KvLen[new.val]
      /\ NodeAt(n)'.val = new.val
      /\ \A s \in Sectors :
             Occupied(s)' = IF s = new.sec THEN Occupied(s) \cup {new.off} ELSE Occupied(s)
  BY <1>3, HeaderNodes
<1>5. /\ new.sec \in Sectors /\ new.off \in Offsets /\ new.val \in Vals
  BY <1>2, NewPlace
<1>6. (Prepared' <=> Prepared) /\ (Holding' <=> Holding) /\ (Copying' <=> Copying)
  BY <1>1, <1>2 DEF Prepared, Holding, Copying
<1>7. Prepared => /\ old \in NodeAddrs /\ KeyOf(old)' = KeyOf(old)
                  /\ NodeAt(old)'.val = NodeAt(old).val
  <2> SUFFICES ASSUME Prepared
               PROVE  /\ old \in NodeAddrs /\ KeyOf(old)' = KeyOf(old)
                      /\ NodeAt(old)'.val = NodeAt(old).val
    OBVIOUS
  <2>1. PICK a \in NodeAddrs : a = old
    BY OldThere
  <2>2. KeyOf(old)' = KeyOf(a)' /\ NodeAt(old)' = NodeAt(a)'
    BY <1>1, <2>1 DEF KeyOf, NodeAt
  <2> QED
    BY <1>4, <2>1, <2>2
<1>8. StatusOK'
  <2>1. /\ Unwalked' <=> Unwalked
        /\ \A a : (Begun(a)' <=> a = n) /\ ~Begun(a)
    BY <1>1, <1>2, <1>3, CreatingPhase DEF Begun
  <2>2. ASSUME NEW a \in NodeAddrs
        PROVE  /\ a # n /\ (Left(a)' <=> Left(a)) /\ (Left(a) => Unwalked)
               /\ StatusOf(a)' = "PRE_DELETE" <=> Prepared /\ a = old
    BY <1>4, <2>1 DEF Powered, StatusOK, Left
  <2>3. (Prepared => old # n) /\ ~Left(n)'
    BY <1>4, <1>7, <2>1 DEF Left
  <2>4. ASSUME NEW a \in NodeAddrs'
        PROVE  /\ Begun(a)' => StatusOf(a)' = "PRE_WRITE"
               /\ Left(a)' => a \in NodeAddrs /\ Left(a) /\ Unwalked'
               /\ StatusOf(a)' = "PRE_DELETE" <=> Prepared /\ a = old
    BY <1>4, <2>1, <2>2, <2>3
  <2>5. \A a, b \in NodeAddrs : Left(a) /\ Left(b) => a = b
    BY DEF Powered, StatusOK
  <2> QED
    BY <1>1, <1>6, <2>4, <2>5 DEF StatusOK
<1>9. \A a \in NodeAddrs' : StatusOf(a)' = "WRITE" =>
          a \in NodeAddrs /\ StatusOf(a) = "WRITE" /\ KeyOf(a)' = KeyOf(a)
  BY <1>4
<1>10. KeysOK'
  <2>1. OneWritten'
    BY <1>9 DEF Powered, KeysOK, OneWritten
  <2>2. Prepared => \A a \in NodeAddrs : StatusOf(a) = "WRITE" => KeyOf(a) # KeyOf(old)
    BY <1>1 DEF Powered, KeysOK, Replaced
  <2>3. \A a \in NodeAddrs : StatusOf(a) = "WRITE" => KeyOf(a) # new.key
    BY <1>2 DEF Powered, KeysOK
  <2>4. \A a \in NodeAddrs' : StatusOf(a)' = "WRITE" => KeyOf(a)' # new'.key
    BY <1>1, <1>9, <2>3
  <2>5. Prepared => \A a \in NodeAddrs' : StatusOf(a)' = "WRITE" => KeyOf(a)' # KeyOf(old)'
    BY <1>7, <1>9, <2>2
  <2> QED
    BY <1>2, <1>6, <2>1, <2>4, <2>5 DEF KeysOK
<1>11. CacheLeads'
  <2> SUFFICES ASSUME NEW k \in Keys, NEW b, b = cache'[k], b # None
               PROVE  /\ b \in NodeAddrs' /\ KeyOf(b)' = k
                      /\ StatusOf(b)' = "WRITE" \/ StatusOf(b)' = "PRE_DELETE"
    BY <1>2 DEF CacheLeads
  <2>1. b \in NodeAddrs /\ KeyOf(b) = k /\ StatusOf(b) \in {"WRITE", "PRE_DELETE"}
    BY <1>1 DEF Powered, LeadsOK, CacheLeads
  <2> QED
    BY <1>4, <2>1
<1>12. LinkOK'
  <2>1. Copying => Prepared
    BY <1>2 DEF Copying, Prepared
  <2>2. /\ ~new.full
        /\ Holding => new.key = call.key /\ new.val = call.val
        /\ Holding /\ Prepared => KeyOf(old) = call.key
        /\ Copying => new.key = KeyOf(old) /\ new.val = NodeAt(old).val /\ new.sec # gc.sec
    BY <1>1 DEF Powered, LinkOK
  <2>3. ~new'.full
    BY <1>1, <2>2
  <2>4. /\ KeyOf(<<new.sec, new.off>>)' = new.key
        /\ NodeAt(<<new.sec, new.off>>)'.val = new.val
    <3>1. KeyOf(<<new.sec, new.off>>)' = KeyOf(n)' /\ NodeAt(<<new.sec, new.off>>)' = NodeAt(n)'
      BY <1>1, <1>3 DEF KeyOf, NodeAt
    <3> QED
      BY <1>4, <3>1
  <2> QED
    BY <1>1, <1>6, <1>7, <2>1, <2>2, <2>3, <2>4 DEF LinkOK
<1>13. LayoutOK'
  <2>1. Spaced'
    BY <1>2, HeaderSpaced DEF Powered, LayoutOK
  <2> QED
    BY <1>2, <2>1 DEF LayoutOK
<1>14. SectorsOK'
  BY <1>1, SectorsKept DEF Powered
<1>15. Holding => EmptySectors' \ {new'.sec} # {}
  <2>1. Holding => EmptySectors \ {new.sec} # {}
    BY HoldingFacts
  <2> QED
    BY <1>1, <2>1 DEF EmptySectors
<1>16. ASSUME Copying
       PROVE  EmptyingOK' /\ RoomOK'
  <2>1. Emptying /\ Emptying' /\ gc.sec # new.sec
    BY <1>6, <1>16 DEF Emptying, Powered, LinkOK
  <2>2. PICK g \in Sectors : g = gc.sec
    BY <2>1, EmptyingFacts
  <2>3. Occupied(gc.sec)' = Occupied(g)' /\ Occupied(g)' = Occupied(g)
    <3>1. Occupied(gc.sec)' = Occupied(g)'
      BY <1>1, <2>2 DEF Occupied
    <3> QED
      BY <1>4, <2>1, <2>2, <3>1
  <2>4. \A o \in Occupied(g) : StatusOf(<<gc.sec, o>>)' = StatusOf(<<g, o>>)
    <3>1. \A o \in Occupied(g) : <<g, o>> \in NodeAddrs
      BY OccupiedFacts DEF IInv
    <3>2. \A o : StatusOf(<<gc.sec, o>>)' = StatusOf(<<g, o>>)'
      BY <1>1, <2>2 DEF StatusOf, NodeAt
    <3> QED
      BY <1>4, <3>1, <3>2
  <2>5. EmptyingOK'
    BY <1>1, <2>1, <2>2, <2>3, <2>4 DEF Powered, EmptyingOK, Garbage
  <2>6. Ahead' = Ahead
    BY <1>1, <2>2, <2>3, AheadKept
  <2>7. PICK u \in Sectors \ {gc.sec} : Takes(u)
    BY <2>1 DEF Powered, RoomOK
  <2>8. ASSUME NEW p \in Ahead, NEW o \in Occupied(u)'
        PROVE  o + LenOf(<<u, o>>)' <= p
    <3>1. CASE o \in Occupied(u)
      <4>1. <<u, o>> \in NodeAddrs
        BY <3>1, OccupiedFacts DEF IInv
      <4>2. LenOf(<<u, o>>)' = LenOf(<<u, o>>)
        BY <1>4, <4>1 DEF LenOf
      <4> QED
        BY <2>7, <3>1, <4>2 DEF Takes
    <3>2. CASE o \notin Occupied(u)
      <4>1. u = new.sec /\ o = new.off /\ <<u, o>> = n
        BY <1>3, <1>4, <3>2
      <4>2. LenOf(<<u, o>>)' = KvLen[new.val]
        BY <1>4, <4>1
      <4>3. new.off + KvLen[new.val] <= p
        BY <1>1, <2>7, <4>1 DEF Takes
      <4> QED
        BY <4>1, <4>2, <4>3
    <3> QED
      BY <3>1, <3>2
  <2>9. ASSUME NEW p \in Ahead, store[u] = "USING", Occupied(u)' = {}
        PROVE  HdrSize <= p
    BY <1>4, <2>7, <2>9 DEF Takes
  <2>10. Takes(u)'
    BY <1>1, <2>6, <2>7, <2>8, <2>9 DEF Takes
  <2> QED
    BY <1>1, <2>5, <2>7, <2>10 DEF RoomOK
<1> QED
  BY <1>1, <1>2, <1>8, <1>10, <1>11, <1>12, <1>13, <1>14, <1>15, <1>16, CreatingPowered

\* The contents of a node change neither its key, nor its value, nor its status.
LEMMA DataSame ==
    ASSUME IInv, WriteData
    PROVE  SameFlash
<1> DEFINE m == [flash[new.sec][new.off] EXCEPT !.crc = TRUE]
<1>1. PICK n : n = <<new.sec, new.off>>
  OBVIOUS
<1>2. pc = "data"
  BY DEF WriteData
<1>3. n \in Addrs /\ new.sec \in Sectors /\ new.off \in Offsets
  BY <1>1, <1>2, NewPlace DEF Creating
<1>4. NodeAt(n) # None /\ NodeAt(n) = flash[new.sec][new.off]
  BY <1>1, <1>2 DEF IInv, NewOK, NodeAt
<1>5. NodeAt(n) \in Nodes
  BY <1>3, <1>4, NodeType DEF IInv
<1>6. /\ m \in Nodes /\ m.key = NodeAt(n).key /\ m.val = NodeAt(n).val
      /\ m.status = NodeAt(n).status
  BY <1>4, <1>5 DEF Nodes
<1>7. m # None
  BY <1>6, NoneAssumption
<1>8. flash' = [flash EXCEPT ![n[1]] = [flash[n[1]] EXCEPT ![n[2]] = m]]
  BY <1>1 DEF WriteData
<1> HIDE DEF m
<1>9. \A s \in Sectors, o \in Offsets : flash'[s][o] = IF <<s, o>> = n THEN m ELSE flash[s][o]
  BY <1>3, <1>6, <1>8, SlotWrite DEF IInv
<1>10. \A a \in Addrs : NodeAt(a)' = IF a = n THEN m ELSE NodeAt(a)
  BY <1>9 DEF NodeAt, Addrs
<1>11. NodeAddrs' = NodeAddrs
  BY <1>3, <1>4, <1>7, <1>10 DEF NodeAddrs
<1> QED
  BY <1>6, <1>10, <1>11 DEF SameFlash, SameNodes, KeyOf, StatusOf, NodeAddrs

\* The collected sector and the room for it are kept by a write of a copied node
\* elsewhere.
LEMMA CopyingKept ==
    ASSUME IInv, Emptying, Emptying', SameNodes, UNCHANGED <<store, dirty, old, gc>>,
           EmptyingOK, RoomOK, gc.sec \in Sectors,
           \A a \in NodeAddrs : a[1] = gc.sec => StatusOf(a)' = StatusOf(a),
           pc \notin {"move", "move_alloc", "gc_kv"}, pc' \notin {"move", "move_alloc", "gc_kv"},
           pc' \notin {"sector", "header"}
    PROVE  EmptyingOK' /\ RoomOK'
<1>1. PICK g \in Sectors : g = gc.sec
  OBVIOUS
<1>2. Occupied(gc.sec)' = Occupied(g)' /\ Occupied(g)' = Occupied(g)
  BY <1>1, SameNodesFewer DEF Occupied
<1>3. \A o \in Occupied(g) : StatusOf(<<gc.sec, o>>)' = StatusOf(<<g, o>>)
  <2>1. \A o \in Occupied(g) : <<g, o>> \in NodeAddrs
    BY OccupiedFacts DEF IInv
  <2>2. \A o : StatusOf(<<gc.sec, o>>)' = StatusOf(<<g, o>>)'
    BY <1>1 DEF StatusOf, NodeAt
  <2> QED
    BY <1>1, <2>1, <2>2
<1>4. EmptyingOK'
  BY <1>1, <1>2, <1>3 DEF EmptyingOK, Garbage
<1>5. Ahead' = Ahead
  BY <1>1, <1>2, AheadKept
<1>6. PICK u \in Sectors \ {gc.sec} : Takes(u)
  BY DEF RoomOK
<1>7. /\ Occupied(u)' = Occupied(u)
      /\ \A o \in Occupied(u)' : LenOf(<<u, o>>)' = LenOf(<<u, o>>)
  BY SameNodesFewer DEF FewerNodes
<1>8. Takes(u)'
  BY <1>5, <1>6, <1>7 DEF Takes
<1> QED
  BY <1>4, <1>6, <1>8 DEF RoomOK

\* What is known of the node being replaced, when its status stays.
LEMMA OldKept ==
    ASSUME IInv, Prepared, SameNodes, old' = old
    PROVE  KeyOf(old)' = KeyOf(old) /\ NodeAt(old)'.val = NodeAt(old).val
<1>1. PICK a \in NodeAddrs : a = old
  BY OldThere
<1>2. KeyOf(old)' = KeyOf(a)' /\ NodeAt(old)' = NodeAt(a)'
  BY <1>1 DEF KeyOf, NodeAt
<1> QED
  BY <1>1, <1>2 DEF SameNodes

LEMMA WriteDataPowered ==
    ASSUME IInv, Powered, WriteData
    PROVE  Powered'
<1>1. pc = "data" /\ pc' = "commit"
      /\ UNCHANGED <<store, dirty, gcRequest, lastDel, cache, call, ret, new, old, gc>>
  BY DEF WriteData, dbVars
<1>2. pc \in Creating /\ pc' \in Creating /\ ~Reserved' /\ Writing /\ Writing' /\ ~Replaced'
  BY <1>1 DEF Creating, Reserved, Writing, Replaced
<1>3. SameFlash /\ SameNodes /\ FewerNodes /\ \A s \in Sectors : Occupied(s)' = Occupied(s)
  BY DataSame, SameNodesFewer DEF SameFlash
<1>4. (Prepared' <=> Prepared) /\ (Holding' <=> Holding) /\ (Copying' <=> Copying)
      /\ (Unwalked' <=> Unwalked)
  BY <1>1, <1>2, CreatingPhase DEF Prepared, Holding, Copying
<1>5. Prepared => KeyOf(old)' = KeyOf(old) /\ NodeAt(old)'.val = NodeAt(old).val
  BY <1>1, <1>3, OldKept
<1>6. StatusOK' /\ CacheLeads'
  BY <1>1, <1>2, <1>3, <1>4, StatusKept, CacheLeadsKept DEF Powered, LeadsOK, CacheStep
<1>7. LinkOK'
  <2>1. Copying => Prepared
    BY <1>2 DEF Copying, Prepared
  <2>2. /\ ~new.full
        /\ Holding => new.key = call.key /\ new.val = call.val
        /\ Holding /\ Prepared => KeyOf(old) = call.key
        /\ Copying => new.key = KeyOf(old) /\ new.val = NodeAt(old).val /\ new.sec # gc.sec
    BY <1>1 DEF Powered, LinkOK
  <2>3. ~new'.full
    BY <1>1, <2>2
  <2>4. /\ KeyOf(<<new.sec, new.off>>)' = new.key
        /\ NodeAt(<<new.sec, new.off>>)'.val = new.val
    <3>1. PICK n : n = <<new.sec, new.off>>
      OBVIOUS
    <3>2. n \in Addrs /\ NodeAt(n) # None /\ KeyOf(n) = new.key /\ NodeAt(n).val = new.val
      BY <1>1, <1>2, <3>1, NewPlace DEF IInv, NewOK, NodeAt, Powered, LinkOK
    <3>3. KeyOf(n)' = KeyOf(n) /\ NodeAt(n)'.val = NodeAt(n).val
      BY <1>3, <3>2 DEF SameNodes, NodeAddrs
    <3>4. KeyOf(<<new.sec, new.off>>)' = KeyOf(n)' /\ NodeAt(<<new.sec, new.off>>)' = NodeAt(n)'
      BY <1>1, <3>1 DEF KeyOf, NodeAt
    <3> QED
      BY <3>2, <3>3, <3>4
  <2> QED
    BY <1>1, <1>4, <1>5, <2>1, <2>2, <2>3, <2>4 DEF LinkOK
<1>8. KeysOK'
  <2>1. OneWritten'
    BY <1>3, OneWrittenKept DEF Powered, KeysOK, SameFlash
  <2>2. Prepared => \A a \in NodeAddrs : StatusOf(a) = "WRITE" => KeyOf(a) # KeyOf(old)
    BY <1>1 DEF Powered, KeysOK, Replaced
  <2>3. \A a \in NodeAddrs : StatusOf(a) = "WRITE" => KeyOf(a) # new.key
    BY <1>2 DEF Powered, KeysOK
  <2>4. \A a \in NodeAddrs' : StatusOf(a)' = "WRITE" => KeyOf(a)' # new'.key
    BY <1>1, <1>3, <2>3 DEF SameFlash, SameNodes
  <2>5. Prepared => \A a \in NodeAddrs' : StatusOf(a)' = "WRITE" => KeyOf(a)' # KeyOf(old)'
    BY <1>3, <1>5, <2>2 DEF SameFlash, SameNodes
  <2> QED
    BY <1>2, <1>4, <2>1, <2>4, <2>5 DEF KeysOK
<1>9. LayoutOK'
  BY <1>2, <1>3, SpacedKept DEF Powered, LayoutOK
<1>10. SectorsOK'
  BY <1>1, SectorsKept DEF Powered
<1>11. Holding => EmptySectors' \ {new'.sec} # {}
  <2>1. Holding => EmptySectors \ {new.sec} # {}
    BY HoldingFacts
  <2> QED
    BY <1>1, <2>1 DEF EmptySectors
<1>12. ASSUME Copying
       PROVE  EmptyingOK' /\ RoomOK'
  <2>1. Emptying /\ Emptying' /\ gc.sec \in Sectors
    BY <1>4, <1>12, EmptyingFacts DEF Emptying
  <2> QED
    BY <1>1, <1>3, <2>1, CopyingKept DEF Powered, SameFlash
<1> QED
  BY <1>1, <1>2, <1>6, <1>7, <1>8, <1>9, <1>10, <1>11, <1>12, CreatingPowered

\* What the commit does to the nodes.
LEMMA CommitNodes ==
    ASSUME IInv, Powered, WriteCommit, NEW n, n = <<new.sec, new.off>>
    PROVE  /\ n \in NodeAddrs /\ Marks(n, "WRITE") /\ StatusOf(n) = "PRE_WRITE"
           /\ KeyOf(n) = new.key /\ NodeAt(n).val = new.val /\ new.key \in Keys
           /\ cache' = [cache EXCEPT ![new.key] = n]
<1>1. pc = "commit"
  BY DEF WriteCommit
<1>2. n \in NodeAddrs /\ new.key \in Keys
  BY <1>1, NewPlace DEF Creating, IInv, NewOK, NodeAddrs, NodeAt
<1>3. Marks(n, "WRITE")
  <2>1. flash' = [flash EXCEPT ![n[1]][n[2]].status = "WRITE"]
    BY DEF WriteCommit
  <2> QED
    BY <1>2, <2>1, StatusMarks DEF IInv, KvStatus
<1>4. StatusOf(n) = "PRE_WRITE"
  BY <1>1, <1>2 DEF Powered, StatusOK, Begun
<1>5. KeyOf(n) = new.key /\ NodeAt(n).val = new.val
  BY <1>1 DEF Powered, LinkOK
<1> QED
  BY <1>2, <1>3, <1>4, <1>5 DEF WriteCommit, Cached

LEMMA WriteCommitPowered ==
    ASSUME IInv, Powered, WriteCommit
    PROVE  Powered'
<1>1. /\ pc = "commit" /\ pc' = ret.create
      /\ UNCHANGED <<store, dirty, lastDel, ret, old, gc>>
      /\ gcRequest' = (gcRequest \/ new.full)
      /\ call' = IF ret.create = "move_delete" THEN call ELSE [call EXCEPT !.done = TRUE]
  BY DEF WriteCommit
<1>2. PICK n : n = <<new.sec, new.off>>
  OBVIOUS
<1>3. /\ n \in NodeAddrs /\ StatusOf(n) = "PRE_WRITE"
      /\ KeyOf(n) = new.key /\ new.key \in Keys
      /\ cache' = [cache EXCEPT ![new.key] = n]
      /\ SameNodes /\ FewerNodes
      /\ NodeAddrs' = NodeAddrs /\ \A a \in NodeAddrs : KeyOf(a)' = KeyOf(a)
      /\ \A b \in NodeAddrs : StatusOf(b)' = IF b = n THEN "WRITE" ELSE StatusOf(b)
  BY <1>2, CommitNodes, SameNodesFewer DEF Marks, SameNodes
<1>4. ret.create \in {"set_end", "set_delete", "move_delete"}
  BY <1>1 DEF IInv, ReturnsOK, Creating
<1>5. pc \in Creating /\ Writing /\ ~Writing' /\ ~Reserved' /\ pc' \notin Creating
  BY <1>1, <1>4 DEF Creating, Writing, Reserved
<1>6. (Prepared' <=> Prepared) /\ (Prepared' <=> Replaced') /\ (Prepared <=> ret.create # "set_end")
  BY <1>1, <1>4, <1>5 DEF Prepared, Replaced
<1>7. ~new.full
  BY <1>1 DEF Powered, LinkOK
<1>8. gcRequest' = gcRequest
  BY <1>1, <1>7 DEF IInv, TypeOK
<1>9. Prepared => KeyOf(old) = new.key
  <2>1. CASE ret.create = "move_delete"
    BY <1>5, <2>1 DEF Copying, Powered, LinkOK
  <2>2. CASE ret.create = "set_delete"
    <3>1. Holding
      BY <1>5, <2>2 DEF Holding
    <3> QED
      BY <3>1 DEF Powered, LinkOK
  <2> QED
    BY <1>4, <1>6, <2>1, <2>2
<1>10. StatusOK'
  <2>1. Unwalked => Unwalked'
    <3>1. CASE ret.create = "move_delete"
      BY <1>1, <1>5, <3>1 DEF Unwalked, Rerun, Emptying, Copying, MoveLabels, Loading, Resetting,
                              Creating
    <3>2. CASE ret.create # "move_delete"
      BY <1>5, <3>2, HoldingPhase DEF Holding
    <3> QED
      BY <3>1, <3>2
  <2>2. \A a : ~Begun(a)' /\ (Begun(a) <=> a = n)
    BY <1>1, <1>2, <1>5 DEF Begun, Writing
  <2>3. ASSUME NEW a \in NodeAddrs
        PROVE  /\ Left(a)' => Left(a) /\ Unwalked'
               /\ StatusOf(a)' = "PRE_DELETE" <=> Prepared /\ a = old
    BY <1>3, <2>1, <2>2 DEF Powered, StatusOK, Left
  <2>4. \A a, b \in NodeAddrs : Left(a) /\ Left(b) => a = b
    BY DEF Powered, StatusOK
  <2> QED
    BY <1>1, <1>3, <1>6, <2>2, <2>3, <2>4 DEF StatusOK
<1>11. OneWritten'
  <2>1. \A a \in NodeAddrs : StatusOf(a) = "WRITE" => KeyOf(a) # new.key
    BY <1>5 DEF Powered, KeysOK
  <2>2. \A a, b \in NodeAddrs : StatusOf(a) = "WRITE" /\ StatusOf(b) = "WRITE" /\ KeyOf(a) = KeyOf(b) => a = b
    BY DEF Powered, KeysOK, OneWritten
  <2>3. \A a, b \in NodeAddrs : StatusOf(a)' = "WRITE" /\ StatusOf(b)' = "WRITE" /\ KeyOf(a) = KeyOf(b) => a = b
    BY <1>3, <2>1, <2>2
  <2> QED
    BY <1>3, <2>3 DEF OneWritten
<1>12. CacheLeads'
  <2> SUFFICES ASSUME NEW k \in Keys, NEW b, b = cache'[k], b # None
               PROVE  /\ b \in NodeAddrs' /\ KeyOf(b)' = k
                      /\ StatusOf(b)' = "WRITE" \/ (StatusOf(b)' = "PRE_DELETE" /\ ~Replaced')
    BY DEF CacheLeads
  <2>1. CASE k = new.key
    <3>1. b = n
      BY <1>3, <2>1 DEF IInv, TypeOK
    <3> QED
      BY <1>3, <2>1, <3>1
  <2>2. CASE k # new.key
    <3>1. b = cache[k]
      BY <1>3, <2>2 DEF IInv, TypeOK
    <3>2. b \in NodeAddrs /\ KeyOf(b) = k /\ StatusOf(b) \in {"WRITE", "PRE_DELETE"}
      BY <3>1 DEF Powered, LeadsOK, CacheLeads
    <3>3. StatusOf(b) = "PRE_DELETE" => FALSE
      BY <1>9, <2>2, <3>2 DEF Powered, StatusOK
    <3> QED
      BY <1>3, <3>2, <3>3
  <2> QED
    BY <2>1, <2>2
<1>13. Spaced' /\ SectorsOK' /\ EmptySectors' = EmptySectors
  BY <1>1, <1>3, <1>5, SpacedKept, SectorsKept DEF Powered, LayoutOK, EmptySectors
<1>14. CASE ret.create = "set_end"
  <2>1. Holding
    BY <1>5, <1>14 DEF Holding
  <2>2. ~gcRequest /\ ~lastDel /\ EmptySectors # {}
    BY <1>6, <1>14, <2>1, HoldingFacts
  <2>3. pc' = "set_end" /\ Plain'
    BY <1>1, <1>14 DEF Plain
  <2>4. ControlOK' /\ CallOK'
    BY <1>1, <1>8, <2>2, <2>3, PlainControlNext, PlainCallNext DEF GcLabels
  <2> QED
    BY <1>10, <1>11, <1>12, <1>13, <2>2, <2>3, <2>4, PlainPowered
<1>15. Prepared => KeyOf(old)' = new.key
  BY <1>1, <1>3, <1>9, OldKept
<1>16. KeysOK'
  BY <1>3, <1>5, <1>6, <1>11, <1>15 DEF KeysOK
<1>17. LayoutOK'
  BY <1>5, <1>13 DEF LayoutOK
<1>18. CASE ret.create = "set_delete"
  <2>1. Holding
    BY <1>5, <1>18 DEF Holding
  <2>2. ~gcRequest /\ (lastDel <=> Prepared) /\ EmptySectors # {}
    BY <2>1, HoldingFacts
  <2>3. /\ ~Loading' /\ ~Resetting' /\ ~Emptying' /\ ~Holding' /\ ~Copying' /\ pc' \notin GcLabels
        /\ ~Rerun'
        /\ pc' \notin MoveLabels /\ ~Pursuing' /\ pc' = "set_delete"
    BY <1>1, <1>18 DEF Loading, Resetting, Emptying, Holding, Copying, Pursuing, Rerun, Creating,
                       MoveLabels, GcLabels
  <2>4. ControlOK' /\ CallOK' /\ LinkOK'
    BY <1>1, <1>6, <1>8, <2>2, <2>3 DEF ControlOK, CallOK, LinkOK
  <2>5. LeadsOK' /\ LoadingOK' /\ ReserveOK' /\ EmptyingOK' /\ RoomOK'
    BY <1>12, <1>13, <2>2, <2>3 DEF LeadsOK, LoadingOK, ReserveOK, EmptyingOK, RoomOK
  <2> QED
    BY <1>10, <1>13, <1>16, <1>17, <2>4, <2>5 DEF Powered
<1>19. CASE ret.create = "move_delete"
  <2>1. Copying /\ Emptying
    BY <1>5, <1>19 DEF Copying, Emptying
  <2>2. pc' = "move_delete" /\ Emptying' /\ ~Holding' /\ ~Copying' /\ Prepared /\ call' = call
    BY <1>1, <1>6, <1>19 DEF Emptying, MoveLabels, Holding, Copying, Creating
  <2>3. /\ gcRequest /\ (lastDel <=> Prepared) /\ ret.gc \in {"set_retry", "load_gc"}
        /\ ret.move = "gc_kv" /\ Served
        /\ gc.sec \in Sectors /\ new.sec # gc.sec
    BY <2>1, EmptyingFacts DEF Powered, LinkOK
  <2>4. LinkOK'
    BY <2>2 DEF LinkOK
  <2>5. \A a \in NodeAddrs : a[1] = gc.sec => StatusOf(a)' = StatusOf(a)
    BY <1>2, <1>3, <2>3
  <2>6. EmptyingOK' /\ RoomOK'
    BY <1>1, <1>3, <2>1, <2>2, <2>3, <2>5, CopyingKept DEF Powered
  <2>7. Served'
    BY <1>1, <2>2, <2>3 DEF Served
  <2> QED
    BY <1>1, <1>6, <1>8, <1>10, <1>12, <1>13, <1>16, <1>17, <2>2, <2>3, <2>4, <2>6, <2>7,
       EmptyingPowered
<1> QED
  BY <1>4, <1>14, <1>18, <1>19

-----------------------------------------------------------------------------
(* The move of a node.                                                     *)

\* A move works at the node the collection found.
LEMMA MovingFacts ==
    ASSUME IInv, Powered, pc \in MoveLabels
    PROVE  /\ Emptying /\ old \in NodeAddrs /\ gc.sec \in Sectors /\ gc.pos \in Nat
           /\ old = <<gc.sec, gc.pos>> /\ gc.pos \in Occupied(gc.sec)
           /\ dirty[gc.sec] = "GC" /\ gcRequest
           /\ ret.gc \in {"set_retry", "load_gc"} /\ ret.move = "gc_kv" /\ Served
           /\ lastDel <=> Prepared
<1>1. Emptying /\ Replacing /\ pc # "gc_kv"
  BY DEF Emptying, Replacing, MoveLabels
<1>2. old \in NodeAddrs
  BY <1>1 DEF IInv, OldOK, RunningOK, TypeOK, NodeAddrs
<1>3. old = <<gc.sec, gc.pos>> /\ dirty[gc.sec] = "GC"
  BY <1>1 DEF Powered, EmptyingOK
<1>4. gc.sec \in Sectors
  BY <1>1, EmptyingFacts
<1>5. gc.pos \in Occupied(gc.sec) /\ gc.pos \in Nat
  BY <1>2, <1>3, NodeFacts DEF IInv, Offsets
<1> QED
  BY <1>1, <1>2, <1>3, <1>4, <1>5, EmptyingFacts

\* A step that writes a status leaves the room for what is ahead.
LEMMA RoomKept ==
    ASSUME IInv, Emptying, Emptying', SameNodes, UNCHANGED <<store, dirty, gc>>,
           RoomOK, gc.sec \in Sectors, Ahead' = Ahead, pc' \notin {"sector", "header"}
    PROVE  RoomOK'
<1>1. PICK u \in Sectors \ {gc.sec} : Takes(u)
  BY DEF RoomOK
<1>2. /\ Occupied(u)' = Occupied(u)
      /\ \A o \in Occupied(u)' : LenOf(<<u, o>>)' = LenOf(<<u, o>>)
  BY SameNodesFewer DEF FewerNodes
<1>3. Takes(u)'
  BY <1>1, <1>2 DEF Takes
<1> QED
  BY <1>1, <1>3 DEF RoomOK

LEMMA MovePreparePowered ==
    ASSUME IInv, Powered, MovePrepare
    PROVE  Powered'
<1>1. /\ pc = "move" /\ pc' = "move_alloc"
      /\ flash' = [flash EXCEPT ![old[1]][old[2]].status = "PRE_DELETE"]
      /\ lastDel' = TRUE
      /\ UNCHANGED <<store, dirty, gcRequest, cache, call, ret, new, old, gc>>
  BY DEF MovePrepare, DelStatus
<1>2. /\ Emptying /\ old \in NodeAddrs /\ gc.sec \in Sectors /\ gc.pos \in Nat
      /\ old = <<gc.sec, gc.pos>>
      /\ dirty[gc.sec] = "GC" /\ gcRequest
      /\ ret.gc \in {"set_retry", "load_gc"} /\ ret.move = "gc_kv" /\ Served
  BY <1>1, MovingFacts DEF MoveLabels
<1>3. /\ Emptying' /\ ~Holding' /\ ~Copying' /\ ~Prepared /\ Prepared' /\ ~Writing /\ ~Writing'
      /\ ~Replaced' /\ ~Reserved' /\ pc' \notin Creating
  BY <1>1 DEF Emptying, Holding, Copying, Prepared, Writing, Replaced, Reserved, Creating, MoveLabels
<1>4. Marks(old, "PRE_DELETE")
  BY <1>1, <1>2, StatusMarks DEF IInv, KvStatus
<1>5. /\ NodeAddrs' = NodeAddrs /\ SameNodes /\ FewerNodes
      /\ \A b \in NodeAddrs : KeyOf(b)' = KeyOf(b)
      /\ \A b \in NodeAddrs : StatusOf(b)' = IF b = old THEN "PRE_DELETE" ELSE StatusOf(b)
  BY <1>4, SameNodesFewer DEF Marks, SameNodes
<1>6. StatusOf(old) = "WRITE"
  BY <1>1, <1>2 DEF Powered, EmptyingOK
<1>7. OneWritten' /\ Spaced' /\ SectorsOK'
  BY <1>1, <1>3, <1>5, OneWrittenKept, SpacedKept, SectorsKept DEF Powered, KeysOK, LayoutOK
<1>8. StatusOK'
  <2>1. \A a : ~Begun(a) /\ ~Begun(a)'
    BY <1>3 DEF Begun, Writing
  <2>2. (Unwalked' <=> Unwalked) /\ Served'
    BY <1>1, <1>2, <1>3, EmptyingPhase, EmptyingPhaseNext DEF Served
  <2>3. \A a \in NodeAddrs : Left(a)' => Left(a)
    BY <1>5, <2>1 DEF Left
  <2> QED
    BY <1>1, <1>2, <1>3, <1>5, <2>1, <2>2, <2>3 DEF Powered, StatusOK
<1>9. KeysOK'
  <2>1. \A b \in NodeAddrs : b # old /\ StatusOf(b) = "WRITE" => KeyOf(b) # KeyOf(old)
    BY <1>2, <1>6 DEF Powered, KeysOK, OneWritten
  <2>2. PICK a \in NodeAddrs : a = old
    BY <1>2
  <2>3. KeyOf(old)' = KeyOf(a)'
    BY <1>1, <2>2 DEF KeyOf, NodeAt
  <2>4. \A b \in NodeAddrs' : StatusOf(b)' = "WRITE" => KeyOf(b)' # KeyOf(old)'
    BY <1>5, <2>1, <2>2, <2>3
  <2> QED
    BY <1>3, <1>7, <2>4 DEF KeysOK
<1>10. CacheLeads'
  <2> SUFFICES ASSUME NEW k \in Keys, NEW b, b = cache'[k], b # None
               PROVE  /\ b \in NodeAddrs' /\ KeyOf(b)' = k
                      /\ StatusOf(b)' = "WRITE" \/ StatusOf(b)' = "PRE_DELETE"
    BY <1>3 DEF CacheLeads
  <2>1. b \in NodeAddrs /\ KeyOf(b) = k /\ StatusOf(b) \in {"WRITE", "PRE_DELETE"}
    BY <1>1 DEF Powered, LeadsOK, CacheLeads
  <2> QED
    BY <1>5, <2>1
<1>11. LinkOK' /\ LayoutOK'
  BY <1>1, <1>3, <1>7 DEF LinkOK, LayoutOK
<1>12. PICK g \in Sectors : g = gc.sec
  BY <1>2
<1>13. Occupied(gc.sec)' = Occupied(g)' /\ Occupied(g)' = Occupied(g)
  BY <1>1, <1>5, <1>12, SameNodesFewer DEF Occupied
<1>14. EmptyingOK'
  <2>1. ASSUME NEW o \in Occupied(g), o < gc.pos
        PROVE  Garbage(<<gc.sec, o>>)'
    <3>1. <<g, o>> \in NodeAddrs /\ Garbage(<<g, o>>) /\ <<g, o>> # old
      BY <1>2, <1>12, <2>1, OccupiedFacts DEF IInv, Powered, EmptyingOK
    <3>2. StatusOf(<<gc.sec, o>>)' = StatusOf(<<g, o>>)'
      BY <1>1, <1>12 DEF StatusOf, NodeAt
    <3> QED
      BY <1>5, <3>1, <3>2 DEF Garbage
  <2> QED
    BY <1>1, <1>2, <1>12, <1>13, <2>1 DEF EmptyingOK
<1>15. Ahead' = Ahead
  BY <1>1, <1>12, <1>13 DEF Ahead
<1>16. RoomOK'
  BY <1>1, <1>2, <1>3, <1>5, <1>15, RoomKept DEF Powered
<1>17. Served'
  BY <1>1, <1>2 DEF Served
<1> QED
  BY <1>1, <1>2, <1>3, <1>8, <1>7, <1>9, <1>10, <1>11, <1>14, <1>16, <1>17, EmptyingPowered

\* The sector that is collected is marked so: the deletion does not mark it again.
LEMMA MoveDeletePowered ==
    ASSUME IInv, Powered, MoveDelete
    PROVE  Powered'
<1>1. pc = "move_delete" /\ DelStatus(old, TRUE) /\ ThenDirty(old, ret.move)
      /\ UNCHANGED <<store, dirty, gcRequest, call, new, old, gc>>
  BY DEF MoveDelete
<1>2. /\ Emptying /\ old \in NodeAddrs /\ gc.sec \in Sectors /\ gc.pos \in Nat
      /\ old = <<gc.sec, gc.pos>>
      /\ dirty[gc.sec] = "GC" /\ gcRequest
      /\ ret.gc \in {"set_retry", "load_gc"} /\ ret.move = "gc_kv" /\ Served
      /\ lastDel <=> Prepared
  BY <1>1, MovingFacts DEF MoveLabels
<1>3. pc' = "gc_kv" /\ ret' = ret
  BY <1>1, <1>2 DEF ThenDirty
<1>4. /\ Emptying' /\ ~Holding' /\ ~Copying' /\ Prepared /\ ~Prepared' /\ ~Writing /\ ~Writing'
      /\ Replaced /\ ~Replaced' /\ ~Reserved' /\ pc' \notin Creating
      /\ pc' \notin MoveLabels
  BY <1>1, <1>3 DEF Emptying, Holding, Copying, Prepared, Writing, Replaced, Reserved, Creating,
                    MoveLabels
<1>5. flash' = [flash EXCEPT ![old[1]][old[2]].status = "DELETED"] /\ lastDel' = FALSE
      /\ cache' = cache
  BY <1>1, <1>2, <1>4 DEF DelStatus
<1>6. Marks(old, "DELETED")
  BY <1>2, <1>5, StatusMarks DEF IInv, KvStatus
<1>7. /\ NodeAddrs' = NodeAddrs /\ SameNodes /\ FewerNodes
      /\ \A b \in NodeAddrs : StatusOf(b)' = IF b = old THEN "DELETED" ELSE StatusOf(b)
  BY <1>6, SameNodesFewer DEF Marks, SameNodes
<1>8. StatusOK' /\ OneWritten'
  <2>1. Unwalked => Unwalked'
    BY <1>2, <1>3, <1>4, EmptyingPhase, EmptyingPhaseNext
  <2> QED
    BY <1>2, <1>4, <1>6, <2>1, DeleteMarks DEF Powered, KeysOK
<1>9. CacheLeads'
  <2>1. StatusOf(old) = "PRE_DELETE"
    BY <1>2, <1>4 DEF Powered, StatusOK
  <2>2. \A k \in Keys : cache[k] # None => cache[k] # old
    BY <1>4, <2>1 DEF Powered, LeadsOK, CacheLeads
  <2> QED
    BY <1>2, <1>4, <1>5, <1>6, <2>2, DeleteLeads DEF Powered, LeadsOK
<1>10. Spaced' /\ SectorsOK'
  BY <1>1, <1>4, <1>7, SpacedKept, SectorsKept DEF Powered, LayoutOK
<1>11. KeysOK' /\ LinkOK' /\ LayoutOK'
  BY <1>3, <1>4, <1>8, <1>10 DEF KeysOK, LinkOK, LayoutOK
<1>12. PICK g \in Sectors : g = gc.sec
  BY <1>2
<1>13. Occupied(gc.sec)' = Occupied(g)' /\ Occupied(g)' = Occupied(g)
  BY <1>1, <1>7, <1>12, SameNodesFewer DEF Occupied
<1>14. EmptyingOK'
  <2>1. ASSUME NEW o \in Occupied(g), o < gc.pos \/ o = gc.pos
        PROVE  Garbage(<<gc.sec, o>>)'
    <3>1. <<g, o>> \in NodeAddrs /\ (Garbage(<<g, o>>) \/ <<g, o>> = old)
      BY <1>2, <1>12, <2>1, OccupiedFacts DEF IInv, Powered, EmptyingOK
    <3>2. StatusOf(<<gc.sec, o>>)' = StatusOf(<<g, o>>)'
      BY <1>1, <1>12 DEF StatusOf, NodeAt
    <3> QED
      BY <1>7, <3>1, <3>2 DEF Garbage
  <2> QED
    BY <1>1, <1>2, <1>3, <1>12, <1>13, <2>1 DEF EmptyingOK
<1>15. Ahead' = Ahead
  BY <1>1, <1>3, <1>12, <1>13 DEF Ahead
<1>16. RoomOK'
  BY <1>1, <1>2, <1>3, <1>4, <1>7, <1>15, RoomKept DEF Powered
<1>17. Served'
  BY <1>1, <1>2, <1>3 DEF Served
<1> QED
  BY <1>1, <1>2, <1>3, <1>4, <1>5, <1>8, <1>9, <1>10, <1>11, <1>14, <1>16, <1>17, EmptyingPowered

\* A sector filled no further than p has the space behind p.
LEMMA RoomBelow ==
    ASSUME TypeOK, NEW u \in Sectors, store[u] \in {"EMPTY", "USING"},
           NEW p \in Nat, \A o \in Occupied(u) : o + LenOf(<<u, o>>) <= p,
           store[u] = "USING" /\ Occupied(u) = {} => HdrSize <= p
    PROVE  FreeOffset(u) <= p /\ Remain(u) >= SectorSize - p /\ Remain(u) \in Int
<1>1. SectorSize \in Nat
  BY FdbAssumption
<1>2. CASE store[u] = "EMPTY"
  BY <1>1, <1>2 DEF FreeOffset, Remain
<1>3. CASE store[u] = "USING"
  <2> DEFINE g == Greatest(Occupied(u))
  <2>1. CASE Occupied(u) = {}
    BY <1>1, <1>3, <2>1, FdbAssumption DEF EmptyKv, FreeOffset, Remain
  <2>2. ASSUME Occupied(u) # {}
        PROVE  g \in Occupied(u) /\ EmptyKv(u) = g + LenOf(<<u, g>>)
    BY <2>2, GreatestType DEF Occupied, EmptyKv, LenOf, NodeAt
  <2> HIDE DEF g
  <2>3. ASSUME Occupied(u) # {}
        PROVE  EmptyKv(u) <= p /\ EmptyKv(u) \in Nat
    BY <2>2, <2>3, OccupiedFacts
  <2>4. FreeOffset(u) = EmptyKv(u) /\ Remain(u) = SectorSize - EmptyKv(u)
    BY <1>3 DEF FreeOffset, Remain
  <2> QED
    BY <1>1, <2>1, <2>3, <2>4
<1> QED
  BY <1>2, <1>3

\* The collection finds room for every node it moves.
LEMMA MoveHasRoom ==
    ASSUME IInv, Powered, pc = "move_alloc",
           NEW u \in Sectors \ {gc.sec}, Takes(u)
    PROVE  /\ Candidates(LenOf(old)) # {}
           /\ FreeOffset(u) <= gc.pos
<1>1. /\ old \in NodeAddrs /\ gc.sec \in Sectors /\ gc.pos \in Nat
      /\ old = <<gc.sec, gc.pos>> /\ gc.pos \in Occupied(gc.sec) /\ gcRequest
  BY MovingFacts DEF MoveLabels
<1>2. gc.pos \in Ahead
  BY <1>1 DEF Ahead
<1>3. /\ store[u] \in {"EMPTY", "USING"} /\ dirty[u] = "FALSE"
      /\ \A o \in Occupied(u) : o + LenOf(<<u, o>>) <= gc.pos
      /\ store[u] = "USING" /\ Occupied(u) = {} => HdrSize <= gc.pos
  BY <1>2 DEF Takes
<1>4. FreeOffset(u) <= gc.pos /\ Remain(u) >= SectorSize - gc.pos /\ Remain(u) \in Int
  BY <1>1, <1>3, RoomBelow DEF IInv
<1>5. gc.pos + LenOf(old) + Threshold < SectorSize
  BY <1>1 DEF Powered, LayoutOK, Spaced
<1>6. Remain(u) > LenOf(old) + Threshold
  BY <1>1, <1>4, <1>5, NodeFacts, FdbAssumption DEF IInv
<1>7. u \in Roomy("USING", LenOf(old)) \/ u \in Roomy("EMPTY", LenOf(old))
  BY <1>3, <1>6 DEF Roomy
<1>8. MayOpenEmpty
  BY <1>1 DEF MayOpenEmpty
<1> QED
  BY <1>4, <1>7, <1>8 DEF Candidates

LEMMA MoveAllocPowered ==
    ASSUME IInv, Powered, MoveAlloc
    PROVE  Powered'
<1>1. pc = "move_alloc" /\ UNCHANGED <<store, dirty, flash, lastDel, cache, call, old, gc>>
  BY DEF MoveAlloc, flashVars, Powered, ControlOK
<1>2. /\ Emptying /\ old \in NodeAddrs /\ gc.sec \in Sectors /\ gc.pos \in Nat
      /\ old = <<gc.sec, gc.pos>> /\ gc.pos \in Occupied(gc.sec)
      /\ dirty[gc.sec] = "GC" /\ gcRequest
      /\ ret.gc \in {"set_retry", "load_gc"} /\ ret.move = "gc_kv" /\ Served
      /\ lastDel <=> Prepared
  BY <1>1, MovingFacts DEF MoveLabels
<1>3. KeyOf(old) \in Keys /\ NodeAt(old).val \in Vals /\ LenOf(old) \in Nat \ {0}
      /\ LenOf(old) = KvLen[NodeAt(old).val] /\ KeyOf(old) = NodeAt(old).key
  BY <1>2, NodeFacts DEF IInv, LenOf, KeyOf
<1>4. PICK u \in Sectors \ {gc.sec} : Takes(u)
  BY <1>2 DEF Powered, RoomOK
<1>5. Candidates(KvLen[NodeAt(old).val]) # {} /\ FreeOffset(u) <= gc.pos
  BY <1>1, <1>3, <1>4, MoveHasRoom
<1>6. /\ new' = NewNode(FirstSector(Candidates(KvLen[NodeAt(old).val])), KeyOf(old), NodeAt(old).val)
      /\ ret' = [ret EXCEPT !.create = "move_delete"]
      /\ pc' = "sector" /\ gcRequest'
  BY <1>1, <1>2, <1>3, <1>5 DEF MoveAlloc
<1>7. ret'.create = "move_delete" /\ ret'.gc = ret.gc /\ ret'.move = "gc_kv"
  BY <1>2, <1>6 DEF IInv, TypeOK
<1>8. PICK n : n = new'
  OBVIOUS
<1>9. /\ n.sec \in Sectors /\ n.key = KeyOf(old) /\ n.val = NodeAt(old).val
      /\ n.remain > LenOf(old) + Threshold
      /\ n.off + LenOf(old) + Threshold < SectorSize
      /\ \A o \in Occupied(n.sec) : o + LenOf(<<n.sec, o>>) <= n.off
      /\ \/ n.sec \in Roomy("USING", LenOf(old))
         \/ n.sec \in Roomy("EMPTY", LenOf(old))
  <2>1. PICK k \in Keys, v \in Vals : k = KeyOf(old) /\ v = NodeAt(old).val
    BY <1>3
  <2>2. Candidates(KvLen[v]) # {} /\ n = NewNode(FirstSector(Candidates(KvLen[v])), k, v)
    BY <1>5, <1>6, <1>8, <2>1
  <2>3. TypeOK /\ BlankOK /\ Spaced
    BY DEF IInv, Powered, LayoutOK
  <2>4. /\ n.sec \in Sectors /\ n.key = k /\ n.val = v
        /\ n.remain > KvLen[v] + Threshold
        /\ n.off + KvLen[v] + Threshold < SectorSize
        /\ \A o \in Occupied(n.sec) : o + LenOf(<<n.sec, o>>) <= n.off
        /\ \/ n.sec \in Roomy("USING", KvLen[v])
           \/ n.sec \in Roomy("EMPTY", KvLen[v]) /\ MayOpenEmpty
    BY <2>2, <2>3, PlaceFits
  <2> QED
    BY <1>3, <2>1, <2>4
<1>10. store[n.sec] \in {"EMPTY", "USING"} /\ n.sec # gc.sec
  BY <1>2, <1>9 DEF Roomy
<1>11. n.off = FreeOffset(n.sec)
  BY <1>6, <1>8 DEF NewNode
<1>12. /\ Emptying' /\ ~Holding' /\ Copying' /\ Prepared /\ Prepared' /\ ~Writing /\ ~Writing'
       /\ ~Replaced /\ ~Replaced' /\ pc' \in Creating
       /\ pc' \notin MoveLabels
  BY <1>1, <1>2, <1>6, <1>7 DEF Emptying, Holding, Copying, Prepared, Writing, Replaced, Creating,
                          MoveLabels
<1>13. SameFlash /\ SameNodes /\ FewerNodes
  BY <1>1, FlashKept, SameNodesFewer DEF SameFlash
<1>14. OneWritten' /\ Spaced' /\ SectorsOK'
  BY <1>1, <1>12, <1>13, OneWrittenKept, SpacedKept, SectorsKept
     DEF Powered, KeysOK, LayoutOK, SameFlash
<1>15. StatusOK' /\ CacheLeads'
  <2>1. Unwalked => Unwalked'
    BY <1>2, <1>7, <1>12, EmptyingPhase, EmptyingPhaseNext
  <2> QED
    BY <1>1, <1>12, <1>13, <2>1, StatusKept, CacheLeadsKept DEF Powered, LeadsOK, CacheStep
<1>16. KeyOf(old)' = KeyOf(old) /\ NodeAt(old)'.val = NodeAt(old).val
  BY <1>1 DEF KeyOf, NodeAt
<1>17. LinkOK'
  BY <1>1, <1>6, <1>8, <1>9, <1>10, <1>12, <1>16 DEF LinkOK
<1>18. KeysOK'
  <2>1. \A a \in NodeAddrs : StatusOf(a) = "WRITE" => KeyOf(a) # KeyOf(old)
    BY <1>12 DEF Powered, KeysOK
  <2>2. \A a \in NodeAddrs' : StatusOf(a)' = "WRITE" => KeyOf(a)' # KeyOf(old)
    BY <1>13, <2>1 DEF SameFlash, SameNodes
  <2> QED
    BY <1>8, <1>9, <1>12, <1>14, <1>16, <2>2 DEF KeysOK
<1>19. LayoutOK'
  <2>1. Occupied(new.sec)' = Occupied(n.sec)
    BY <1>1, <1>8 DEF Occupied
  <2>2. \A o : LenOf(<<new.sec, o>>)' = LenOf(<<n.sec, o>>)
    BY <1>1, <1>8 DEF LenOf, NodeAt
  <2>3. Fits'
    BY <1>1, <1>3, <1>8, <1>9, <1>10, <2>1, <2>2 DEF Fits
  <2> QED
    BY <1>14, <2>3 DEF LayoutOK
<1>20. Occupied(gc.sec)' = Occupied(gc.sec) /\ \A o : StatusOf(<<gc.sec, o>>)' = StatusOf(<<gc.sec, o>>)
  BY <1>1 DEF Occupied, StatusOf, NodeAt
<1>21. EmptyingOK' /\ Served'
  BY <1>1, <1>2, <1>6, <1>7, <1>20 DEF Powered, EmptyingOK, Garbage, Served
<1>22. RoomOK'
  <2>1. \A p : p \in Ahead' => p \in Ahead /\ p \in Occupied(gc.sec) /\ p > gc.pos
    BY <1>1, <1>6, <1>20 DEF Ahead
  <2>2. ASSUME u = n.sec, NEW p \in Ahead'
        PROVE  n.off + LenOf(old) <= p
    <3>1. p \in Occupied(gc.sec) /\ p > gc.pos
      BY <2>1, <2>2
    <3>2. gc.pos + LenOf(old) <= p
      BY <1>2, <3>1 DEF Powered, LayoutOK, Spaced
    <3>3. n.off <= gc.pos
      BY <1>5, <1>11, <2>2
    <3>4. p \in Nat /\ n.off \in Int
      <4>1. p \in Nat
        BY <1>2, <3>1, OccupiedFacts DEF IInv
      <4>2. n \in NewNodes
        BY <1>3, <1>5, <1>6, <1>8, NewNodeType DEF IInv
      <4> QED
        BY <4>1, <4>2 DEF NewNodes, Offsets
    <3> QED
      BY <1>2, <1>3, <3>2, <3>3, <3>4
  <2>3. Occupied(u)' = Occupied(u) /\ \A o : LenOf(<<u, o>>)' = LenOf(<<u, o>>)
    BY <1>1 DEF Occupied, LenOf, NodeAt
  <2>4. Takes(u)'
    BY <1>1, <1>3, <1>4, <1>8, <1>9, <2>1, <2>2, <2>3 DEF Takes
  <2> QED
    BY <1>1, <1>4, <2>4 DEF RoomOK
<1> QED
  BY <1>1, <1>2, <1>6, <1>7, <1>12, <1>14, <1>15, <1>17, <1>18, <1>19, <1>21, <1>22, EmptyingPowered

-----------------------------------------------------------------------------
(* The garbage collection.                                                 *)

\* What a collection knows at each of its steps.
LEMMA GcFacts ==
    ASSUME IInv, Powered, pc \in GcLabels
    PROVE  /\ gcRequest /\ ~lastDel /\ ~Prepared /\ ~Writing /\ ~Replaced
           /\ ret.gc \in {"set_retry", "load_gc"} /\ Served /\ (Unwalked <=> ret.gc = "load_gc")
           /\ gc \in Collections /\ gc.sec \in Sectors /\ gc.from \in Sectors
           /\ gc.pos \in Offsets \cup {-1}
<1>1. ~Prepared /\ ~Writing /\ ~Replaced /\ Collecting /\ (Unwalked <=> ret.gc = "load_gc")
  BY DEF Prepared, Writing, Replaced, Unwalked, Rerun, Loading, Resetting, Collecting, GcLabels,
         Creating, MoveLabels
<1>2. gc \in Collections
  BY <1>1 DEF IInv, RunningOK, TypeOK
<1>3. gc.sec \in Sectors /\ gc.from \in Sectors /\ gc.pos \in Offsets \cup {-1}
  BY <1>2 DEF Collections
<1>4. Served
  BY DEF Powered, CallOK, Served, Pursuing, Rerun
<1> QED
  BY <1>1, <1>2, <1>3, <1>4 DEF Powered, ControlOK

\* The empty sector in reserve has room for the whole sector to be collected.
LEMMA GcMarkPowered ==
    ASSUME IInv, Powered, GcMark
    PROVE  Powered'
<1> DEFINE s == CHOOSE t \in GcAhead : \A u \in GcAhead :
                    Distance(gc.from, t) <= Distance(gc.from, u)
<1>1. /\ pc = "gc_sector" /\ pc' = "gc_kv" /\ GcAhead # {}
      /\ dirty' = [dirty EXCEPT ![s] = "GC"]
      /\ gc' = [gc EXCEPT !.sec = s, !.pos = -1, !.done = Distance(gc.from, s) + 1]
      /\ UNCHANGED <<store, flash, gcRequest, lastDel, cache, call, ret, new, old>>
  BY DEF GcMark, dbVars
<1>2. /\ gcRequest /\ ~lastDel /\ ~Prepared /\ ~Writing /\ ~Replaced
      /\ ret.gc \in {"set_retry", "load_gc"} /\ Served /\ (Unwalked <=> ret.gc = "load_gc")
      /\ gc \in Collections /\ gc.from \in Sectors
  BY <1>1, GcFacts DEF GcLabels
<1>3. s \in Sectors /\ dirty[s] \in {"TRUE", "GC"}
  <2> DEFINE f == [t \in GcAhead |-> Distance(gc.from, t)]
  <2>1. \A t \in GcAhead : t \in Sectors /\ dirty[t] \in {"TRUE", "GC"}
    BY DEF GcAhead
  <2>2. \A t \in GcAhead : f[t] \in Nat
    BY <1>2, <2>1, DistanceType, FdbAssumption
  <2>3. \E t \in GcAhead : \A u \in GcAhead : f[t] <= f[u]
    BY <1>1, <2>2, MinimumExists
  <2>4. \E t \in GcAhead : \A u \in GcAhead : Distance(gc.from, t) <= Distance(gc.from, u)
    BY <2>3
  <2> QED
    BY <2>1, <2>4
<1>4. PICK g : g = s
  OBVIOUS
<1> HIDE DEF s
<1>5. gc'.sec = g /\ gc'.pos = -1
  BY <1>1, <1>2, <1>4 DEF Collections
<1>6. g \in Sectors /\ \A t \in Sectors : dirty'[t] = IF t = g THEN "GC" ELSE dirty[t]
  BY <1>1, <1>3, <1>4 DEF IInv, TypeOK
<1>7. store[g] # "EMPTY"
  BY <1>3, <1>4 DEF Powered, SectorsOK
<1>8. /\ Emptying' /\ ~Holding' /\ ~Copying' /\ ~Prepared' /\ ~Writing' /\ ~Replaced'
      /\ ~Reserved' /\ pc' \notin Creating /\ pc' \notin MoveLabels
  BY <1>1 DEF Emptying, Holding, Copying, Prepared, Writing, Replaced, Reserved, Creating, MoveLabels
<1>9. SameFlash /\ SameNodes /\ FewerNodes
  BY <1>1, FlashKept, SameNodesFewer DEF SameFlash
<1>10. OneWritten' /\ Spaced' /\ SectorsOK'
  BY <1>1, <1>6, <1>7, <1>9, OneWrittenKept, SpacedKept, SectorsKept
     DEF Powered, KeysOK, LayoutOK, SameFlash
<1>11. StatusOK' /\ CacheLeads'
  BY <1>1, <1>2, <1>8, <1>9, EmptyingPhaseNext, StatusKept, CacheLeadsKept DEF Powered, LeadsOK, CacheStep
<1>12. LinkOK' /\ KeysOK' /\ LayoutOK'
  BY <1>1, <1>8, <1>10 DEF LinkOK, KeysOK, LayoutOK
<1>13. EmptyingOK'
  <2>1. \A o \in Occupied(gc.sec)' : o \in Nat
    BY DEF Occupied, Offsets
  <2>2. dirty'[gc'.sec] = "GC"
    BY <1>5, <1>6
  <2>3. \A o \in Occupied(gc.sec)' : ~(o < gc'.pos) /\ o # gc'.pos
    BY <1>5, <2>1
  <2> QED
    BY <1>1, <2>2, <2>3 DEF EmptyingOK
<1>14. RoomOK'
  <2>1. PICK u \in Sectors : store[u] = "EMPTY"
    <3>1. ~Loading /\ ~Resetting /\ ~Emptying
      BY <1>1, PlainPhase DEF Plain
    <3> QED
      BY <1>1, <3>1 DEF Powered, ReserveOK, EmptySectors
  <2>2. u # g /\ dirty[u] = "FALSE" /\ Occupied(u) = {}
    BY <1>7, <2>1 DEF Powered, SectorsOK, IInv, BlankOK, Occupied
  <2>3. Occupied(u)' = Occupied(u)
    BY <1>1 DEF Occupied
  <2>4. Takes(u)'
    BY <1>1, <1>6, <2>1, <2>2, <2>3 DEF Takes
  <2> QED
    BY <1>5, <2>2, <2>4 DEF RoomOK
<1>15. Served'
  BY <1>1, <1>2 DEF Served
<1> QED
  BY <1>1, <1>2, <1>8, <1>10, <1>11, <1>12, <1>13, <1>14, <1>15, EmptyingPowered

LEMMA LeastLeast ==
    ASSUME NEW O, O \subseteq Offsets, O # {}
    PROVE  Least(O) \in O /\ \A p \in O : Least(O) <= p
<1>1. O \subseteq Nat
  BY DEF Offsets
<1>2. \E o \in O : \A p \in O : o <= p
  BY <1>1, LeastExists
<1> QED
  BY <1>2 DEF Least

\* The nodes the collection does not stop at are not worth keeping.
LEMMA PassedGarbage ==
    ASSUME IInv, Powered, pc = "gc_kv", NEW o \in Occupied(gc.sec), o \notin Movable
    PROVE  Garbage(<<gc.sec, o>>)
<1>1. Emptying /\ gc.sec \in Sectors /\ gc.pos \in Offsets \cup {-1} /\ ~Prepared /\ ~Writing
  BY GcFacts DEF Emptying, GcLabels
<1>2. o \in Offsets /\ o \in Int /\ gc.pos \in Int /\ <<gc.sec, o>> \in NodeAddrs
  BY <1>1, OccupiedFacts DEF IInv, Offsets
<1>3. CASE o <= gc.pos
  <2>1. o < gc.pos \/ o = gc.pos
    BY <1>2, <1>3
  <2> QED
    BY <1>1, <2>1 DEF Powered, EmptyingOK
<1>4. CASE o > gc.pos
  <2>1. o \in After(gc.sec, gc.pos)
    BY <1>4 DEF After
  <2>2. StatusOf(<<gc.sec, o>>) # "PRE_DELETE"
    BY <1>1, <1>2 DEF Powered, StatusOK
  <2>3. StatusOf(<<gc.sec, o>>) = "WRITE" => NodeAt(<<gc.sec, o>>).crc
    BY <1>2 DEF IInv, CommittedIsComplete, StatusOf
  <2>4. StatusOf(<<gc.sec, o>>) # "WRITE"
    BY <2>1, <2>3 DEF Movable, StatusOf, NodeAt
  <2> QED
    BY <2>2, <2>4 DEF Garbage
<1> QED
  BY <1>2, <1>3, <1>4

LEMMA GcMovePowered ==
    ASSUME IInv, Powered, GcMove
    PROVE  Powered'
<1>1. /\ pc = "gc_kv" /\ Movable # {} /\ old' = <<gc.sec, Least(Movable)>>
      /\ gc' = [gc EXCEPT !.pos = Least(Movable)]
      /\ pc' = IF NodeAt(old').status = "WRITE" THEN "move" ELSE "move_again"
      /\ ret' = [ret EXCEPT !.move = "gc_kv"]
      /\ UNCHANGED <<store, dirty, flash, gcRequest, lastDel, cache, call, new>>
  BY DEF GcMove, flashVars, dbVars
<1>2. /\ gcRequest /\ ~lastDel /\ ~Prepared /\ ~Writing /\ ~Replaced
      /\ ret.gc \in {"set_retry", "load_gc"} /\ Served /\ (Unwalked <=> ret.gc = "load_gc")
      /\ gc \in Collections /\ gc.sec \in Sectors
      /\ gc.pos \in Offsets \cup {-1}
  BY <1>1, GcFacts DEF GcLabels
<1>3. PICK l : l = Least(Movable)
  OBVIOUS
<1>4. /\ l \in Movable /\ \A p \in Movable : l <= p
      /\ l \in Occupied(gc.sec) /\ l > gc.pos /\ l \in Offsets
  <2>1. Movable \subseteq Offsets
    BY DEF Movable, After, Occupied
  <2>2. l \in Movable /\ \A p \in Movable : l <= p
    BY <1>1, <1>3, <2>1, LeastLeast
  <2> QED
    BY <2>1, <2>2 DEF Movable, After
<1>5. gc'.sec = gc.sec /\ gc'.pos = l
  BY <1>1, <1>2, <1>3 DEF Collections
<1>6. <<gc.sec, l>> \in NodeAddrs
  BY <1>2, <1>4, OccupiedFacts DEF IInv
<1>7. StatusOf(<<gc.sec, l>>) = "WRITE"
  <2>1. StatusOf(<<gc.sec, l>>) \in {"WRITE", "PRE_DELETE"}
    BY <1>4 DEF Movable, StatusOf, NodeAt
  <2> QED
    BY <1>2, <1>6, <2>1 DEF Powered, StatusOK
<1>8. pc' = "move"
  BY <1>1, <1>3, <1>7 DEF StatusOf
<1>9. ret'.gc = ret.gc /\ ret'.move = "gc_kv"
  BY <1>1, <1>2 DEF IInv, TypeOK
<1>10. /\ Emptying /\ Emptying' /\ ~Holding' /\ ~Copying' /\ ~Prepared' /\ ~Writing' /\ ~Replaced'
       /\ ~Reserved' /\ pc' \notin Creating
  BY <1>1, <1>8 DEF Emptying, Holding, Copying, Prepared, Writing, Replaced, Reserved, Creating,
                    MoveLabels
<1>11. SameFlash /\ SameNodes /\ FewerNodes
  BY <1>1, FlashKept, SameNodesFewer DEF SameFlash
<1>12. OneWritten' /\ Spaced' /\ SectorsOK'
  BY <1>1, <1>11, OneWrittenKept, SpacedKept, SectorsKept
     DEF Powered, KeysOK, LayoutOK, SameFlash
<1>13. StatusOK' /\ CacheLeads'
  BY <1>1, <1>2, <1>9, <1>10, <1>11, EmptyingPhaseNext, StatusKept, CacheLeadsKept DEF Powered, LeadsOK, CacheStep
<1>14. LinkOK' /\ KeysOK' /\ LayoutOK'
  BY <1>8, <1>10, <1>12 DEF LinkOK, KeysOK, LayoutOK
<1>15. PICK g \in Sectors : g = gc.sec
  BY <1>2
<1>16. Occupied(gc.sec)' = Occupied(g)
  BY <1>1, <1>5, <1>15 DEF Occupied
<1>17. EmptyingOK'
  <2>1. ASSUME NEW o \in Occupied(g), o < l
        PROVE  Garbage(<<gc.sec, o>>)'
    <3>1. o \notin Movable
      <4>1. o \in Int /\ l \in Int
        BY <1>4 DEF Occupied, Offsets
      <4> QED
        BY <1>4, <2>1, <4>1
    <3>2. Garbage(<<g, o>>)
      BY <1>1, <1>15, <3>1, PassedGarbage
    <3>3. StatusOf(<<gc.sec, o>>)' = StatusOf(<<g, o>>)
      BY <1>1, <1>5, <1>15 DEF StatusOf, NodeAt
    <3> QED
      BY <3>2, <3>3 DEF Garbage
  <2>2. dirty'[gc'.sec] = "GC"
    BY <1>1, <1>5, <1>10 DEF Powered, EmptyingOK
  <2>3. old' = <<gc'.sec, gc'.pos>>
    BY <1>1, <1>3, <1>5
  <2>4. StatusOf(old)' = "WRITE"
    <3>1. StatusOf(old)' = StatusOf(<<gc.sec, l>>)
      BY <1>1, <1>3 DEF StatusOf, NodeAt
    <3> QED
      BY <1>7, <3>1
  <2> QED
    BY <1>5, <1>8, <1>16, <2>1, <2>2, <2>3, <2>4 DEF EmptyingOK
<1>18. RoomOK'
  <2>1. PICK u \in Sectors \ {gc.sec} : Takes(u)
    BY <1>10 DEF Powered, RoomOK
  <2>2. ASSUME NEW p \in Ahead'
        PROVE  p \in Ahead
    <3>1. p \in Occupied(g) /\ (p > l \/ p = l)
      BY <1>5, <1>16, <2>2 DEF Ahead
    <3>2. p \in Int /\ l \in Int /\ gc.pos \in Int
      BY <1>2, <1>4, <3>1 DEF Occupied, Offsets
    <3>3. p > gc.pos
      BY <1>4, <3>1, <3>2
    <3> QED
      BY <1>15, <3>1, <3>3 DEF Ahead
  <2>3. Occupied(u)' = Occupied(u) /\ \A o : LenOf(<<u, o>>)' = LenOf(<<u, o>>)
    BY <1>1 DEF Occupied, LenOf, NodeAt
  <2>4. Takes(u)'
    BY <1>1, <1>8, <2>1, <2>2, <2>3 DEF Takes
  <2> QED
    BY <1>5, <2>1, <2>4 DEF RoomOK
<1>19. Served'
  BY <1>1, <1>2, <1>9 DEF Served
<1> QED
  BY <1>1, <1>2, <1>8, <1>9, <1>10, <1>12, <1>13, <1>14, <1>17, <1>18, <1>19, EmptyingPowered

\* The collected sector holds no node worth keeping when it is erased.
LEMMA ErasedGarbage ==
    ASSUME IInv, Powered, GcErase
    PROVE  \A o \in Occupied(gc.sec) : Garbage(<<gc.sec, o>>)
  BY PassedGarbage DEF GcErase

LEMMA GcErasePowered ==
    ASSUME IInv, Powered, GcErase
    PROVE  Powered'
<1>1. /\ pc = "gc_kv" /\ pc' = "gc_format" /\ Erase(gc.sec)
      /\ UNCHANGED <<gcRequest, lastDel, cache, call, ret, new, old, gc>>
  BY DEF GcErase, dbVars
<1>2. /\ gcRequest /\ ~lastDel /\ ~Prepared /\ ~Writing /\ ~Replaced
      /\ ret.gc \in {"set_retry", "load_gc"} /\ Served /\ (Unwalked <=> ret.gc = "load_gc")
      /\ gc.sec \in Sectors
  BY <1>1, GcFacts DEF GcLabels
<1>3. /\ ~Loading' /\ ~Resetting' /\ ~Emptying' /\ ~Holding' /\ ~Copying' /\ ~Prepared'
      /\ ~Writing' /\ ~Replaced' /\ ~Reserved' /\ pc' \notin Creating /\ pc' \notin MoveLabels
      /\ (Unwalked' <=> Unwalked) /\ (Rerun' => ret.gc = "load_gc")
  BY <1>1, <1>2 DEF Loading, Resetting, Emptying, Holding, Copying, Prepared, Writing, Replaced,
              Reserved, Creating, MoveLabels, GcLabels, Unwalked, Rerun
<1>4. StatusOK' /\ OneWritten' /\ Spaced' /\ SectorsOK'
  BY <1>1, <1>2, <1>3, EraseKeeps DEF IInv, Powered, KeysOK, LayoutOK
<1>5. /\ NodeAddrs' = {a \in NodeAddrs : a[1] # gc.sec}
      /\ \A a \in NodeAddrs' : NodeAt(a)' = NodeAt(a)
  BY <1>1, <1>2, EraseNodes DEF IInv
<1>6. CacheLeads'
  <2> SUFFICES ASSUME NEW k \in Keys, NEW b, b = cache'[k], b # None
               PROVE  /\ b \in NodeAddrs' /\ KeyOf(b)' = k
                      /\ StatusOf(b)' = "WRITE" \/ StatusOf(b)' = "PRE_DELETE"
    BY <1>3 DEF CacheLeads
  <2>1. b \in NodeAddrs /\ KeyOf(b) = k /\ StatusOf(b) \in {"WRITE", "PRE_DELETE"}
    BY <1>1 DEF Powered, LeadsOK, CacheLeads
  <2>2. b[1] # gc.sec
    <3>1. b = <<b[1], b[2]>> /\ b[2] \in Occupied(b[1])
      BY <2>1, NodeFacts DEF IInv
    <3>2. ASSUME b[1] = gc.sec
          PROVE  FALSE
      <4>1. b[2] \in Occupied(gc.sec) /\ b = <<gc.sec, b[2]>>
        BY <3>1, <3>2
      <4>2. Garbage(b)
        BY <4>1, ErasedGarbage
      <4> QED
        BY <2>1, <4>2 DEF Garbage
    <3> QED
      BY <3>2
  <2> QED
    BY <1>5, <2>1, <2>2 DEF KeyOf, StatusOf
<1>7. ControlOK' /\ CallOK' /\ LinkOK'
  BY <1>1, <1>2, <1>3 DEF ControlOK, CallOK, Served, Pursuing, LinkOK, GcLabels
<1>8. KeysOK' /\ LeadsOK' /\ LayoutOK'
  BY <1>3, <1>4, <1>6 DEF KeysOK, LeadsOK, LayoutOK
<1>9. LoadingOK' /\ ReserveOK' /\ EmptyingOK' /\ RoomOK'
  BY <1>1, <1>3 DEF LoadingOK, ReserveOK, EmptyingOK, RoomOK
<1> QED
  BY <1>4, <1>7, <1>8, <1>9 DEF Powered

LEMMA GcFormatPowered ==
    ASSUME IInv, Powered, GcFormat
    PROVE  Powered'
<1>1. /\ pc = "gc_format" /\ pc' = "gc_sector" /\ Format(gc.sec)
      /\ UNCHANGED <<flash, gcRequest, lastDel, cache, call, ret, new, old>>
  BY DEF GcFormat
<1>2. /\ gcRequest /\ ~lastDel /\ ~Prepared /\ ~Writing /\ ~Replaced
      /\ ret.gc \in {"set_retry", "load_gc"} /\ Served /\ (Unwalked <=> ret.gc = "load_gc")
      /\ gc.sec \in Sectors
  BY <1>1, GcFacts DEF GcLabels
<1>3. Plain' /\ ~Prepared' /\ ~Writing' /\ ~Replaced'
  BY <1>1, PlainPhaseNext DEF Plain
<1>4. SectorsOK' /\ store'[gc.sec] = "EMPTY"
  BY <1>1, <1>2, FormatKeeps DEF IInv, Powered
<1>5. EmptySectors' # {}
  BY <1>2, <1>4 DEF EmptySectors
<1>6. SameFlash /\ SameNodes /\ FewerNodes
  BY <1>1, FlashKept, SameNodesFewer DEF SameFlash
<1>7. OneWritten' /\ Spaced'
  BY <1>6, OneWrittenKept, SpacedKept DEF Powered, KeysOK, LayoutOK, SameFlash
<1>8. StatusOK' /\ CacheLeads'
  <2>1. Unwalked => Unwalked'
    BY <1>1, <1>2 DEF Unwalked, Rerun, GcLabels
  <2> QED
    BY <1>1, <1>2, <1>3, <1>6, <2>1, StatusKept, CacheLeadsKept DEF Powered, LeadsOK, CacheStep
<1>9. ControlOK' /\ CallOK'
  BY <1>1, <1>2, <1>3, PlainControlNext, PlainCallNext DEF GcLabels, Served
<1> QED
  BY <1>1, <1>3, <1>4, <1>5, <1>7, <1>8, <1>9, PlainPowered

-----------------------------------------------------------------------------
(* The invariant.                                                          *)

LEMMA InitPowered == Init => Powered
<1> SUFFICES ASSUME Init PROVE Powered
  OBVIOUS
<1>1. /\ pc = "off" /\ ~gcRequest /\ ~lastDel /\ call = None
      /\ \A k \in Keys : cache[k] = None
      /\ \A s \in Sectors : store[s] = "UNUSED" /\ dirty[s] = "UNUSED"
      /\ \A s \in Sectors, o \in Offsets : flash[s][o] = None
  BY DEF Init
<1>2. Loading
  BY <1>1 DEF Loading
<1>3. /\ ~Resetting /\ ~Emptying /\ ~Holding /\ ~Copying /\ ~Prepared /\ ~Replaced /\ ~Reserved
      /\ ~Pursuing /\ ~Rerun /\ pc \notin Creating /\ pc \notin MoveLabels /\ pc \notin GcLabels
  BY <1>1 DEF Resetting, Emptying, Holding, Copying, Prepared, Replaced, Reserved, Pursuing, Rerun,
              Creating, MoveLabels, GcLabels
<1>4. (\A s \in Sectors : Occupied(s) = {}) /\ NodeAddrs = {}
  BY <1>1 DEF Occupied, NodeAddrs, NodeAt, Addrs
<1>5. LoadingOK
  BY <1>1, <1>2, <1>3, <1>4 DEF LoadingOK
<1>6. ControlOK /\ CallOK /\ LinkOK
  BY <1>1, <1>2, <1>3 DEF ControlOK, CallOK, LinkOK
<1>7. StatusOK /\ KeysOK /\ LeadsOK
  BY <1>1, <1>3, <1>4 DEF StatusOK, KeysOK, OneWritten, LeadsOK, CacheLeads
<1>8. LayoutOK /\ SectorsOK
  BY <1>1, <1>3, <1>4 DEF LayoutOK, Spaced, SectorsOK
<1>9. ReserveOK /\ EmptyingOK /\ RoomOK
  BY <1>2, <1>3 DEF ReserveOK, EmptyingOK, RoomOK
<1> QED
  BY <1>5, <1>6, <1>7, <1>8, <1>9 DEF Powered

LEMMA StutterPowered == Powered /\ UNCHANGED vars => Powered'
<1> SUFFICES ASSUME Powered, UNCHANGED vars PROVE Powered'
  OBVIOUS
<1>1. UNCHANGED <<store, dirty, flash, oldest, gcRequest, lastDel, cache, call, pc, ret, new, old, gc, scan>>
  BY DEF vars, flashVars, dbVars, ctlVars
<1>2. /\ (Resetting' <=> Resetting) /\ (Holding' <=> Holding) /\ (Copying' <=> Copying)
      /\ (Prepared' <=> Prepared) /\ (Replaced' <=> Replaced) /\ (Reserved' <=> Reserved)
  BY <1>1 DEF Resetting, Holding, Copying, Prepared, Replaced, Reserved
<1>3. /\ (Loading' <=> Loading) /\ (Emptying' <=> Emptying)
  BY <1>1, <1>2 DEF Loading, Emptying
<1>4. (Pursuing' <=> Pursuing) /\ (Rerun' <=> Rerun)
  BY <1>1, <1>2, <1>3 DEF Pursuing, Rerun
<1>5. NodeAddrs' = NodeAddrs /\ \A a : NodeAt(a)' = NodeAt(a)
  BY <1>1 DEF NodeAddrs, NodeAt
<1>6. \A a : /\ StatusOf(a)' = StatusOf(a) /\ KeyOf(a)' = KeyOf(a) /\ LenOf(a)' = LenOf(a)
            /\ (Begun(a)' <=> Begun(a)) /\ (Left(a)' <=> Left(a)) /\ (Garbage(a)' <=> Garbage(a))
  BY <1>1, <1>5 DEF StatusOf, KeyOf, LenOf, Begun, Left, Garbage
<1>7. \A s : Occupied(s)' = Occupied(s)
  BY <1>1 DEF Occupied
<1>8. /\ NodeAt(old)' = NodeAt(old) /\ KeyOf(old)' = KeyOf(old) /\ StatusOf(old)' = StatusOf(old)
      /\ NodeAt(<<new.sec, new.off>>)' = NodeAt(<<new.sec, new.off>>)
      /\ KeyOf(<<new.sec, new.off>>)' = KeyOf(<<new.sec, new.off>>)
      /\ Occupied(new.sec)' = Occupied(new.sec) /\ Occupied(gc.sec)' = Occupied(gc.sec)
      /\ \A o : Garbage(<<gc.sec, o>>)' <=> Garbage(<<gc.sec, o>>)
      /\ \A o : LenOf(<<new.sec, o>>)' = LenOf(<<new.sec, o>>)
      /\ Ahead' = Ahead
  BY <1>1 DEF NodeAt, KeyOf, StatusOf, Garbage, LenOf, Occupied, Ahead
<1>9. ControlOK' /\ CallOK' /\ LinkOK'
  BY <1>1, <1>2, <1>3, <1>4, <1>5, <1>8 DEF Powered, ControlOK, CallOK, LinkOK
<1>10. StatusOK' /\ KeysOK' /\ LeadsOK'
  <2>1. Unwalked' <=> Unwalked
    BY <1>1, <1>3, <1>4 DEF Unwalked
  <2>2. StatusOK'
    BY <1>1, <1>2, <1>5, <1>6, <2>1 DEF Powered, StatusOK
  <2> QED
    BY <1>1, <1>2, <1>5, <1>6, <1>8, <2>2 DEF Powered, KeysOK, OneWritten, LeadsOK, CacheLeads
<1>11. LayoutOK' /\ SectorsOK'
  BY <1>1, <1>2, <1>6, <1>7, <1>8 DEF Powered, LayoutOK, Spaced, Fits, SectorsOK
<1>12. LoadingOK' /\ ReserveOK'
  BY <1>1, <1>2, <1>3, <1>5 DEF Powered, LoadingOK, ReserveOK, EmptySectors
<1>13. EmptyingOK'
  BY <1>1, <1>3, <1>8 DEF Powered, EmptyingOK
<1>14. RoomOK'
  BY <1>1, <1>3, <1>6, <1>7, <1>8 DEF Powered, RoomOK, Takes
<1> QED
  BY <1>9, <1>10, <1>11, <1>12, <1>13, <1>14 DEF Powered

\* Only a loss of power counts as one.
LEMMA CrashesKept ==
    ASSUME Work \/ Calling
    PROVE  crashes' = crashes
<1>1. CASE Work
  BY <1>1 DEF Work, MarkDirty, WriteSector, WriteHeader, WriteData, WriteCommit, MovePrepare,
     MoveAlloc, MoveDelete, GcBegin, GcMark, GcEnd, GcMove, GcErase, GcFormat, SetAlloc,
     SetPrepare, SetFresh, SetDelete, SetEnd, DelFound, DelMissing, Return, ResetErase,
     ResetFormat, Boot, LoadHeader, LoadHeadersEnd, LoadCheck, LoadGc, LoadStart, LoadKv,
     LoadKvEnd, LoadEnd
<1>2. CASE Calling
  BY <1>2 DEF Calling, Set, Del, Read, Reset
<1> QED
  BY <1>1, <1>2

LEMMA WorkPowered ==
    ASSUME IInv, IInv', LeftInv, Powered, Work
    PROVE  Powered'
  BY MarkDirtyPowered, WriteSectorPowered, WriteHeaderPowered, WriteDataPowered,
     WriteCommitPowered, MovePreparePowered, MoveAllocPowered, MoveDeletePowered,
     GcBeginPowered, GcMarkPowered, GcEndPowered, GcMovePowered, GcErasePowered,
     GcFormatPowered, SetAllocPowered, SetPreparePowered, SetFreshPowered,
     SetDeletePowered, SetEndPowered, DelFoundPowered, DelMissingPowered,
     ReturnPowered, ResetErasePowered, ResetFormatPowered, BootPowered,
     LoadHeaderPowered, LoadHeadersEndPowered, LoadCheckPowered, LoadGcPowered,
     LoadStartPowered, LoadKvPowered, LoadKvEndPowered, LoadEndPowered
     DEF Work

\* The database loses its power while it is settled: at most the node of a set is
\* left half-written.
LEMMA CrashPowered ==
    ASSUME IInv, Powered, Settled, Crash
    PROVE  Powered'
<1>1. /\ pc' = "off" /\ ~gcRequest' /\ ~lastDel' /\ call' = None /\ \A k \in Keys : cache'[k] = None
      /\ UNCHANGED <<store, dirty, flash>>
  BY DEF Crash, flashVars
<1>2. /\ Loading' /\ ~Resetting' /\ Unwalked'
  BY <1>1 DEF Loading, Resetting, Unwalked
<1>3. ~Prepared' /\ ~Writing' /\ \A a : ~Begun(a)'
  BY <1>1, <1>2, AwayPhaseNext DEF Begun
<1>4. SameFlash /\ SameNodes /\ FewerNodes
  BY <1>1, FlashKept, SameNodesFewer DEF SameFlash
<1>5. ~Prepared
  BY OldThere DEF Settled, Powered, StatusOK
<1>6. Writing => ~Unwalked
  <2> SUFFICES ASSUME Writing PROVE ~Unwalked
    OBVIOUS
  <2>1. Holding
    BY <1>5 DEF Writing, Prepared, Holding, Creating, IInv, ReturnsOK
  <2> QED
    BY <2>1, HoldingPhase
<1>7. \A a, b \in NodeAddrs : StatusOf(a) = "PRE_WRITE" /\ StatusOf(b) = "PRE_WRITE" => a = b
  <2>1. \A a \in NodeAddrs : Left(a) => Unwalked
    BY DEF Powered, StatusOK
  <2>2. \A a, b \in NodeAddrs : Left(a) /\ Left(b) => a = b
    BY DEF Powered, StatusOK
  <2>3. \A a, b : Begun(a) /\ Begun(b) => a = b /\ Writing
    BY DEF Begun, Writing
  <2> QED
    BY <1>6, <2>1, <2>2, <2>3 DEF Left, Begun, Writing
<1>8. StatusOK'
  BY <1>2, <1>3, <1>4, <1>7 DEF StatusOK, Left, Settled, SameFlash, SameNodes
<1>9. OneWritten' /\ Spaced' /\ SectorsOK'
  BY <1>1, <1>4, OneWrittenKept, SpacedKept, SectorsKept DEF Powered, KeysOK, LayoutOK, SameFlash
<1>10. CacheLeads' /\ LoadingOK' /\ CallOK'
  <2>1. CallOK'
    BY <1>1, <1>2, AwayPhaseNext DEF CallOK
  <2> QED
    BY <1>1, <1>2, <2>1 DEF CacheLeads, LoadingOK, EmptySectors, Settled
<1> QED
  BY <1>1, <1>2, <1>8, <1>9, <1>10, AwayPowered

\* The database loses its power only while it is settled.
LossesSettled == [][Crash => Settled]_vars

LEMMA NextPowered ==
    ASSUME IInv, IInv', LeftInv, Powered, [Next]_vars, [Crash => Settled]_vars
    PROVE  Powered'
<1>1. CASE Work
  BY <1>1, WorkPowered
<1>2. CASE Calling
  BY <1>2, SetPowered, DelPowered, ReadPowered, ResetPowered DEF Calling
<1>3. CASE Crash
  <2>1. Crash => Settled
    <3>1. CASE UNCHANGED vars
      <4>1. crashes \in Nat /\ crashes' = crashes + 1 /\ crashes' = crashes
        BY <1>3, <3>1 DEF Crash, IInv, TypeOK, vars
      <4> QED
        BY <4>1
    <3> QED
      BY <3>1
  <2> QED
    BY <1>3, <2>1, CrashPowered
<1>4. CASE UNCHANGED vars
  BY <1>4, StutterPowered
<1> QED
  BY <1>1, <1>2, <1>3, <1>4 DEF Next

LEMMA PoweredInvariant == Spec /\ LossesSettled => [](IInv /\ Powered)
<1>1. Spec => []IInv
  BY Invariant
<1>2. Spec => []LeftInv
  BY LeftInvariant
<1>3. IInv /\ IInv' /\ LeftInv /\ Powered /\ [Next]_vars /\ [Crash => Settled]_vars => Powered'
  BY NextPowered
<1> QED
  BY <1>1, <1>2, <1>3, InitPowered, PTL DEF Spec, LossesSettled

\* What holds as long as the power was not lost at all.
PoweredInv == crashes = 0 => Powered

LEMMA StillPoweredInvariant == Spec => [](IInv /\ PoweredInv)
<1>1. IInv /\ IInv' /\ LeftInv /\ PoweredInv /\ [Next]_vars => PoweredInv'
  <2> SUFFICES ASSUME IInv, IInv', LeftInv, PoweredInv, [Next]_vars, crashes' = 0
               PROVE  Powered'
    BY DEF PoweredInv
  <2>1. crashes \in Nat
    BY DEF IInv, TypeOK
  <2>2. ~Crash
    BY <2>1 DEF Crash
  <2>3. crashes = 0
    BY <2>2, CrashesKept DEF Next, vars
  <2> QED
    BY <2>2, <2>3, NextPowered DEF PoweredInv
<1>2. Spec => []IInv
  BY Invariant
<1>3. Spec => []LeftInv
  BY LeftInvariant
<1>4. Init => PoweredInv
  BY InitPowered DEF PoweredInv
<1> QED
  BY <1>1, <1>2, <1>3, <1>4, PTL DEF Spec

\* Without a loss of power all losses are settled.
LEMMA NoLossIsSettled == Spec /\ [](crashes = 0) => LossesSettled
<1>1. crashes = 0 /\ (crashes = 0)' => [Crash => Settled]_vars
  BY DEF Crash
<1> QED
  BY <1>1, PTL DEF LossesSettled

\* No node is being replaced, no sector collected and no database reset: the
\* database is between calls, or in a read, a deletion, the set of a new key, or
\* a load that is not in a collection.
AtRest == ~(Prepared \/ Emptying \/ Resetting \/ pc = "gc_format")

\* A database at rest is settled, so that the theorems below hold in particular
\* when the power is lost between calls, in a read, a deletion, the set of a new
\* key or a load: a crash there leaves no node prepared for deletion and has an
\* empty sector for the collection the load is to repeat.
THEOREM RestIsSettled == Spec /\ [][Crash => AtRest]_vars => LossesSettled
<1>1. IInv /\ Powered /\ AtRest => Settled
  BY DEF AtRest, Settled, Powered, StatusOK, LoadingOK, ReserveOK
<1>2. IInv /\ IInv' /\ LeftInv /\ Powered /\ [Next]_vars /\ [Crash => AtRest]_vars
          => Powered' /\ [Crash => Settled]_vars
  BY <1>1, NextPowered
<1>3. Spec => []IInv
  BY Invariant
<1>4. Spec => []LeftInv
  BY LeftInvariant
<1> QED
  BY <1>2, <1>3, <1>4, InitPowered, PTL DEF Spec, LossesSettled

-----------------------------------------------------------------------------
(* The value the flash holds for a key.                                    *)

\* The nodes that can carry the value of a key.
Carriers(st, k) == {a \in NodeAddrs : KeyOf(a) = k /\ StatusOf(a) = st}

\* The value of k is v: of its written node, or else of the one that is prepared
\* for deletion.
Shows(k, v) ==
    \/ \E a \in Carriers("WRITE", k) : v = NodeAt(a).val
    \/ /\ Carriers("WRITE", k) = {}
       /\ \E a \in Carriers("PRE_DELETE", k) : v = NodeAt(a).val
    \/ /\ Carriers("WRITE", k) = {}
       /\ Carriers("PRE_DELETE", k) = {}
       /\ v = None

\* The written nodes of a key, and those prepared for deletion, are complete.
LEMMA CarriersComplete ==
    ASSUME IInv, NEW k \in Keys
    PROVE  Written(k) = Carriers("WRITE", k) /\ PreDeleted(k) = Carriers("PRE_DELETE", k)
  BY DEF Written, PreDeleted, Carriers, KeyOf, StatusOf, IInv, CommittedIsComplete

LEMMA FirstOfOne ==
    ASSUME TypeOK, NEW a \in NodeAddrs
    PROVE  FirstAddr({a}) = a
<1>1. {a} \subseteq Addrs /\ {a} # {}
  BY DEF NodeAddrs
<1>2. FirstAddr({a}) \in {a}
  BY <1>1, FirstAddrType DEF TypeOK
<1> QED
  BY <1>2

\* A key has one written node at most, and one prepared for deletion.
LEMMA OneCarrier ==
    ASSUME Powered, NEW st \in {"WRITE", "PRE_DELETE"}, NEW k, NEW a \in Carriers(st, k)
    PROVE  Carriers(st, k) = {a}
  BY DEF Powered, KeysOK, OneWritten, StatusOK, Carriers

LEMMA ViewFound ==
    ASSUME IInv, Powered, NEW k \in Keys, NEW a \in Carriers("WRITE", k)
    PROVE  View(k) = NodeAt(a).val
<1>1. a \in NodeAddrs /\ Written(k) = {a}
  BY CarriersComplete, OneCarrier DEF Carriers
<1>2. FirstAddr(Written(k)) = a
  BY <1>1, FirstOfOne DEF IInv
<1> QED
  BY <1>1, <1>2 DEF View

LEMMA ViewPrepared ==
    ASSUME IInv, Powered, NEW k \in Keys, Carriers("WRITE", k) = {},
           NEW a \in Carriers("PRE_DELETE", k)
    PROVE  View(k) = NodeAt(a).val
<1>1. a \in NodeAddrs /\ Written(k) = {} /\ PreDeleted(k) = {a}
  BY CarriersComplete, OneCarrier DEF Carriers
<1>2. FirstAddr(PreDeleted(k)) = a
  BY <1>1, FirstOfOne DEF IInv
<1> QED
  BY <1>1, <1>2 DEF View

\* What View computes is the value the nodes show.
ViewsShown == \A k \in Keys : \A v \in Vals \cup {None} : Shows(k, v) => View(k) = v

LEMMA ViewsAreShown == IInv /\ Powered => ViewsShown
<1> SUFFICES ASSUME IInv, Powered, NEW k \in Keys, NEW v \in Vals \cup {None}, Shows(k, v)
             PROVE  View(k) = v
  BY DEF ViewsShown
<1>1. CASE \E a \in Carriers("WRITE", k) : v = NodeAt(a).val
  BY <1>1, ViewFound
<1>2. CASE Carriers("WRITE", k) = {} /\ \E a \in Carriers("PRE_DELETE", k) : v = NodeAt(a).val
  BY <1>2, ViewPrepared
<1>3. CASE Carriers("WRITE", k) = {} /\ Carriers("PRE_DELETE", k) = {} /\ v = None
  BY <1>3, CarriersComplete DEF View
<1> QED
  BY <1>1, <1>2, <1>3 DEF Shows

LEMMA ViewsAreShownNext == IInv' /\ Powered' => ViewsShown'
  BY ViewsAreShown, PTL

LEMMA SomethingShown ==
    ASSUME TypeOK, NEW k \in Keys
    PROVE  \E v \in Vals \cup {None} : Shows(k, v)
<1>1. \A a \in NodeAddrs : NodeAt(a).val \in Vals
  BY NodeFacts
<1> QED
  BY <1>1 DEF Shows, Carriers

-----------------------------------------------------------------------------
(* Between calls.                                                          *)

LEMMA IdleFacts ==
    ASSUME IInv, Powered, pc = "idle"
    PROVE  /\ ~Prepared /\ EmptySectors # {}
           /\ \A k \in Keys : Carriers("PRE_DELETE", k) = {}
<1>1. Plain
  BY DEF Plain
<1>2. ~Prepared /\ ~Loading /\ ~Resetting /\ ~Emptying /\ pc # "gc_format"
  BY <1>1, PlainPhase
<1> QED
  BY <1>2 DEF Powered, ReserveOK, StatusOK, Carriers

LEMMA IdleReads ==
    ASSUME IInv, Powered, pc = "idle", NEW k \in Keys
    PROVE  Get(k) = View(k)
<1>1. ~Prepared /\ Carriers("PRE_DELETE", k) = {}
  BY IdleFacts
<1>2. CASE Find(k) # None
  <2>1. Find(k) \in Carriers("WRITE", k)
    BY <1>1, <1>2, FindWritten DEF Carriers
  <2> QED
    BY <1>2, <2>1, ViewFound DEF Get
<1>3. CASE Find(k) = None
  <2>1. Carriers("WRITE", k) = {}
    BY <1>3, FindNone DEF Carriers
  <2> QED
    BY <1>1, <1>3, <2>1, CarriersComplete DEF Get, View
<1> QED
  BY <1>2, <1>3

LEMMA IdleOneNode ==
    ASSUME IInv, Powered, pc = "idle", NEW k \in Keys
    PROVE  Cardinality(Written(k)) <= 1
<1>1. CASE Written(k) = {}
  BY <1>1, FS_EmptySet
<1>2. CASE Written(k) # {}
  <2>1. PICK a \in Carriers("WRITE", k) : TRUE
    BY <1>2, CarriersComplete
  <2>2. Written(k) = {a}
    BY CarriersComplete, OneCarrier
  <2> QED
    BY <2>2, FS_Singleton
<1> QED
  BY <1>1, <1>2

LEMMA IdleReadsCurrent == IInv /\ Powered => ReadsAreCurrent
  BY IdleReads DEF ReadsAreCurrent

LEMMA IdleOneNodePerKey == IInv /\ Powered => OneNodePerKey
  BY IdleOneNode DEF OneNodePerKey

LEMMA IdleAllRecovered == IInv /\ Powered => AllRecovered
  BY IdleFacts, CarriersComplete DEF AllRecovered

LEMMA IdleDeletedNotCached == IInv /\ Powered => DeletedNotCached
<1> SUFFICES ASSUME IInv, Powered, pc = "idle", NEW k \in Keys, CacheHit(k)
             PROVE  NodeAt(cache[k]).status = "WRITE"
  BY DEF DeletedNotCached
<1>1. Find(k) = cache[k] /\ Find(k) # None
  BY DEF Find, CacheHit
<1>2. StatusOf(Find(k)) = "WRITE"
  BY <1>1, IdleFacts, FindWritten
<1> QED
  BY <1>1, <1>2 DEF StatusOf

\* Whatever the sizes and the lengths of the values, and however often the power
\* is lost while the database is settled, a read between calls answers what the
\* flash holds: the cached address of a key leads to its written node through
\* every set, deletion, move, collection and load (update_kv_cache after the
\* status writes of del_kv, create_kv_blob and move_kv, and in the walk of the
\* load), and a key without one has no written node.
THEOREM ReadsSettled == Spec /\ LossesSettled => []ReadsAreCurrent
  BY IdleReadsCurrent, PoweredInvariant, PTL

\* With the same losses of power a key has one written node at most between
\* calls: sets and moves prepare the old node for deletion before they write the
\* new one, and the cache or the walk found that old node; a collection that the
\* load begins again moves only nodes it has not moved before.
THEOREM OneNodeSettled == Spec /\ LossesSettled => []OneNodePerKey
  BY IdleOneNodePerKey, PoweredInvariant, PTL

\* With the same losses of power no node is left prepared for deletion between
\* calls: every set and every move that prepared one found the space for the node
\* that replaces it, and went on to delete the old one.
THEOREM RecoveredSettled == Spec /\ LossesSettled => []AllRecovered
  BY IdleAllRecovered, PoweredInvariant, PTL

\* With the same losses of power a deletion drops the cached address with the
\* node: it never follows a prepared deletion, the one case in which del_kv keeps
\* the address.
THEOREM DeletionsUncachedSettled == Spec /\ LossesSettled => []DeletedNotCached
  BY IdleDeletedNotCached, PoweredInvariant, PTL

\* As long as the power was never lost, reads between calls are current.
THEOREM ReadsPowered == Spec => []ReadsAreCurrentPowered
<1>1. PoweredInv /\ IInv => ReadsAreCurrentPowered
  BY IdleReadsCurrent DEF PoweredInv, ReadsAreCurrentPowered
<1> QED
  BY <1>1, StillPoweredInvariant, PTL

\* As long as the power was never lost, a key has one written node at most
\* between calls.
THEOREM OneNodePowered == Spec => [](crashes = 0 => OneNodePerKey)
<1>1. PoweredInv /\ IInv => (crashes = 0 => OneNodePerKey)
  BY IdleOneNodePerKey DEF PoweredInv
<1> QED
  BY <1>1, StillPoweredInvariant, PTL

\* As long as the power was never lost, no node is left prepared for deletion
\* between calls.
THEOREM RecoveredPowered == Spec => [](crashes = 0 => AllRecovered)
<1>1. PoweredInv /\ IInv => (crashes = 0 => AllRecovered)
  BY IdleAllRecovered DEF PoweredInv
<1> QED
  BY <1>1, StillPoweredInvariant, PTL

\* As long as the power was never lost, a deletion drops the cached address with
\* the node.
THEOREM DeletionsUncached == Spec => [](crashes = 0 => DeletedNotCached)
<1>1. PoweredInv /\ IInv => (crashes = 0 => DeletedNotCached)
  BY IdleDeletedNotCached DEF PoweredInv
<1> QED
  BY <1>1, StillPoweredInvariant, PTL

-----------------------------------------------------------------------------
(* What a step does to the nodes.                                          *)

\* The steps that write no node.
QuietWork ==
    \/ MarkDirty \/ WriteSector \/ MoveAlloc \/ GcBegin \/ GcMark \/ GcEnd \/ GcMove \/ GcFormat
    \/ SetAlloc \/ SetFresh \/ SetEnd \/ DelMissing \/ Return \/ ResetFormat
    \/ Boot \/ LoadHeader \/ LoadHeadersEnd \/ LoadCheck \/ LoadGc \/ LoadStart
    \/ LoadKvEnd \/ LoadEnd

LEMMA QuietFlash ==
    ASSUME QuietWork \/ Calling
    PROVE  flash' = flash
<1>1. CASE QuietWork
  BY <1>1 DEF QuietWork, MarkDirty, WriteSector, MoveAlloc, GcBegin, GcMark, GcEnd, GcMove,
     GcFormat, SetAlloc, SetFresh, SetEnd, DelMissing, Return, ResetFormat, Boot, LoadHeader,
     LoadHeadersEnd, LoadCheck, LoadGc, LoadStart, LoadKvEnd, LoadEnd, flashVars
<1>2. CASE Calling
  BY <1>2 DEF Calling, Set, Del, Read, Reset, flashVars, ctlVars
<1> QED
  BY <1>1, <1>2

\* The load marks the one half-written node it can meet.
LEMMA DiscardNodes ==
    ASSUME IInv, Powered, LoadKv
    PROVE  /\ call' = call
           /\ \E a \in NodeAddrs : StatusOf(a) = "PRE_WRITE" /\ Marks(a, "ERR_HDR")
<1>1. pc = "load_kv" /\ call' = call
  BY DEF LoadKv
<1>2. ~Prepared
  BY <1>1, AwayPhase DEF Loading, Resetting
<1>3. TypeOK /\ scan # None /\ scan \in Walks
  BY <1>1 DEF IInv, RunningOK, Scanning, TypeOK
<1>4. PICK a \in Unfinished :
          \/ NodeAt(a).status = "PRE_DELETE"
          \/ /\ NodeAt(a).status = "PRE_WRITE"
             /\ flash' = [flash EXCEPT ![a[1]][a[2]].status = "ERR_HDR"]
  BY <1>3, LoadKvPick
<1>5. a \in NodeAddrs
  BY <1>4 DEF Unfinished
<1>6. StatusOf(a) = "PRE_WRITE" /\ flash' = [flash EXCEPT ![a[1]][a[2]].status = "ERR_HDR"]
  BY <1>2, <1>4, <1>5 DEF Powered, StatusOK, StatusOf
<1>7. Marks(a, "ERR_HDR")
  BY <1>3, <1>5, <1>6, StatusMarks DEF KvStatus
<1> QED
  BY <1>1, <1>5, <1>6, <1>7

\* The three ways a node's status changes.
PrepareStep == MovePrepare \/ SetPrepare
DeleteStep == MoveDelete \/ SetDelete
EraseWork == GcErase \/ ResetErase

LEMMA WorkSplit ==
    ASSUME IInv, Powered, Work
    PROVE  \/ QuietWork \/ WriteHeader \/ WriteData \/ WriteCommit
           \/ PrepareStep \/ DeleteStep \/ DelFound \/ EraseWork \/ LoadKv
  BY DEF Work, QuietWork, PrepareStep, DeleteStep, EraseWork

\* A move or a set prepares the written node of a key for deletion.
LEMMA PrepareNodes ==
    ASSUME IInv, Powered, PrepareStep
    PROVE  \E a \in NodeAddrs : StatusOf(a) = "WRITE" /\ Marks(a, "PRE_DELETE")
<1>1. CASE MovePrepare
  <2>1. pc = "move" /\ flash' = [flash EXCEPT ![old[1]][old[2]].status = "PRE_DELETE"]
    BY <1>1 DEF MovePrepare, DelStatus
  <2>2. old \in NodeAddrs /\ Emptying
    BY <2>1, MovingFacts DEF MoveLabels
  <2>3. StatusOf(old) = "WRITE"
    BY <2>1, <2>2 DEF Powered, EmptyingOK
  <2>4. Marks(old, "PRE_DELETE")
    BY <2>1, <2>2, StatusMarks DEF IInv, KvStatus
  <2> QED
    BY <2>2, <2>3, <2>4
<1>2. CASE SetPrepare
  <2> DEFINE a == Find(call.key)
  <2>1. pc = "set_find" /\ a # None
        /\ flash' = [flash EXCEPT ![a[1]][a[2]].status = "PRE_DELETE"]
    BY <1>2 DEF SetPrepare
  <2>2. ~Prepared /\ Holding
    BY <2>1 DEF Prepared, Holding, Creating
  <2>3. call.key \in Keys
    BY <2>2, HoldingFacts
  <2>4. a \in NodeAddrs /\ StatusOf(a) = "WRITE"
    BY <2>1, <2>2, <2>3, FindWritten
  <2> HIDE DEF a
  <2>5. Marks(a, "PRE_DELETE")
    BY <2>1, <2>4, StatusMarks DEF IInv, KvStatus
  <2> QED
    BY <2>4, <2>5
<1> QED
  BY <1>1, <1>2 DEF PrepareStep

\* The node that was prepared for deletion is deleted once it is replaced.
LEMMA DeleteNodes ==
    ASSUME IInv, Powered, DeleteStep
    PROVE  /\ Replaced /\ old \in NodeAddrs /\ StatusOf(old) = "PRE_DELETE"
           /\ Marks(old, "DELETED")
<1>1. Replaced /\ flash' = [flash EXCEPT ![old[1]][old[2]].status = "DELETED"]
  BY DEF DeleteStep, MoveDelete, SetDelete, DelStatus, Replaced
<1>2. Prepared
  BY <1>1 DEF Replaced, Prepared
<1>3. old \in NodeAddrs
  BY <1>2, OldThere
<1>4. StatusOf(old) = "PRE_DELETE"
  BY <1>2, <1>3 DEF Powered, StatusOK
<1>5. Marks(old, "DELETED")
  BY <1>1, <1>3, StatusMarks DEF IInv, KvStatus
<1> QED
  BY <1>1, <1>3, <1>4, <1>5

\* A deletion deletes the written node of its key.
LEMMA DelNodes ==
    ASSUME IInv, Powered, DelFound
    PROVE  /\ ~Prepared /\ call # None /\ call.key \in Keys /\ call.val = None /\ ~call.done
           /\ \E a \in Carriers("WRITE", call.key) : Marks(a, "DELETED")
<1> DEFINE a == Find(call.key)
<1>1. pc = "del" /\ a # None /\ flash' = [flash EXCEPT ![a[1]][a[2]].status = "DELETED"]
  BY DEF DelFound
<1>2. call # None /\ call.key \in Keys /\ call.val = None /\ ~call.done
  BY <1>1 DEF IInv, RunningOK, Powered, CallOK
<1>3. ~Prepared
  BY <1>1 DEF Prepared, Creating
<1>4. a \in NodeAddrs /\ a \in Carriers("WRITE", call.key)
  BY <1>1, <1>2, <1>3, FindWritten DEF Carriers
<1> HIDE DEF a
<1>5. Marks(a, "DELETED")
  BY <1>1, <1>4, StatusMarks DEF IInv, KvStatus
<1> QED
  BY <1>2, <1>3, <1>4, <1>5

\* An erase removes the nodes of its sector; one of the collection removes
\* nodes that carry no value.
LEMMA EraseWorkNodes ==
    ASSUME IInv, Powered, EraseWork
    PROVE  \E s \in Sectors :
        /\ store' = [store EXCEPT ![s] = "UNUSED"]
        /\ NodeAddrs' = {a \in NodeAddrs : a[1] # s}
        /\ \A a \in NodeAddrs : a[1] # s => NodeAt(a)' = NodeAt(a)
        /\ \A a \in NodeAddrs : GcErase /\ a[1] = s => Garbage(a)
<1>1. PICK s \in Sectors : /\ Erase(s)
                           /\ \A a \in NodeAddrs : GcErase /\ a[1] = s => Garbage(a)
  <2>1. CASE GcErase
    <3>1. pc = "gc_kv" /\ Erase(gc.sec)
      BY <2>1 DEF GcErase
    <3>2. gc.sec \in Sectors
      BY <3>1, GcFacts DEF GcLabels
    <3>3. ASSUME NEW a \in NodeAddrs, a[1] = gc.sec
          PROVE  Garbage(a)
      <4>1. a = <<gc.sec, a[2]>> /\ a[2] \in Occupied(gc.sec)
        BY <3>3, NodeFacts DEF IInv
      <4> QED
        BY <2>1, <4>1, ErasedGarbage
    <3> QED
      BY <3>1, <3>2, <3>3
  <2>2. CASE ResetErase
    <3>1. pc = "reset_erase" /\ Erase(scan.done)
      BY <2>2 DEF ResetErase
    <3>2. scan.done \in Sectors
      BY <3>1 DEF IInv, RunningOK
    <3>3. ~GcErase
      BY <3>1 DEF GcErase
    <3> QED
      BY <3>1, <3>2, <3>3
  <2> QED
    BY <2>1, <2>2 DEF EraseWork
<1>2. \A t \in Sectors, o \in Offsets : flash'[t][o] = IF t = s THEN None ELSE flash[t][o]
  BY <1>1 DEF Erase, IInv, TypeOK
<1>3. \A a \in Addrs : NodeAt(a)' = IF a[1] = s THEN None ELSE NodeAt(a)
  BY <1>2 DEF NodeAt, Addrs
<1>4. NodeAddrs' = {a \in NodeAddrs : a[1] # s}
  BY <1>3 DEF NodeAddrs
<1>5. \A a \in NodeAddrs : a[1] # s => NodeAt(a)' = NodeAt(a)
  BY <1>3 DEF NodeAddrs
<1> QED
  BY <1>1, <1>4, <1>5 DEF Erase

LEMMA EraseCollects ==
    ASSUME IInv, Powered, Work \/ Calling, pc = "gc_kv", pc' = "gc_format"
    PROVE  \A o \in Occupied(gc.sec) : flash[gc.sec][o].status \notin {"WRITE", "PRE_DELETE"}
<1>1. GcErase
  BY DEF Work, Calling, MarkDirty, WriteSector, WriteHeader, WriteData, WriteCommit, MovePrepare,
     MoveAlloc, MoveDelete, GcBegin, GcMark, GcEnd, GcMove, GcFormat, SetAlloc,
     SetPrepare, SetFresh, SetDelete, SetEnd, DelFound, DelMissing, Return, ResetErase,
     ResetFormat, Boot, LoadHeader, LoadHeadersEnd, LoadCheck, LoadGc, LoadStart, LoadKv,
     LoadKvEnd, LoadEnd, Set, Del, Read, Reset, ctlVars
<1>2. ASSUME NEW o \in Occupied(gc.sec)
      PROVE  flash[gc.sec][o].status \notin {"WRITE", "PRE_DELETE"}
  <2>1. Garbage(<<gc.sec, o>>)
    BY <1>1, ErasedGarbage
  <2>2. StatusOf(<<gc.sec, o>>) = flash[gc.sec][o].status
    BY DEF StatusOf, NodeAt
  <2> QED
    BY <2>1, <2>2 DEF Garbage
<1> QED
  BY <1>2

\* A loss of power changes no node and ends the call.
LEMMA CrashFlash ==
    ASSUME Crash
    PROVE  SameFlash /\ store' = store /\ call' = None /\ pc' = "off"
  BY FlashKept DEF Crash, flashVars

\* Whatever the sizes and the lengths of the values, and however often the power
\* is lost while the database is settled, do_gc erases a sector only when none of
\* its nodes carries a value: move_kv always finds the space for the copy, which
\* is what do_gc relies on when it does not look at the answer of move_kv.
THEOREM CollectsGarbageSettled == Spec /\ LossesSettled => CollectsGarbageOnly
<1> DEFINE Kept == pc = "gc_kv" /\ pc' = "gc_format" =>
               \A o \in Occupied(gc.sec) : flash[gc.sec][o].status \notin {"WRITE", "PRE_DELETE"}
<1>1. IInv /\ Powered /\ [Next]_vars => [Kept]_vars
  <2> SUFFICES ASSUME IInv, Powered, Next, pc = "gc_kv", pc' = "gc_format"
               PROVE  \A o \in Occupied(gc.sec) :
                          flash[gc.sec][o].status \notin {"WRITE", "PRE_DELETE"}
    OBVIOUS
  <2>1. ~Crash
    BY CrashFlash
  <2> QED
    BY <2>1, EraseCollects DEF Next
<1> HIDE DEF Kept
<1>2. Spec /\ LossesSettled => [][Kept]_vars
  BY <1>1, PoweredInvariant, PTL DEF Spec
<1> QED
  BY <1>2 DEF CollectsGarbageOnly, Kept

\* A database that never loses power erases no value.
THEOREM CollectsGarbagePowered == Spec /\ [](crashes = 0) => CollectsGarbageOnly
  BY CollectsGarbageSettled, NoLossIsSettled, PTL

-----------------------------------------------------------------------------
(* The status of a node only goes forward.                                 *)

\* A node stays what it is, or goes on, or its sector is erased.
Forward(a) == store'[a[1]] # "UNUSED" =>
    /\ NodeAt(a)' # None
    /\ KeyOf(a)' = KeyOf(a) /\ NodeAt(a)'.val = NodeAt(a).val
    /\ Rank(StatusOf(a)) <= Rank(StatusOf(a)')

LEMMA RankType == \A st \in KvStatus : Rank(st) \in 1 .. 5
  BY DEF Rank, KvStatus

LEMMA ForwardMarks ==
    ASSUME TypeOK, NEW b \in NodeAddrs, NEW st \in KvStatus, Marks(b, st),
           Rank(StatusOf(b)) <= Rank(st), NEW a \in NodeAddrs
    PROVE  Forward(a)
<1>1. StatusOf(a) \in KvStatus
  BY NodeFacts
<1>2. a \in NodeAddrs' /\ NodeAt(a)' # None
  BY DEF Marks, SameNodes, NodeAddrs
<1> QED
  BY <1>1, <1>2, RankType DEF Marks, SameNodes, Forward

LEMMA ForwardSame ==
    ASSUME TypeOK, NEW a \in NodeAddrs, a \in NodeAddrs', KeyOf(a)' = KeyOf(a),
           NodeAt(a)'.val = NodeAt(a).val, StatusOf(a)' = StatusOf(a)
    PROVE  Forward(a)
<1>1. StatusOf(a) \in KvStatus
  BY NodeFacts
<1>2. NodeAt(a)' # None
  BY DEF NodeAddrs
<1> QED
  BY <1>1, <1>2, RankType DEF Forward

LEMMA WorkForward ==
    ASSUME IInv, Powered, Work \/ Calling, NEW a \in NodeAddrs
    PROVE  Forward(a)
<1>1. CASE SameFlash
  BY <1>1, ForwardSame DEF SameFlash, SameNodes, IInv
<1>2. CASE QuietWork \/ Calling
  BY <1>1, <1>2, QuietFlash, FlashKept
<1>3. CASE WriteData
  BY <1>1, <1>3, DataSame
<1>4. CASE WriteHeader
  <2>1. PICK n : n = <<new.sec, new.off>>
    OBVIOUS
  <2> QED
    BY <1>4, <2>1, HeaderNodes, ForwardSame DEF IInv
<1>5. CASE WriteCommit
  <2>1. PICK n : n = <<new.sec, new.off>>
    OBVIOUS
  <2>2. n \in NodeAddrs /\ Marks(n, "WRITE") /\ StatusOf(n) = "PRE_WRITE"
    BY <1>5, <2>1, CommitNodes
  <2> QED
    BY <2>2, ForwardMarks DEF IInv, Rank, KvStatus
<1>6. CASE PrepareStep
  <2>1. PICK b \in NodeAddrs : StatusOf(b) = "WRITE" /\ Marks(b, "PRE_DELETE")
    BY <1>6, PrepareNodes
  <2> QED
    BY <2>1, ForwardMarks DEF IInv, Rank, KvStatus
<1>7. CASE DeleteStep
  <2>1. old \in NodeAddrs /\ StatusOf(old) = "PRE_DELETE" /\ Marks(old, "DELETED")
    BY <1>7, DeleteNodes
  <2> QED
    BY <2>1, ForwardMarks DEF IInv, Rank, KvStatus
<1>8. CASE DelFound
  <2>1. PICK b \in NodeAddrs : StatusOf(b) = "WRITE" /\ Marks(b, "DELETED")
    BY <1>8, DelNodes DEF Carriers
  <2> QED
    BY <2>1, ForwardMarks DEF IInv, Rank, KvStatus
<1>9. CASE EraseWork
  <2>1. PICK s \in Sectors :
            /\ store' = [store EXCEPT ![s] = "UNUSED"]
            /\ NodeAddrs' = {b \in NodeAddrs : b[1] # s}
            /\ \A b \in NodeAddrs : b[1] # s => NodeAt(b)' = NodeAt(b)
    BY <1>9, EraseWorkNodes
  <2>2. CASE a[1] = s
    <3>1. store'[a[1]] = "UNUSED"
      BY <2>1, <2>2 DEF IInv, TypeOK
    <3> QED
      BY <3>1 DEF Forward
  <2>3. CASE a[1] # s
    <3>1. a \in NodeAddrs' /\ NodeAt(a)' = NodeAt(a)
      BY <2>1, <2>3
    <3>2. KeyOf(a)' = KeyOf(a) /\ StatusOf(a)' = StatusOf(a)
      BY <3>1 DEF KeyOf, StatusOf
    <3> QED
      BY <3>1, <3>2, ForwardSame DEF IInv
  <2> QED
    BY <2>2, <2>3
<1>10. CASE LoadKv
  <2>1. PICK b \in NodeAddrs : StatusOf(b) = "PRE_WRITE" /\ Marks(b, "ERR_HDR")
    BY <1>10, DiscardNodes
  <2> QED
    BY <2>1, ForwardMarks DEF IInv, Rank, KvStatus
<1> QED
  BY <1>2, <1>3, <1>4, <1>5, <1>6, <1>7, <1>8, <1>9, <1>10, WorkSplit

\* With the same losses of power, no status write of del_kv, create_kv_blob,
\* move_kv, set_kv or the load takes a node's status back or reaches another
\* node's bytes: a node goes from PRE_WRITE over WRITE and PRE_DELETE to DELETED,
\* or from PRE_WRITE to ERR_HDR, with its key and value, until its sector is
\* erased.
THEOREM StatusForwardSettled == Spec /\ LossesSettled => StatusForward
<1> DEFINE Onto(a) == (NodeAt(a) # None /\ store'[a[1]] # "UNUSED") =>
        /\ NodeAt(a)' # None
        /\ NodeAt(a)'.key = NodeAt(a).key /\ NodeAt(a)'.val = NodeAt(a).val
        /\ Rank(NodeAt(a).status) <= Rank(NodeAt(a)'.status)
<1> DEFINE Onward == \A a \in Addrs : Onto(a)
<1>1. IInv /\ Powered /\ [Next]_vars => [Onward]_vars
  <2> SUFFICES ASSUME IInv, Powered, Next, NEW a \in Addrs, NodeAt(a) # None
               PROVE  Onto(a)
    OBVIOUS
  <2>1. a \in NodeAddrs
    BY DEF NodeAddrs
  <2>2. Forward(a)
    <3>1. CASE Crash
      BY <2>1, <3>1, CrashFlash, ForwardSame DEF SameFlash, SameNodes, IInv
    <3> QED
      BY <2>1, <3>1, WorkForward DEF Next
  <2> QED
    BY <2>2 DEF Forward, KeyOf, StatusOf
<1> HIDE DEF Onward
<1>2. Spec /\ LossesSettled => [][Onward]_vars
  BY <1>1, PoweredInvariant, PTL DEF Spec
<1> QED
  BY <1>2 DEF StatusForward, Onward

\* In a database that never loses power the status of a node only goes forward.
THEOREM StatusForwardPowered == Spec /\ [](crashes = 0) => StatusForward
  BY StatusForwardSettled, NoLossIsSettled, PTL

-----------------------------------------------------------------------------
(* The database implements the map.                                        *)

\* The nodes that carry the value of k are those they were.
SameCarriers(k) == \A st \in {"WRITE", "PRE_DELETE"} :
    /\ Carriers(st, k)' = Carriers(st, k)
    /\ \A a \in Carriers(st, k) : NodeAt(a)'.val = NodeAt(a).val

LEMMA SameCarriersShow ==
    ASSUME NEW k, NEW v, SameCarriers(k), Shows(k, v)
    PROVE  Shows(k, v)'
  BY DEF Shows, SameCarriers

\* Keys whose values stay: every value shown is shown after the step.
LEMMA MapKept ==
    ASSUME IInv, IInv', Powered, Powered', NEW k \in Keys,
           \A v \in Vals \cup {None} : Shows(k, v) => Shows(k, v)'
    PROVE  View(k)' = View(k)
<1>1. PICK v \in Vals \cup {None} : Shows(k, v)
  BY SomethingShown DEF IInv
<1>2. View(k) = v
  BY <1>1, ViewsAreShown DEF ViewsShown
<1>3. View(k)' = v
  BY <1>1, ViewsAreShownNext DEF ViewsShown
<1> QED
  BY <1>2, <1>3

LEMMA FlashCarriers ==
    ASSUME SameFlash, NEW k
    PROVE  SameCarriers(k)
  BY DEF SameFlash, SameNodes, SameCarriers, Carriers

\* A status write changes nothing for other keys.
LEMMA OtherCarriers ==
    ASSUME NEW a \in NodeAddrs, NEW st, Marks(a, st), NEW k, KeyOf(a) # k
    PROVE  SameCarriers(k)
<1>1. \A b \in NodeAddrs : KeyOf(b) = k => StatusOf(b)' = StatusOf(b)
  BY DEF Marks
<1> QED
  BY <1>1 DEF Marks, SameNodes, SameCarriers, Carriers

\* A node that is prepared for deletion still carries the value of its key.
LEMMA PrepareShows ==
    ASSUME Powered, NEW a \in NodeAddrs, StatusOf(a) = "WRITE", Marks(a, "PRE_DELETE"),
           NEW k, NEW v, Shows(k, v)
    PROVE  Shows(k, v)'
<1>1. CASE KeyOf(a) # k
  BY <1>1, OtherCarriers, SameCarriersShow
<1>2. CASE KeyOf(a) = k
  <2>1. a \in Carriers("WRITE", k)
    BY <1>2 DEF Carriers
  <2>2. Carriers("WRITE", k) = {a}
    BY <2>1, OneCarrier
  <2>3. v = NodeAt(a).val
    BY <2>1, <2>2 DEF Shows
  <2>4. /\ Carriers("WRITE", k)' = {}
        /\ a \in Carriers("PRE_DELETE", k)' /\ NodeAt(a)'.val = NodeAt(a).val
    BY <1>2, <2>2 DEF Marks, SameNodes, Carriers
  <2> QED
    BY <2>3, <2>4 DEF Shows
<1> QED
  BY <1>1, <1>2

\* A node that was replaced carries no value.
LEMMA DeleteShows ==
    ASSUME IInv, Powered, DeleteStep, NEW k, NEW v, Shows(k, v)
    PROVE  Shows(k, v)'
<1>1. /\ Replaced /\ old \in NodeAddrs /\ StatusOf(old) = "PRE_DELETE"
      /\ Marks(old, "DELETED")
  BY DeleteNodes
<1>2. PICK a \in NodeAddrs : a = old
  BY <1>1
<1>3. CASE KeyOf(a) # k
  BY <1>1, <1>2, <1>3, OtherCarriers, SameCarriersShow
<1>4. CASE KeyOf(a) = k
  <2>1. PICK b \in Carriers("WRITE", k) : TRUE
    BY <1>1, <1>2, <1>4 DEF Powered, KeysOK, Carriers
  <2>2. Carriers("WRITE", k) = {b}
    BY <2>1, OneCarrier
  <2>3. v = NodeAt(b).val
    BY <2>1, <2>2 DEF Shows
  <2>4. b \in Carriers("WRITE", k)' /\ NodeAt(b)'.val = NodeAt(b).val
    BY <1>1, <1>2, <2>1 DEF Marks, SameNodes, Carriers
  <2> QED
    BY <2>3, <2>4 DEF Shows
<1> QED
  BY <1>3, <1>4

\* The header of a new node carries no value yet.
LEMMA HeaderShows ==
    ASSUME IInv, WriteHeader, NEW k, NEW v, Shows(k, v)
    PROVE  Shows(k, v)'
<1>1. PICK n : n = <<new.sec, new.off>>
  OBVIOUS
<1>2. /\ n \notin NodeAddrs /\ NodeAddrs' = NodeAddrs \cup {n}
      /\ \A a \in NodeAddrs : /\ KeyOf(a)' = KeyOf(a) /\ StatusOf(a)' = StatusOf(a)
                              /\ NodeAt(a)'.val = NodeAt(a).val
      /\ StatusOf(n)' = "PRE_WRITE"
  BY <1>1, HeaderNodes
<1>3. SameCarriers(k)
  BY <1>2 DEF SameCarriers, Carriers
<1> QED
  BY <1>3, SameCarriersShow

\* The commit of a node makes its value the one of its key; no other key changes.
LEMMA CommitShows ==
    ASSUME IInv, Powered, WriteCommit, NEW k, NEW w, w = new.val
    PROVE  /\ k = new.key => Shows(k, w)'
           /\ k # new.key => \A v : Shows(k, v) => Shows(k, v)'
<1>1. PICK n : n = <<new.sec, new.off>>
  OBVIOUS
<1>2. /\ n \in NodeAddrs /\ Marks(n, "WRITE") /\ StatusOf(n) = "PRE_WRITE"
      /\ KeyOf(n) = new.key /\ NodeAt(n).val = new.val
  BY <1>1, CommitNodes
<1>3. CASE k = new.key
  <2>1. n \in Carriers("WRITE", k)' /\ NodeAt(n)'.val = w
    BY <1>2, <1>3 DEF Marks, SameNodes, Carriers
  <2> QED
    BY <1>3, <2>1 DEF Shows
<1>4. CASE k # new.key
  BY <1>2, <1>4, OtherCarriers, SameCarriersShow
<1> QED
  BY <1>3, <1>4

\* The copy of a node carries the same value.
LEMMA CopyShows ==
    ASSUME IInv, Powered, WriteCommit, Copying, NEW k, NEW v, Shows(k, v)
    PROVE  Shows(k, v)'
<1>1. CASE k # new.key
  BY <1>1, CommitShows
<1>2. CASE k = new.key
  <2>1. pc = "commit" /\ pc \in Creating /\ Prepared /\ ~Replaced
    BY DEF WriteCommit, Creating, Copying, Prepared, Replaced
  <2>2. old \in NodeAddrs /\ StatusOf(old) = "PRE_DELETE"
    BY <2>1, OldThere DEF Powered, StatusOK
  <2>3. KeyOf(old) = k /\ NodeAt(old).val = new.val
    BY <1>2 DEF Powered, LinkOK
  <2>4. Carriers("WRITE", k) = {}
    BY <1>2, <2>1 DEF Powered, KeysOK, Carriers
  <2>5. old \in Carriers("PRE_DELETE", k)
    BY <2>2, <2>3 DEF Carriers
  <2>6. PICK a \in Carriers("PRE_DELETE", k) : v = NodeAt(a).val
    BY <2>4, <2>5 DEF Shows
  <2>7. a = old
    BY <2>6 DEF Powered, StatusOK, Carriers
  <2>8. v = new.val
    BY <2>3, <2>6, <2>7
  <2> QED
    BY <1>2, <2>8, CommitShows
<1> QED
  BY <1>1, <1>2

\* A deletion leaves its key without value; no other key changes.
LEMMA DelShows ==
    ASSUME IInv, Powered, DelFound, NEW k
    PROVE  /\ k = call.key => Shows(k, None)'
           /\ k # call.key => \A v : Shows(k, v) => Shows(k, v)'
<1>1. ~Prepared
  BY DelNodes
<1>2. PICK a \in Carriers("WRITE", call.key) : Marks(a, "DELETED")
  BY DelNodes
<1>3. a \in NodeAddrs /\ KeyOf(a) = call.key
  BY <1>2 DEF Carriers
<1>4. CASE k = call.key
  <2>1. Carriers("WRITE", k) = {a}
    BY <1>2, <1>4, OneCarrier
  <2>2. Carriers("PRE_DELETE", k) = {}
    BY <1>1 DEF Powered, StatusOK, Carriers
  <2>3. Carriers("WRITE", k)' = {} /\ Carriers("PRE_DELETE", k)' = {}
    BY <1>2, <1>3, <2>1, <2>2 DEF Marks, SameNodes, Carriers
  <2> QED
    BY <1>4, <2>3 DEF Shows
<1>5. CASE k # call.key
  BY <1>2, <1>3, <1>5, OtherCarriers, SameCarriersShow
<1> QED
  BY <1>4, <1>5

\* An erase of the collection removes no value.
LEMMA CollectShows ==
    ASSUME IInv, Powered, GcErase, NEW k, NEW v, Shows(k, v)
    PROVE  Shows(k, v)'
<1>1. PICK s \in Sectors :
          /\ NodeAddrs' = {a \in NodeAddrs : a[1] # s}
          /\ \A a \in NodeAddrs : a[1] # s => NodeAt(a)' = NodeAt(a)
          /\ \A a \in NodeAddrs : a[1] = s => Garbage(a)
  BY EraseWorkNodes DEF EraseWork
<1>2. SameCarriers(k)
  BY <1>1 DEF SameCarriers, Carriers, KeyOf, StatusOf, Garbage
<1> QED
  BY <1>2, SameCarriersShow

\* The half-written node the load discards carried no value.
LEMMA DiscardShows ==
    ASSUME IInv, Powered, LoadKv, NEW k, NEW v, Shows(k, v)
    PROVE  Shows(k, v)'
<1>1. PICK a \in NodeAddrs : StatusOf(a) = "PRE_WRITE" /\ Marks(a, "ERR_HDR")
  BY DiscardNodes
<1>2. SameCarriers(k)
  BY <1>1 DEF SameCarriers, Carriers, Marks, SameNodes
<1> QED
  BY <1>2, SameCarriersShow

\* An erase of a reset leaves a key its value or takes it away.
LEMMA ResetShows ==
    ASSUME IInv, Powered, ResetErase, NEW k, NEW v, Shows(k, v)
    PROVE  Shows(k, v)' \/ Shows(k, None)'
<1>1. PICK s \in Sectors :
          /\ NodeAddrs' = {a \in NodeAddrs : a[1] # s}
          /\ \A a \in NodeAddrs : a[1] # s => NodeAt(a)' = NodeAt(a)
  BY EraseWorkNodes DEF EraseWork
<1>2. ~Prepared
  BY DEF ResetErase, Prepared, Creating
<1>3. Carriers("PRE_DELETE", k) = {}
  BY <1>2 DEF Powered, StatusOK, Carriers
<1>4. Carriers("PRE_DELETE", k)' = {} /\ Carriers("WRITE", k)' \subseteq Carriers("WRITE", k)
  BY <1>1, <1>3 DEF Carriers, KeyOf, StatusOf
<1>5. CASE Carriers("WRITE", k)' = {}
  BY <1>4, <1>5 DEF Shows
<1>6. CASE Carriers("WRITE", k)' # {}
  <2>1. PICK a \in Carriers("WRITE", k)' : TRUE
    BY <1>6
  <2>2. a \in Carriers("WRITE", k) /\ Carriers("WRITE", k) = {a}
    BY <1>4, <2>1, OneCarrier
  <2>3. v = NodeAt(a).val
    BY <2>2 DEF Shows
  <2>4. a \in NodeAddrs /\ a[1] # s
    BY <1>1, <2>1 DEF Carriers
  <2>5. NodeAt(a)' = NodeAt(a)
    BY <1>1, <2>4
  <2> QED
    BY <2>1, <2>3, <2>5 DEF Shows
<1> QED
  BY <1>5, <1>6

\* A step of the map, or one that changes neither a key nor the call.
MapStep == Abstract!ANext \/ UNCHANGED Abstract!avars

\* A step that changes no value.
LEMMA KeptStep ==
    ASSUME \A k \in Keys : View(k)' = View(k),
           call' = call \/ call' = None
    PROVE  MapStep
<1>1. [k \in Keys |-> View(k)]' = [k \in Keys |-> View(k)]
  OBVIOUS
<1>2. CASE call' = call
  BY <1>1, <1>2 DEF MapStep, Abstract!avars
<1>3. CASE call' = None /\ call # None
  BY <1>1, <1>3 DEF MapStep, Abstract!ANext, Abstract!End
<1> QED
  BY <1>2, <1>3

LEMMA KeptValues ==
    ASSUME IInv, IInv', Powered, Powered', SameFlash
    PROVE  \A k \in Keys : View(k)' = View(k)
  BY FlashCarriers, SameCarriersShow, MapKept

\* A call begins.
LEMMA BeginStep ==
    ASSUME IInv, IInv', Powered, Powered', Calling
    PROVE  MapStep
<1>1. \A k \in Keys : View(k)' = View(k)
  BY QuietFlash, FlashKept, KeptValues
<1>2. [k \in Keys |-> View(k)]' = [k \in Keys |-> View(k)]
  BY <1>1
<1>3. call = None
  <2>1. pc = "idle"
    BY DEF Calling, Set, Del, Read, Reset
  <2> QED
    BY <2>1 DEF Powered, CallOK
<1>4. ASSUME NEW k \in Keys \cup {None}, NEW v \in Vals \cup {None},
             call' = [key |-> k, val |-> v, done |-> FALSE]
      PROVE  MapStep
  BY <1>2, <1>3, <1>4 DEF MapStep, Abstract!ANext, Abstract!Begin
<1>5. CASE call' = call
  BY <1>1, <1>5, KeptStep
<1> QED
  BY <1>4, <1>5 DEF Calling, Set, Del, Read, Reset, ctlVars

\* The steps that write no node change no value.
LEMMA QuietMapStep ==
    ASSUME IInv, IInv', Powered, Powered', QuietWork
    PROVE  MapStep
<1>1. \A k \in Keys : View(k)' = View(k)
  BY QuietFlash, FlashKept, KeptValues
<1>2. call' = call \/ call' = None
  BY DEF QuietWork, MarkDirty, WriteSector, MoveAlloc, GcBegin, GcMark, GcEnd, GcMove,
     GcFormat, SetAlloc, SetFresh, SetEnd, DelMissing, Return, ResetFormat, Boot, LoadHeader,
     LoadHeadersEnd, LoadCheck, LoadGc, LoadStart, LoadKvEnd, LoadEnd, Idle, CallGc, CallReset,
     ctlVars
<1> QED
  BY <1>1, <1>2, KeptStep

\* The call takes effect.
LEMMA CommitStep ==
    ASSUME call \in Calls, ~call.done, NEW k \in Keys, NEW v, call.key = k, call.val = v,
           View(k)' = v, \A l \in Keys : l # k => View(l)' = View(l),
           call' = [call EXCEPT !.done = TRUE]
    PROVE  MapStep
<1>1. call.key # None
  BY NoneAssumption
<1>2. [l \in Keys |-> View(l)]' = [[l \in Keys |-> View(l)] EXCEPT ![call.key] = call.val]
  OBVIOUS
<1>3. Abstract!Commit
  BY <1>1, <1>2 DEF Abstract!Commit, Calls, Abstract!Calls
<1> QED
  BY <1>3 DEF MapStep, Abstract!ANext

\* A step that shows v for k makes v the value of k.
LEMMA ShownNext ==
    ASSUME IInv', Powered', NEW k \in Keys, NEW v \in Vals \cup {None}, Shows(k, v)'
    PROVE  View(k)' = v
  BY ViewsAreShownNext DEF ViewsShown

\* A node is committed: a copy changes nothing, the node of a set is its effect.
LEMMA CommitMapStep ==
    ASSUME IInv, IInv', Powered, Powered', WriteCommit
    PROVE  MapStep
<1>1. pc = "commit" /\ pc \in Creating
      /\ call' = IF ret.create = "move_delete" THEN call ELSE [call EXCEPT !.done = TRUE]
  BY DEF WriteCommit, Creating
<1>2. CASE Copying
  <2>1. \A k \in Keys : View(k)' = View(k)
    BY <1>2, CopyShows, MapKept
  <2> QED
    BY <1>1, <1>2, <2>1, KeptStep DEF Copying
<1>3. CASE ~Copying
  <2>1. Holding /\ call' = [call EXCEPT !.done = TRUE]
    BY <1>1, <1>3 DEF Copying, Holding
  <2>2. /\ call # None /\ call.key \in Keys /\ call.val \in Vals /\ ~call.done
        /\ new.key = call.key /\ new.val = call.val
    BY <2>1, HoldingFacts
  <2>3. call \in Calls
    BY <2>2 DEF IInv, TypeOK
  <2>4. PICK k \in Keys, v \in Vals : k = call.key /\ v = call.val
    BY <2>2
  <2>5. View(k)' = v
    BY <2>2, <2>4, CommitShows, ShownNext
  <2>6. \A l \in Keys : l # k => View(l)' = View(l)
    BY <2>2, <2>4, CommitShows, MapKept
  <2> QED
    BY <2>1, <2>2, <2>3, <2>4, <2>5, <2>6, CommitStep
<1> QED
  BY <1>2, <1>3

\* The deletion of the node is the effect of a deletion.
LEMMA DelMapStep ==
    ASSUME IInv, IInv', Powered, Powered', DelFound
    PROVE  MapStep
<1>1. call # None /\ call.key \in Keys /\ call.val = None /\ ~call.done
  BY DelNodes
<1>2. call \in Calls
  BY <1>1 DEF IInv, TypeOK
<1>3. call' = [call EXCEPT !.done = TRUE]
  BY DEF DelFound
<1>4. PICK k \in Keys : k = call.key
  BY <1>1
<1>5. View(k)' = None
  BY <1>4, DelShows, ShownNext
<1>6. \A l \in Keys : l # k => View(l)' = View(l)
  BY <1>4, DelShows, MapKept
<1> QED
  BY <1>1, <1>2, <1>3, <1>4, <1>5, <1>6, CommitStep

\* A reset forgets keys, one sector after the other; the one of a load finds none.
LEMMA ResetMapStep ==
    ASSUME IInv, IInv', Powered, Powered', ResetErase
    PROVE  MapStep
<1>1. Resetting /\ call' = call
  BY DEF ResetErase, Resetting
<1>2. \A k \in Keys : View(k)' = View(k) \/ View(k)' = None
  <2> SUFFICES ASSUME NEW k \in Keys PROVE View(k)' = View(k) \/ View(k)' = None
    OBVIOUS
  <2>1. PICK v \in Vals \cup {None} : Shows(k, v)
    BY SomethingShown DEF IInv
  <2>2. View(k) = v
    BY <2>1, ViewsAreShown DEF ViewsShown
  <2>3. Shows(k, v)' \/ Shows(k, None)'
    BY <2>1, ResetShows
  <2> QED
    BY <2>2, <2>3, ShownNext
<1>3. CASE Loading
  <2>1. NodeAddrs = {}
    BY <1>1, <1>3 DEF Powered, LoadingOK, Loading, Resetting
  <2>2. \A k \in Keys : Shows(k, None)
    BY <2>1 DEF Shows, Carriers
  <2>3. \A k \in Keys : View(k) = None
    BY <2>2, ViewsAreShown DEF ViewsShown
  <2> QED
    BY <1>1, <1>2, <2>3, KeptStep
<1>4. CASE ~Loading
  <2>1. call = [key |-> None, val |-> None, done |-> FALSE]
    BY <1>1, <1>4 DEF Powered, CallOK
  <2>2. call \in Abstract!Calls /\ call.key = None
    BY <2>1 DEF Abstract!Calls
  <2>3. PICK K \in SUBSET Keys : K = {k \in Keys : View(k)' = None}
    OBVIOUS
  <2>4. [k \in Keys |-> View(k)]' = [k \in Keys |-> IF k \in K THEN None ELSE View(k)]
    BY <1>2, <2>3
  <2>5. Abstract!Forget(K)
    BY <1>1, <2>2, <2>4 DEF Abstract!Forget
  <2> QED
    BY <2>5 DEF MapStep, Abstract!ANext
<1> QED
  BY <1>3, <1>4

LEMMA WorkMapStep ==
    ASSUME IInv, IInv', Powered, Powered', Work
    PROVE  MapStep
<1>1. CASE QuietWork
  BY <1>1, QuietMapStep
<1>2. CASE WriteCommit
  BY <1>2, CommitMapStep
<1>3. CASE DelFound
  BY <1>3, DelMapStep
<1>4. CASE ResetErase
  BY <1>4, ResetMapStep
<1>5. CASE PrepareStep \/ DeleteStep \/ WriteHeader \/ WriteData \/ GcErase \/ LoadKv
  <2>1. call' = call
    BY <1>5 DEF PrepareStep, DeleteStep, MovePrepare, SetPrepare, MoveDelete, SetDelete,
       WriteHeader, WriteData, GcErase, LoadKv
  <2>2. ASSUME NEW k \in Keys, NEW v \in Vals \cup {None}, Shows(k, v)
        PROVE  Shows(k, v)'
    <3>1. CASE PrepareStep
      BY <2>2, <3>1, PrepareNodes, PrepareShows
    <3>2. CASE WriteData
      BY <2>2, <3>2, DataSame, FlashCarriers, SameCarriersShow
    <3> QED
      BY <1>5, <2>2, <3>1, <3>2, DeleteShows, HeaderShows, CollectShows, DiscardShows
  <2>3. \A k \in Keys : View(k)' = View(k)
    BY <2>2, MapKept
  <2> QED
    BY <2>1, <2>3, KeptStep
<1> QED
  BY <1>1, <1>2, <1>3, <1>4, <1>5, WorkSplit DEF EraseWork

\* Neither a settled loss of power nor a step that changes no variable changes a
\* value.
LEMMA StillMapStep ==
    ASSUME IInv, IInv', Powered, Powered', Crash \/ UNCHANGED vars
    PROVE  MapStep
<1>1. SameFlash /\ (call' = call \/ call' = None)
  BY CrashFlash, FlashKept DEF vars, flashVars, ctlVars
<1> QED
  BY <1>1, KeptValues, KeptStep

LEMMA PoweredMapStep ==
    ASSUME IInv, IInv', Powered, Powered', [Next]_vars
    PROVE  MapStep
  BY WorkMapStep, BeginStep, StillMapStep DEF Next


\* On a blank flash no key has a value.
LEMMA InitMap == Init => Abstract!AInit
<1> SUFFICES ASSUME Init PROVE Abstract!AInit
  OBVIOUS
<1>1. NodeAddrs = {} /\ call = None
  BY DEF Init, NodeAddrs, NodeAt, Addrs
<1>2. \A k \in Keys : Shows(k, None)
  BY <1>1 DEF Shows, Carriers
<1>3. \A k \in Keys : View(k) = None
  BY <1>2, InitInvariant, InitPowered, ViewsAreShown DEF ViewsShown
<1> QED
  BY <1>1, <1>3 DEF Abstract!AInit

\* Whatever the sizes and the lengths of the values, and however often the power
\* is lost while the database is settled, the database implements the map of
\* KVStore: it starts with no key, a set takes effect with the status write that
\* commits its node, a deletion with the one that deletes the node, a reset with
\* its erases, a call the power interrupts took effect or did not, and no move,
\* collection, format, load or loss of power changes the value of a key.
THEOREM SettledImplementsMap == Spec /\ LossesSettled => Atomic
<1>1. IInv /\ Powered /\ (IInv /\ Powered)' /\ [Next]_vars => [Abstract!ANext]_(Abstract!avars)
  BY PoweredMapStep DEF MapStep
<1> QED
  BY <1>1, InitMap, PoweredInvariant, PTL DEF Spec, Atomic, Abstract!ASpec

\* A behaviour without loss of power is one of the map of KVStore.
THEOREM PoweredImplementsMap == Spec /\ [](crashes = 0) => Atomic
  BY SettledImplementsMap, NoLossIsSettled, PTL

\* As long as the power was never lost, every step is a step of the map or
\* changes no key.
THEOREM ImplementsMapPowered == Spec => AtomicPowered
<1> DEFINE Effect == crashes' = 0 => Abstract!ANext \/ UNCHANGED Abstract!avars
<1>1. IInv /\ PoweredInv /\ (IInv /\ PoweredInv)' /\ [Next]_vars => [Effect]_vars
  <2> SUFFICES ASSUME IInv, IInv', PoweredInv, PoweredInv', Next, crashes' = 0
               PROVE  MapStep
    BY DEF MapStep
  <2>1. crashes = 0
    BY CrashesKept DEF Next, Crash, IInv, TypeOK
  <2> QED
    BY <2>1, PoweredMapStep DEF PoweredInv
<1> HIDE DEF Effect
<1>2. Spec => [][Effect]_vars
  BY <1>1, StillPoweredInvariant, PTL DEF Spec
<1> QED
  BY <1>2 DEF AtomicPowered, Effect
=============================================================================
