------------------------------- MODULE KVStore -------------------------------
(***************************************************************************)
(* What the key-value database promises its caller: a map from keys to     *)
(* values that one call at a time changes atomically.  A call takes effect *)
(* in one step (Commit) or not at all; a loss of power ends the call in    *)
(* either state and changes no key.                                        *)
(***************************************************************************)
CONSTANTS Keys,   \* names of the key-value pairs
          Vals,   \* values a caller may store
          None    \* the value of a key that is not in the database

VARIABLES map,    \* the value of every key
          call    \* the call in progress, None between calls

avars == <<map, call>>

\* A call that sets key to val (None: deletes it), or forgets every key
\* (key = None); done once it took effect.
Calls == [key : Keys \cup {None}, val : Vals \cup {None}, done : BOOLEAN]

AInit == map = [k \in Keys |-> None] /\ call = None

Begin(k, v) ==
    /\ call = None
    /\ call' = [key |-> k, val |-> v, done |-> FALSE]
    /\ UNCHANGED map

Commit ==
    /\ call \in Calls
    /\ call.key # None
    /\ ~call.done
    /\ map' = [map EXCEPT ![call.key] = call.val]
    /\ call' = [call EXCEPT !.done = TRUE]

\* The one call that is not atomic: keys vanish one after the other.
Forget(K) ==
    /\ call \in Calls
    /\ call.key = None
    /\ map' = [k \in Keys |-> IF k \in K THEN None ELSE map[k]]
    /\ UNCHANGED call

\* The call returns, with success or with an error, or the power is lost.
End ==
    /\ call # None
    /\ call' = None
    /\ UNCHANGED map

ANext ==
    \/ \E k \in Keys \cup {None}, v \in Vals \cup {None} : Begin(k, v)
    \/ Commit
    \/ \E K \in SUBSET Keys : Forget(K)
    \/ End

ASpec == AInit /\ [][ANext]_avars
=============================================================================
