------------------------------ MODULE Allocator ------------------------------
(***************************************************************************)
(* What res_pool promises to its users: a resource has one owner at a      *)
(* time, there are never more owners than the limit, a coroutine queues    *)
(* only when the limit is reached, and a resource given back goes to the   *)
(* waiter with the smallest ticket if there is one.                        *)
(***************************************************************************)
EXTENDS Integers, FiniteSets

CONSTANTS Coros, Res, NoRes, Tickets, Limits, InitCap

VARIABLES owns,   \* the resource each coroutine owns
          waits,  \* the waits in progress, with their tickets
          limit   \* how many resources may be owned

avars == <<owns, waits, limit>>

Owned == {r \in Res : \E c \in Coros : owns[c] = r}

Init ==
  /\ owns = [c \in Coros |-> NoRes]
  /\ waits = {}
  /\ limit = InitCap

Idle(c) == owns[c] = NoRes /\ \A e \in waits : e.c # c

Grant(c, r) ==
  /\ Idle(c)
  /\ r \notin Owned
  /\ Cardinality(Owned) < limit
  /\ owns' = [owns EXCEPT ![c] = r]
  /\ UNCHANGED <<waits, limit>>

Enqueue(c, t) ==
  /\ Idle(c)
  /\ Cardinality(Owned) >= limit
  /\ \A e \in waits : e.t < t
  /\ waits' = waits \cup {[c |-> c, t |-> t]}
  /\ UNCHANGED <<owns, limit>>

\* Timeout or stop.
GiveUp(e) ==
  /\ waits' = waits \ {e}
  /\ UNCHANGED <<owns, limit>>

Free(c) ==
  /\ owns[c] # NoRes
  /\ waits = {}
  /\ owns' = [owns EXCEPT ![c] = NoRes]
  /\ UNCHANGED <<waits, limit>>

HandOver(c, e) ==
  /\ owns[c] # NoRes
  /\ \A f \in waits : e.t <= f.t
  /\ owns' = [owns EXCEPT ![c] = NoRes, ![e.c] = owns[c]]
  /\ waits' = waits \ {e}
  /\ UNCHANGED limit

SetLimit(n) ==
  /\ n > Cardinality(Owned)
  /\ limit' = n
  /\ UNCHANGED <<owns, waits>>

Next ==
  \/ \E c \in Coros :
       \/ \E r \in Res : Grant(c, r)
       \/ \E t \in Tickets : Enqueue(c, t)
       \/ \E e \in waits : HandOver(c, e)
       \/ Free(c)
  \/ \E e \in waits : GiveUp(e)
  \/ \E n \in Limits : SetLimit(n)

Spec == Init /\ [][Next]_avars
=============================================================================
