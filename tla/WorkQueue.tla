----------------------------- MODULE WorkQueue ------------------------------
(***************************************************************************)
(* What the outbox promises as a queue of work: an item is in the hands of *)
(* one worker at a time and is handed out MaxAttempts times at most; the   *)
(* worker that holds it resolves it, returns it for another attempt while  *)
(* one is left, or gives it up with the last one; a resolved item is never *)
(* handed out again.  What a worker loses is lost: no other worker finds   *)
(* it, so nothing is dispatched twice, and nothing brings it back.         *)
(***************************************************************************)
EXTENDS Naturals

CONSTANTS Items, Workers, MaxAttempts

VARIABLES
  waiting,    \* the items that may be handed out
  held,       \* [Workers -> SUBSET Items]
  attempts,   \* [Items -> Nat], the attempts made with the item
  done,       \* the items resolved successfully
  dead,       \* the items given up with their last attempt
  lost        \* the items whose worker lost them

queue == <<waiting, held, attempts, done, dead, lost>>

QueueInit ==
  /\ waiting = {} /\ done = {} /\ dead = {} /\ lost = {}
  /\ held = [w \in Workers |-> {}]
  /\ attempts = [i \in Items |-> 0]

\* The item i has never been in the queue.
Fresh(i) ==
  /\ i \notin waiting \cup done \cup dead \cup lost
  /\ \A w \in Workers : i \notin held[w]

Add(i) ==
  /\ Fresh(i)
  /\ waiting' = waiting \cup {i}
  /\ attempts' = [attempts EXCEPT ![i] = 0]
  /\ UNCHANGED <<held, done, dead, lost>>

\* A worker with nothing in its hands takes several items at once.
HandOut(w, items) ==
  /\ held[w] = {}
  /\ items # {}
  /\ waiting' = waiting \ items
  /\ held' = [held EXCEPT ![w] = items]
  /\ UNCHANGED <<attempts, done, dead, lost>>

\* The worker w has made an attempt with an item it holds.
Attempt(w, i) ==
  /\ i \in held[w]
  /\ attempts' = [attempts EXCEPT ![i] = attempts[i] + 1]
  /\ held' = [held EXCEPT ![w] = held[w] \ {i}]

Resolve(w, i) ==
  /\ Attempt(w, i)
  /\ attempts[i] < MaxAttempts
  /\ done' = done \cup {i}
  /\ UNCHANGED <<waiting, dead, lost>>

PutBack(w, i) ==
  /\ Attempt(w, i)
  /\ attempts[i] + 1 < MaxAttempts
  /\ waiting' = waiting \cup {i}
  /\ UNCHANGED <<done, dead, lost>>

GiveUp(w, i) ==
  /\ Attempt(w, i)
  /\ attempts[i] + 1 = MaxAttempts
  /\ dead' = dead \cup {i}
  /\ UNCHANGED <<waiting, done, lost>>

Lose(w, items) ==
  /\ held' = [held EXCEPT ![w] = held[w] \ items]
  /\ lost' = lost \cup items
  /\ UNCHANGED <<waiting, attempts, done, dead>>

QueueNext ==
  \/ \E i \in Items : Add(i)
  \/ \E w \in Workers :
       \/ \E items \in SUBSET waiting : HandOut(w, items)
       \/ \E i \in Items : Resolve(w, i) \/ PutBack(w, i) \/ GiveUp(w, i)
       \/ \E items \in SUBSET held[w] : Lose(w, items)

QueueSpec == QueueInit /\ [][QueueNext]_queue

=============================================================================
