---------------------------- MODULE RealtimeQueue ----------------------------
(***************************************************************************)
(* CandidateQueue of offchain/realtime/watchers.ts: what the on-chain watchers *)
(* push and the agent's loop takes, either at once (tryShift) or by parking a  *)
(* waiter (next).  A waiter is known by its number; nothing withdraws one, so   *)
(* the queue resolves it whether or not somebody still awaits it.              *)
(***************************************************************************)
EXTENDS Naturals, Sequences

CONSTANTS Items,        \* what the watchers push
          Nothing,      \* a promise still pending
          QueueClosed   \* the rejection of a waiter

ASSUME QueueAssumption == Nothing \notin Items /\ QueueClosed \notin Items /\ Nothing # QueueClosed

VARIABLES items,      \* this.items
          waiters,    \* this.waiters
          closed,     \* this.closed
          resolved    \* what each resolved or rejected waiter was given

queueVars == <<items, waiters, closed, resolved>>

QueueTypeOK ==
  /\ items \in Seq(Items)
  /\ waiters \in Seq(Nat)
  /\ closed \in BOOLEAN
  /\ resolved \in Seq(Items \cup {Nothing, QueueClosed})

QueueInit == items = <<>> /\ waiters = <<>> /\ closed = FALSE /\ resolved = <<>>

\* Mutant of Push: the item is queued although somebody waits.
PushQueuesAlways(item) ==
  /\ items' = IF closed THEN items ELSE Append(items, item)
  /\ UNCHANGED <<waiters, closed, resolved>>

\* Mutant of Push: every waiter is given the item.
PushToEveryWaiter(item) ==
  \/ closed /\ UNCHANGED queueVars
  \/ /\ ~closed /\ waiters # <<>>
     /\ resolved' = [w \in DOMAIN resolved |->
                       IF resolved[w] = Nothing THEN item ELSE resolved[w]]
     /\ waiters' = <<>>
     /\ UNCHANGED <<items, closed>>
  \/ /\ ~closed /\ waiters = <<>>
     /\ items' = Append(items, item)
     /\ UNCHANGED <<waiters, closed, resolved>>

\* Mutant of Push: the waiter is resolved but stays in the queue.
PushKeepsWaiter(item) ==
  \/ closed /\ UNCHANGED queueVars
  \/ /\ ~closed /\ waiters # <<>>
     /\ resolved' = [resolved EXCEPT ![Head(waiters)] = IF @ = Nothing THEN item ELSE @]
     /\ UNCHANGED <<items, waiters, closed>>
  \/ /\ ~closed /\ waiters = <<>>
     /\ items' = Append(items, item)
     /\ UNCHANGED <<waiters, closed, resolved>>

\* push(item): dropped once closed, to the waiter parked longest, or queued.
Push(item) ==
  \/ closed /\ UNCHANGED queueVars
  \/ /\ ~closed /\ waiters # <<>>
     /\ resolved' = [resolved EXCEPT ![Head(waiters)] = item]
     /\ waiters' = Tail(waiters)
     /\ UNCHANGED <<items, closed>>
  \/ /\ ~closed /\ waiters = <<>>
     /\ items' = Append(items, item)
     /\ UNCHANGED <<waiters, closed, resolved>>

\* tryShift() answers item.
TryShift(item) ==
  /\ items # <<>> /\ item = Head(items)
  /\ items' = Tail(items)
  /\ UNCHANGED <<waiters, closed, resolved>>

\* next() when there is nothing to shift: the new waiter is the last of resolved.
Park ==
  /\ items = <<>>
  /\ IF closed THEN /\ resolved' = Append(resolved, QueueClosed)
                    /\ UNCHANGED waiters
               ELSE /\ resolved' = Append(resolved, Nothing)
                    /\ waiters' = Append(waiters, Len(resolved'))
  /\ UNCHANGED <<items, closed>>

\* shutdown(): every waiter is rejected and the items are gone.
Shutdown ==
  /\ closed' = TRUE
  /\ items' = <<>>
  /\ waiters' = <<>>
  /\ resolved' = [w \in DOMAIN resolved |->
                    IF resolved[w] = Nothing THEN QueueClosed ELSE resolved[w]]
=============================================================================
