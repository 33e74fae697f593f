----------------------------- MODULE AsyncQueue -----------------------------
(***************************************************************************)
(* AsyncQueue<T> of offchain/pipeline/async_queue.ts: an unbounded queue    *)
(* whose consumers await next().  JavaScript runs each call to completion,  *)
(* so push, close and next are single steps; what interleaves is the order  *)
(* of those calls and the moment at which a resolved consumer resumes.      *)
(*                                                                         *)
(* A consumer that called next() and has not resumed yet is either in       *)
(* resolvers (its promise is pending) or has delivered[c] # Nothing (the    *)
(* promise is resolved with an item or with Done).                          *)
(***************************************************************************)
EXTENDS Naturals, Sequences

CONSTANTS Consumers,  \* the loops that iterate over the queue
          Items,      \* what producers push
          Nothing,    \* no resolved promise for this consumer
          Done        \* { value: undefined, done: true }

ASSUME QueueAssumption == Nothing \notin Items /\ Done \notin Items /\ Nothing # Done

VARIABLES items,      \* this.queue
          resolvers,  \* this.resolvers: the consumers parked in next()
          closed,     \* this.closed
          delivered   \* the value of the promise each consumer holds

queueVars == <<items, resolvers, closed, delivered>>

QueueTypeOK ==
  /\ items \in Seq(Items)
  /\ resolvers \in Seq(Consumers)
  /\ closed \in BOOLEAN
  /\ delivered \in [Consumers -> Items \cup {Nothing, Done}]

QueueInit ==
  /\ items = <<>>
  /\ resolvers = <<>>
  /\ closed = FALSE
  /\ delivered = [c \in Consumers |-> Nothing]

\* push(item): dropped when closed, else handed to the first parked consumer,
\* else buffered.
Push(x) ==
  \/ closed /\ UNCHANGED queueVars
  \/ /\ ~closed
     /\ resolvers # <<>>
     /\ delivered' = [delivered EXCEPT ![Head(resolvers)] = x]
     /\ resolvers' = Tail(resolvers)
     /\ UNCHANGED <<items, closed>>
  \/ /\ ~closed
     /\ resolvers = <<>>
     /\ items' = Append(items, x)
     /\ UNCHANGED <<resolvers, closed, delivered>>

\* Mutant of Close: the parked consumers are forgotten.
CloseForgetsParked ==
  \/ closed /\ UNCHANGED queueVars
  \/ ~closed /\ closed' = TRUE /\ UNCHANGED <<items, resolvers, delivered>>

\* close(): every parked consumer is resolved with Done; items already
\* buffered stay and are still handed out.
Close ==
  \/ closed /\ UNCHANGED queueVars
  \/ /\ ~closed
     /\ closed' = TRUE
     /\ delivered' = [c \in Consumers |->
                        IF \E i \in DOMAIN resolvers : resolvers[i] = c
                        THEN Done ELSE delivered[c]]
     /\ resolvers' = <<>>
     /\ UNCHANGED items

\* Mutant of CallNext: an empty queue parks its caller even when closed.
CallNextIgnoresClosed(c) ==
  \/ /\ items # <<>>
     /\ delivered' = [delivered EXCEPT ![c] = Head(items)]
     /\ items' = Tail(items)
     /\ UNCHANGED <<resolvers, closed>>
  \/ /\ items = <<>>
     /\ resolvers' = Append(resolvers, c)
     /\ UNCHANGED <<items, closed, delivered>>

\* next(): a buffered item, or Done once closed and empty, or park.
CallNext(c) ==
  \/ /\ items # <<>>
     /\ delivered' = [delivered EXCEPT ![c] = Head(items)]
     /\ items' = Tail(items)
     /\ UNCHANGED <<resolvers, closed>>
  \/ /\ items = <<>>
     /\ closed
     /\ delivered' = [delivered EXCEPT ![c] = Done]
     /\ UNCHANGED <<items, resolvers, closed>>
  \/ /\ items = <<>>
     /\ ~closed
     /\ resolvers' = Append(resolvers, c)
     /\ UNCHANGED <<items, closed, delivered>>

\* The consumer resumes with the value of its promise.
Resume(c, value) ==
  /\ delivered[c] = value
  /\ value # Nothing
  /\ delivered' = [delivered EXCEPT ![c] = Nothing]
  /\ UNCHANGED <<items, resolvers, closed>>
=============================================================================
