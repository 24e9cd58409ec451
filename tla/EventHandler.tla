---------------------------- MODULE EventHandler ----------------------------
(***************************************************************************)
(* The event handler of informer/informer.go: an informer's cache, a work  *)
(* queue of keys and the deletedIndexer, which keeps the last copy of a    *)
(* deleted object for the delete function.  The queue knows keys only, so  *)
(* what happens to one key before a worker gets to it is collapsed.  A     *)
(* handler is a record; the operators below are what its operations make   *)
(* of it, and the modules that use one supply the add and delete functions. *)
(***************************************************************************)
EXTENDS Naturals, Sequences, FiniteSets, Functions, SequencesExt

CONSTANTS Keys,
          MaxRetries,  \* informer.MaxRetries
          None         \* no object, no value

\* NewDefaultEventHandler
NewHandler ==
    [ cache    |-> [k \in Keys |-> None],   \* informer.GetIndexer()
      deleted  |-> [k \in Keys |-> None],   \* deletedIndexer
      queue    |-> <<>>,                    \* workqueue: the keys in order,
      running  |-> {},                      \*   those a worker has,
      again    |-> {},                      \*   those added while a worker had them,
      delayed  |-> {},                      \*   those that wait out their rate limit
      requeues |-> [k \in Keys |-> 0] ]

\* workqueue.Add
Add(h, k) ==
    IF k \in h.running THEN [h EXCEPT !.again = @ \cup {k}]
    ELSE IF k \in Range(h.queue) THEN h
    ELSE [h EXCEPT !.queue = Append(@, k)]

\* workqueue.Done
Done(h, k) ==
    LET idle == [h EXCEPT !.running = @ \ {k}, !.again = @ \ {k}]
    IN  IF k \in h.again THEN Add(idle, k) ELSE idle

\* workqueue.Get
Get(h) == [h EXCEPT !.queue = Tail(@), !.running = @ \cup {Head(h.queue)}]

\* a delayed key is due
Due(h, k) == Add([h EXCEPT !.delayed = @ \ {k}], k)

\* enqueue ignores objects that are set for deletion
Enqueue(h, k, live) == IF live THEN Add(h, k) ELSE h

\* AddFunc and UpdateFunc: an update that the filter does not want, or that is set
\* for deletion, only reaches the cache
OnSet(h, k, obj, wanted) == Enqueue([h EXCEPT !.cache[k] = obj], k, wanted)

\* DeleteFunc with enqueueDelete
OnDelete(h, k) == Add([h EXCEPT !.cache[k] = None, !.deleted[k] = h.cache[k]], k)

\* processNextWorkItem, when the handler function succeeded
Synced(h, k) == Done([h EXCEPT !.requeues[k] = 0], k)

\* the same after syncHandler's delete branch: the deleted object goes, whichever
\* object the indexer holds under the key by now
SyncedDelete(h, k) == Synced([h EXCEPT !.deleted[k] = None], k)

\* processNextWorkItem, when it failed: again later, up to MaxRetries times
Dropped(h, k) == h.requeues[k] >= MaxRetries
Failed(h, k) ==
    IF Dropped(h, k)
    THEN Done([h EXCEPT !.requeues[k] = 0], k)
    ELSE Done([h EXCEPT !.requeues[k] = @ + 1, !.delayed = @ \cup {k}], k)

\* nothing of the handler is under way
Idle(h) == h.queue = <<>> /\ h.running = {} /\ h.again = {} /\ h.delayed = {}

\* the first list after a start: Run waits for it before the workers start
Listed(objs) ==
    LET cached == [NewHandler EXCEPT !.cache = objs]
        known  == { k \in Keys : objs[k] # None }
    IN  [cached EXCEPT !.queue = SetToSeq(known)]
=============================================================================
