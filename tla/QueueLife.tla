----------------------------- MODULE QueueLife ------------------------------
(***************************************************************************)
(* The end of a queue's life: after the traffic of QueueTraffic,           *)
(* release_buf_queue frees the free list, counting down the size it read   *)
(* first, and release_queue pops and frees what is left, message by        *)
(* message, and then the queue itself (but not tmp_queue_).  Both run      *)
(* without the lock, so the traffic has stopped.  The shipped program      *)
(* calls neither (loop.c:169 has the call commented out).                  *)
(***************************************************************************)
EXTENDS QueueTraffic

VARIABLES
  phase,    \* "traffic", "buf", "release" or "released"
  togo,     \* release_buf_queue: how many cells it will still free
  freed,    \* what release_queue has freed: of a message, two pointers
  whole     \* no tail was left over, and no cell lost, when the release began

lifeVars == <<vars, phase, togo, freed, whole>>

LifeInit == Init /\ phase = "traffic" /\ togo = 0 /\ freed = {} /\ whole = TRUE

Traffic == phase = "traffic" /\ Next /\ UNCHANGED <<phase, togo, freed, whole>>

\* Mutant of release_buf_queue: the last cell is forgotten.
release_buf_queue_less ==
  /\ phase = "traffic"
  /\ phase' = "buf"
  /\ togo' = tmp_queue.size - 1
  /\ whole' = ~leftOver
  /\ UNCHANGED <<vars, freed>>

\* `int size = mqueue_->tmp_queue_->size`, read once.
release_buf_queue ==
  /\ phase = "traffic"
  /\ phase' = "buf"
  /\ togo' = tmp_queue.size
  /\ whole' = ~leftOver
  /\ UNCHANGED <<vars, freed>>

\* free(make_queue_node(tmp_queue_)): with the list empty the cell comes from
\* malloc and goes straight back.
FreeCell ==
  /\ phase = "buf" /\ togo > 0
  /\ togo' = togo - 1
  /\ tmp_queue' = [tmp_queue EXCEPT !.head = IF @ = NULL THEN NULL ELSE next[@],
                                    !.size = IF tmp_queue.head = NULL THEN @ ELSE Decrement(@)]
  /\ heap' = heap \ {tmp_queue.head}
  /\ UNCHANGED <<queue, next, data, pushed, last, got, leftOver, phase, freed, whole>>

release_queue ==
  /\ \/ phase = "buf" /\ togo <= 0 /\ UNCHANGED whole
     \/ phase = "traffic" /\ whole' = ~leftOver
  /\ phase' = "release"
  /\ UNCHANGED <<vars, togo, freed>>

\* The pointers that free is given for message m: m->udata and m.
Blocks(m) == {m} \X {"udata", "node"}

\* One turn of release_queue's loop; a NULL ends it, whatever is still queued.
FreeMessage ==
  /\ phase = "release"
  /\ \E m \in Ticket \cup {NULL} :
       /\ queue_pop(m)
       /\ got' = m
       /\ last' = IF m = NULL THEN last ELSE m
       /\ freed' = IF m = NULL THEN freed ELSE freed \cup Blocks(m)
       /\ phase' = IF m = NULL THEN "released" ELSE "release"
  /\ UNCHANGED <<pushed, leftOver, togo, whole>>

LifeNext == Traffic \/ release_buf_queue \/ FreeCell \/ release_queue \/ FreeMessage

LifeSpec == LifeInit /\ [][LifeNext]_lifeVars

-----------------------------------------------------------------------------

\* A queue released before a tail was left over: freeing the free list by its
\* counter frees no cell that carries a message and leaves none behind, and
\* release_queue frees every message that was pushed and not popped, once,
\* although it runs until the first NULL.  The cells that it recycles while it
\* does so are leaked.
ReleaseFreesAll ==
  whole =>
    /\ phase = "buf" => AllQueued
    /\ phase = "buf" /\ togo = 0 => tmp_queue.head = NULL /\ tmp_queue.size = 0
    /\ phase = "released" => queue.head = NULL /\ last = pushed

\* No message that was delivered is freed, and neither its node nor its udata
\* is freed twice, even when tails were left over and cells have strayed.
FreedOnce ==
  [][FreeMessage /\ got' # NULL => Blocks(got') \cap freed = {} /\ got' > last]_lifeVars

=============================================================================
