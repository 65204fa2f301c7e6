------------------------------ MODULE Pipeline ------------------------------
(***************************************************************************)
(* The sync pipeline: the pull stage (sync/stages/pull/stage.rs), the      *)
(* bounded queue (sync/pipeline.rs) and the index stage with its           *)
(* persistence (IndexRecovery), fed by a node whose chain grows and        *)
(* reorganises.  The pull stage builds its cursor from the pages it        *)
(* fetched and from the database the index stage writes, while events are  *)
(* still in the queue.  config.mempool is set and stop_after is not.       *)
(***************************************************************************)
EXTENDS IndexRecovery, Intersection

CONSTANTS
  PageSize,   \* config.block_page_size
  CursorLen,  \* 50, the headers of a page taken as cursor
  QueueSize,  \* config.stage_queue_size
  MaxReorg,   \* assumption on the node: blocks replaced by one reorg
  MaxFaults,  \* bound: failed requests, failed batches and crashes
  MaxFlushes  \* bound: memtable flushes

ASSUME PipelineAssumption ==
  /\ PageSize \in Nat \ {0} /\ CursorLen \in Nat \ {0} /\ QueueSize \in Nat \ {0}
  /\ MaxReorg \in Nat /\ MaxFaults \in Nat /\ MaxFlushes \in Nat
  /\ \A b \in Block : Height[b] <= StopAfter

VARIABLES
  node,      \* the tip of the node's active chain
  serving,   \* the node has left its initial download and answers getheaders
  pull,      \* the pull stage's worker
  queue,     \* events sent and not yet received by the index stage
  faults,    \* faults so far
  flushes,   \* flushes so far
  dropped,   \* history: the index stage dropped an event since it started
  disturbed  \* history: since the process started, the pull stage restarted
             \* with events in flight, or the node reorganised when the cursor
             \* did not describe what the index stage holds

world == <<node, serving>>
bounds == <<faults, flushes>>
history == <<dropped, disturbed>>
pvars == <<rvars, world, pull, queue, bounds, history>>

\* The worker's fields, its position in the tick, the height that
\* intersect_options read first, the page being processed, the events to send.
NewWorker == [pc |-> "boot", cursor |-> <<>>, tip |-> 0, tipReached |-> FALSE,
              seen |-> 0, page |-> <<>>, units |-> <<>>]

PInit ==
  /\ RInit
  /\ node = Genesis /\ serving = FALSE
  /\ pull = NewWorker
  /\ queue = <<>>
  /\ faults = 0 /\ flushes = 0
  /\ dropped = FALSE /\ disturbed = FALSE

----------------------------------------------------------------------------
(* The node (external): blocks, and the answer to a getheaders request.    *)

\* The blocks of b's chain above height h, in order.
Path[b \in Block] ==
  [h \in BlockHeight |->
     [i \in 1..(Height[b] - h) |-> CHOOSE x \in Ancestors[b] : Height[x] = h + i]]

\* The newest block two chains share.
Fork(a, b) ==
  CHOOSE x \in Ancestors[a] \cap Ancestors[b] :
    \A y \in Ancestors[a] \cap Ancestors[b] : Height[y] <= Height[x]

\* The first point of a locator that is on the node's chain.
FirstOnChain(cursor) ==
  cursor[CHOOSE i \in 1..Len(cursor) :
           /\ cursor[i].hash \in Ancestors[node]
           /\ \A j \in 1..(i - 1) : cursor[j].hash \notin Ancestors[node]]

GetHeaders(cursor) ==
  IF serving THEN Path[node][FirstOnChain(cursor).height] ELSE <<>>

----------------------------------------------------------------------------
(* Events in flight.                                                       *)

InFlight == queue # <<>> \/ pull.units # <<>>

\* The cursor describes what the index stage holds: it begins at
\* last_processed and has every ancestor a reorg may fork from and no block of
\* another chain.
CursorMatches(cursor) ==
  /\ cursor[1] = last
  /\ \A i \in 1..Len(cursor) : cursor[i].hash \in Ancestors[last.hash]
  /\ \A b \in Ancestors[last.hash] :
       Height[b] + MaxReorg >= last.height => \E i \in 1..Len(cursor) : cursor[i].hash = b

\* Nothing is in flight, and the cursor matches or is still to be read.
Aligned ==
  /\ ~InFlight /\ status = "running"
  /\ pull.pc \in {"boot", "options"} \/ CursorMatches(pull.cursor)

----------------------------------------------------------------------------
(* The node's steps.                                                       *)

Grow(b) ==
  /\ b # node /\ node \in Ancestors[b]
  /\ node' = b
  /\ UNCHANGED <<rvars, serving, pull, queue, bounds, history>>

\* A longer branch replaces at most MaxReorg blocks, never the first one.
Reorg(b) ==
  /\ Height[b] > Height[node] /\ node \notin Ancestors[b]
  /\ Fork(node, b) # Genesis
  /\ Height[node] <= Height[Fork(node, b)] + MaxReorg
  /\ node' = b
  /\ disturbed' = (disturbed \/ ~Aligned)
  /\ UNCHANGED <<rvars, serving, pull, queue, bounds, dropped>>

NodeReady ==
  /\ ~serving /\ node # Genesis
  /\ serving' = TRUE
  /\ UNCHANGED <<rvars, node, pull, queue, bounds, history>>

----------------------------------------------------------------------------
(* intersect_options, in two reads of the database.                        *)

LastHeight == LastProcessed(db).height

\* The heights pushed, in order.
OptionHeights[h \in BlockHeight] ==
  [i \in 1..Cardinality(Pushes(h)) |-> h - Walk[i - 1]]

\* A hash that is gone when it is read ends the stage ("missing hash by height").
Missing(h) == \E i \in DOMAIN OptionHeights[h] : db[HashKey(OptionHeights[h][i])] = Absent

OptionsAt(h) ==
  [i \in DOMAIN OptionHeights[h] |->
     [height |-> OptionHeights[h][i], hash |-> db[HashKey(OptionHeights[h][i])]]]
  \o <<PointOf(Genesis)>>

----------------------------------------------------------------------------
(* The pull stage.                                                         *)

PullLeaves == UNCHANGED <<rvars, world, queue, bounds, history>>

End == pull' = [pull EXCEPT !.pc = "ended"]

\* bootstrap: the first read of intersect_options, then the hashes and the
\* height of the node's best tip.
BootRead ==
  /\ pull.pc = "boot"
  /\ PullLeaves
  /\ pull' = [pull EXCEPT !.pc = "options", !.seen = LastHeight]

BootOptions ==
  /\ pull.pc = "options"
  /\ PullLeaves
  /\ IF Missing(pull.seen) THEN End
     ELSE pull' = [pull EXCEPT !.pc = "init", !.cursor = OptionsAt(pull.seen),
                               !.tip = Height[node]]

\* schedule, until initialised: node_syncing, and the tip refreshed if it is.
Initialise ==
  /\ pull.pc = "init"
  /\ PullLeaves
  /\ pull' = IF GetHeaders(<<PointOf(Genesis)>>) = <<>>
             THEN [pull EXCEPT !.tip = Height[node]]
             ELSE [pull EXCEPT !.pc = "fetch"]

RollForwardEvent(b, tip) == [type |-> "RollForward", point |-> PointOf(b), tip |-> tip]
RollBackEvent(p) == [type |-> "RollBack", point |-> p]
MempoolEvent(b) == [type |-> "MempoolBlocks", tip |-> b]

Larger(x, y) == IF x >= y THEN x ELSE y

\* A faulty variant of PageEvents: no rollback is sent for a fork.
PageEventsForward(at, page) ==
  [i \in 1..Len(page) |-> RollForwardEvent(page[i], Larger(pull.tip, Height[page[i]]))]

\* The events of a page of blocks after point at: a rollback first, if at is
\* not the cursor's tip; the tip estimate is raised along the blocks.
PageEvents(at, page) ==
  (IF at.height # pull.cursor[1].height THEN <<RollBackEvent(at)>> ELSE <<>>) \o
  [i \in 1..Len(page) |-> RollForwardEvent(page[i], Larger(pull.tip, Height[page[i]]))]

\* A faulty variant of PageCursor: oldest first.
PageCursorForward(page) ==
  [i \in 1..(IF Len(page) < CursorLen THEN Len(page) ELSE CursorLen) |-> PointOf(page[i])]

\* The page's own points, newest first, at most CursorLen of them.
PageCursor(page) ==
  [i \in 1..(IF Len(page) < CursorLen THEN Len(page) ELSE CursorLen) |->
     PointOf(page[Len(page) + 1 - i])]

AfterFetch == IF pull.tipReached THEN "template" ELSE "send"

FirstPage(headers) ==
  SubSeq(headers, 1, IF Len(headers) > PageSize THEN PageSize ELSE Len(headers))

\* fetch_chain_actions, headers received: blocks fetched, events made, and a
\* full page's cursor, or the first read to complete a short one.
FetchPage ==
  /\ pull.pc = "fetch"
  /\ PullLeaves
  /\ \E page \in {FirstPage(GetHeaders(pull.cursor))}, at \in {FirstOnChain(pull.cursor)} :
       LET new == [pull EXCEPT !.units = PageEvents(at, page),
                               !.tip = Larger(@, Height[page[Len(page)]])]
       IN  /\ page # <<>>
           /\ pull' = IF Len(page) >= CursorLen
                      THEN [new EXCEPT !.pc = AfterFetch,
                              !.cursor = Append(PageCursor(page), PointOf(Genesis))]
                      ELSE [new EXCEPT !.pc = "cursor", !.page = page, !.seen = LastHeight]

\* options.retain: the points below height h.  The points descend, so the ones
\* kept are the last ones.
Retained(options, h) ==
  SubSeq(options, Cardinality({i \in DOMAIN options : options[i].height >= h}) + 1, Len(options))

\* The options of the database below the page, read with the page's events
\* still to be sent and earlier ones perhaps still queued.
CompleteCursor ==
  /\ pull.pc = "cursor"
  /\ PullLeaves
  /\ IF Missing(pull.seen) THEN End
     ELSE pull' = [pull EXCEPT !.pc = AfterFetch, !.page = <<>>, !.seen = 0,
                     !.cursor = PageCursor(pull.page)
                       \o Retained(OptionsAt(pull.seen), Height[pull.page[1]])
                       \o <<PointOf(Genesis)>>]

\* A faulty variant of AtTip: the template is only asked for after a block.
AtTipQuiet ==
  /\ pull.pc = "fetch"
  /\ PullLeaves
  /\ GetHeaders(pull.cursor) = <<>>
  /\ pull' = [pull EXCEPT !.tipReached = TRUE]

\* No headers: the tip is reached, and the fetch is repeated once a block is
\* announced or five seconds have passed.
AtTip ==
  /\ pull.pc = "fetch"
  /\ PullLeaves
  /\ GetHeaders(pull.cursor) = <<>>
  /\ pull' = [pull EXCEPT !.tipReached = TRUE,
                          !.pc = IF pull.tipReached THEN "template" ELSE "fetch"]

\* A faulty variant of Template: on the block the database is at.
TemplateOnDb ==
  /\ pull.pc = "template"
  /\ PullLeaves
  /\ pull' = [pull EXCEPT !.pc = "send",
                          !.units = Append(@, MempoolEvent(LastProcessed(db).hash))]

\* getblocktemplate, on the node's tip of this moment.
Template ==
  /\ pull.pc = "template"
  /\ PullLeaves
  /\ pull' = [pull EXCEPT !.pc = "send", !.units = Append(@, MempoolEvent(node))]

Sent(e) ==
  /\ queue' = Append(queue, e)
  /\ pull' = [pull EXCEPT !.units = Tail(@),
                          !.pc = IF Len(pull.units) = 1 THEN "fetch" ELSE "send"]

\* execute: a send waits for room, and fails once the index stage has ended.
Send ==
  /\ pull.pc = "send"
  /\ \/ status = "running" /\ Len(queue) < QueueSize /\ Sent(Head(pull.units))
     \/ status # "running" /\ End /\ UNCHANGED queue
  /\ UNCHANGED <<rvars, world, bounds, history>>

\* An error of the peer or of the node's RPC (or_restart): a new worker, on
\* the same stage and queue; the events in hand are dropped.  (In run mode the
\* teardown of the old worker also tells main to end: that case is Crash.)
RestartPull ==
  /\ pull.pc \in {"init", "fetch", "template"}
  /\ faults < MaxFaults
  /\ pull' = NewWorker
  /\ faults' = faults + 1
  /\ disturbed' = (disturbed \/ InFlight)
  /\ UNCHANGED <<rvars, world, queue, flushes, dropped>>

PullStep ==
  \/ BootRead \/ BootOptions \/ Initialise
  \/ FetchPage \/ CompleteCursor \/ AtTip \/ Template \/ Send

----------------------------------------------------------------------------
(* The index stage, on the events of the queue.                            *)

\* The handler of an event ended with an error and dropped the event.
Dropped(e) ==
  /\ status' = "running"
  /\ CASE e.type = "RollForward" ->
            \/ processedMempool'
            \/ e.point.height = last.height + 1 /\ last' = last
       [] e.type = "RollBack" -> processedMempool' \/ last' # e.point
       [] e.type = "MempoolBlocks" -> processedMempool' # (e.tip = last.hash)

HandleEvent(e) ==
  \/ /\ e.type = "RollForward"
     /\ RollForward(e.point, e.tip)
     /\ delivered' = Larger(delivered, e.point.height)
  \/ /\ e.type = "RollBack"
     /\ RollBack(e.point)
     /\ UNCHANGED delivered
  \/ /\ e.type = "MempoolBlocks"
     /\ \E s \in Snapshot : MempoolBlocks(e.tip, s)
     /\ UNCHANGED delivered

IndexStep ==
  /\ queue # <<>>
  /\ queue' = Tail(queue)
  /\ UNCHANGED <<disk, world, pull, flushes, disturbed>>
  /\ HandleEvent(Head(queue))
  /\ faults' = IF Dropped(Head(queue)) THEN faults + 1 ELSE faults
  /\ faults' <= MaxFaults
  /\ dropped' = (dropped \/ Dropped(Head(queue)))

----------------------------------------------------------------------------
(* The process.                                                            *)

FlushTables ==
  /\ flushes < MaxFlushes
  /\ Flush
  /\ flushes' = flushes + 1
  /\ UNCHANGED <<world, pull, queue, faults, history>>

NewProcess ==
  /\ Reopen
  /\ pull' = NewWorker
  /\ queue' = <<>>
  /\ dropped' = FALSE /\ disturbed' = FALSE
  /\ UNCHANGED <<world, flushes>>

\* The pull stage has ended, with it the process, which is started again.
Restarted == pull.pc = "ended" /\ NewProcess /\ UNCHANGED faults

Crash == faults < MaxFaults /\ NewProcess /\ faults' = faults + 1

PNext ==
  \/ \E b \in Block : Grow(b) \/ Reorg(b)
  \/ NodeReady
  \/ PullStep
  \/ RestartPull
  \/ IndexStep
  \/ FlushTables
  \/ Restarted
  \/ Crash

\* Both stages run, the node finishes its download, and the process is
\* restarted when it ends (docker-compose.yml, restart: unless-stopped).
Fairness ==
  /\ WF_pvars(PullStep)
  /\ WF_pvars(IndexStep)
  /\ WF_pvars(NodeReady)
  /\ WF_pvars(Restarted)

PSpec == PInit /\ [][PNext]_pvars /\ Fairness

----------------------------------------------------------------------------
(* Properties.                                                             *)

\* The point the index stage will be at once it has processed the events es.
Destination(es) ==
  LET moves == {i \in 1..Len(es) : es[i].type # "MempoolBlocks"}
  IN  IF moves = {} THEN last ELSE es[CHOOSE i \in moves : \A j \in moves : j <= i].point

\* While nothing disturbed the pipeline, each event in flight fits the one
\* before: the blocks and rollbacks queued and still to be sent lead the index
\* stage from last_processed to the head of the cursor, and every block is
\* the child of the point before it (fetch_chain_actions).
CursorIsDestination ==
  (~disturbed /\ ~dropped /\ status = "running" /\ pull.pc \in {"fetch", "template", "send"}) =>
    LET es == queue \o pull.units
    IN  /\ Destination(es) = pull.cursor[1]
        /\ \A i \in 1..Len(es) :
             es[i].type = "RollForward" =>
               PointOf(Prev[es[i].point.hash]) = Destination(SubSeq(es, 1, i - 1))

\* No snapshot reaches the index stage below a block it has been given since
\* the process started, which is what IndexRecovery takes for granted of the
\* node: rollbacks, repeated blocks and late templates included.
TemplatesNotBelow ==
  LET es == queue \o pull.units
  IN  \A i \in 1..Len(es) :
        es[i].type = "MempoolBlocks" =>
          /\ Height[es[i].tip] >= delivered
          /\ \A j \in 1..(i - 1) :
               es[j].type = "RollForward" => Height[es[i].tip] >= es[j].point.height

\* A reorg the cursor is aligned with never ends the index stage: the rollback
\* point is in the buffer, and every block after it is accepted.
AlignedReorgHandled == (~disturbed /\ ~dropped) => status # "panicked"

\* Once the node has blocks, the index stage ends at the node's tip with the
\* node's mempool on it, whatever the failures, crashes, lost batches and races
\* before: each is cured by the restart of a stage or of the process.  Only an
\* event the index stage itself dropped may leave it behind, alive, until the
\* node's next block.
Converges ==
  <>[](\/ node = Genesis
       \/ last.hash = node /\ processedMempool
       \/ dropped /\ status = "running")
=============================================================================
