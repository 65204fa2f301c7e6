---------------------------- MODULE PeerSession ----------------------------
(***************************************************************************)
(* The session with the node (sync/stages/pull/peer.rs): the pull worker,  *)
(* the handler task, the ingress and egress tasks and the bounded channels *)
(* between them, over a connection that may be lost.  Blocks are the       *)
(* heights of one chain; forks are module Pipeline's concern, which takes  *)
(* the requests of this module as single steps.                            *)
(***************************************************************************)
EXTENDS Naturals, Sequences

CONSTANTS
  ChannelSize,     \* 20, the headers and blocks channels
  PageSize,        \* config.block_page_size
  MaxTip,          \* bound: blocks of the node
  MaxChat,         \* bound: pings and other messages of the node
  MaxFaults        \* bound: lost connections and bad messages

ASSUME SessionAssumption ==
  /\ ChannelSize \in Nat \ {0} /\ PageSize \in Nat \ {0}
  /\ MaxTip \in Nat /\ MaxChat \in Nat /\ MaxFaults \in Nat

VARIABLES
  client,    \* the pull worker: its position, the height it knows, the
             \* blocks it asked for and those it got, tip_reached, and, as
             \* history, the tip in the node's last answer
  requests,  \* channel of one: worker to handler
  headers,   \* channel: handler to worker
  blocks,    \* channel: handler to worker
  announced, \* new_block_notifier's permit
  ready,     \* init_notifier's permit
  handler,   \* PeerHandler: its position and the message it is sending on
  received,  \* channel of one: ingress to handler
  ingress,   \* Ingress: its position and the message it has read
  toSend,    \* channel of one: handler to egress
  egress,    \* Egress: its position and the message it is writing
  toNode,    \* sent and not yet handled by the node
  fromNode,  \* sent by the node and not yet read
  connected, \* the connection is up
  node,      \* the node: its tip and whether it completed the handshake
  bounds     \* chat and faults so far

results == <<headers, blocks>>
channels == <<requests, results, received, toSend>>
permits == <<announced, ready>>
tasks == <<handler, ingress, egress>>
wires == <<toNode, fromNode, connected>>
vars == <<client, channels, permits, tasks, wires, node, bounds>>

Height == 0..MaxTip

Nothing == [type |-> "nothing"]
Plain(t) == [type |-> t]
GetHeaders(h) == [type |-> "getheaders", from |-> h]
GetData(hs) == [type |-> "getdata", list |-> hs]
Headers(h, t) == [type |-> "headers", from |-> h, to |-> t]
BlockMsg(h) == [type |-> "block", height |-> h]

\* The blocks of a page of headers after height h.
Page(h, t) == [i \in 1..(IF t - h < PageSize THEN t - h ELSE PageSize) |-> h + i]

Task(p) == [pc |-> p, msg |-> Nothing]

\* A worker whose cursor begins at height h.
Worker(h) == [pc |-> "boot", known |-> h, want |-> <<>>, got |-> <<>>,
              reached |-> FALSE, told |-> 0]

Init ==
  /\ client = Worker(0)
  /\ requests = <<>> /\ headers = <<>> /\ blocks = <<>>
  /\ received = <<>> /\ toSend = <<>>
  /\ announced = FALSE /\ ready = FALSE
  /\ handler = Task("ended") /\ ingress = Task("ended") /\ egress = Task("ended")
  /\ toNode = <<>> /\ fromNode = <<>> /\ connected = FALSE
  /\ node = [tip |-> 0, ready |-> FALSE]
  /\ bounds = [chat |-> 0, faults |-> 0]

----------------------------------------------------------------------------
(* The pull worker.                                                        *)

\* New channels, notifiers and connection.
Fresh ==
  /\ requests' = <<>> /\ headers' = <<>> /\ blocks' = <<>>
  /\ received' = <<>> /\ toSend' = <<>>
  /\ announced' = FALSE /\ ready' = FALSE
  /\ toNode' = <<>> /\ fromNode' = <<>>
  /\ node' = [node EXCEPT !.ready = FALSE]

\* Peer::connect and PeerHandler::new (a refused connection is retried).
Connect ==
  /\ client.pc = "boot"
  /\ client' = [client EXCEPT !.pc = "handshake"]
  /\ Fresh
  /\ connected' = TRUE
  /\ handler' = Task("start") /\ ingress' = Task("run") /\ egress' = Task("run")
  /\ UNCHANGED bounds

Others == <<received, toSend, tasks, wires, node, bounds>>

\* A faulty variant of Connected: the handshake is not waited for.
ConnectedAtOnce ==
  /\ client.pc = "handshake"
  /\ client' = [client EXCEPT !.pc = "init"]
  /\ UNCHANGED <<requests, results, permits, Others>>

\* init_notifier.notified()
Connected ==
  /\ client.pc = "handshake" /\ ready
  /\ ready' = FALSE
  /\ client' = [client EXCEPT !.pc = "init"]
  /\ UNCHANGED <<requests, results, announced, Others>>

\* An error ends the worker (teardown) and drops the session.  The cursor of
\* the next one is read from the database, perhaps behind what this one got.
Restart ==
  /\ \E k \in 0..client.known : client' = Worker(k)
  /\ Fresh
  /\ connected' = FALSE
  /\ handler' = Task("ended") /\ ingress' = Task("ended") /\ egress' = Task("ended")
  /\ UNCHANGED bounds

\* The handler has ended: its ends of the channels are closed.
Ended == handler.pc = "ended"

\* A request waits for room in the channel, and fails once it is closed: in
\* get_new_headers with an error, in get_blocks with a panic, which ends the
\* stage and with it the process, to be started again.
Ask(from, request, to) ==
  /\ client.pc = from
  /\ \/ Ended /\ Restart
     \/ /\ ~Ended /\ requests = <<>>
        /\ requests' = <<request>>
        /\ client' = [client EXCEPT !.pc = to]
        /\ UNCHANGED <<results, permits, Others>>

AskSyncing == Ask("init", GetHeaders(0), "syncing")
AskHeaders == Ask("ask", GetHeaders(client.known), "headers")
AskBlocks == Ask("fetch", GetData(client.want), "blocks")

\* node_syncing: a node that has no headers after genesis is asked again.
TakeSyncing ==
  /\ client.pc = "syncing"
  /\ \/ /\ headers # <<>>
        /\ headers' = Tail(headers)
        /\ client' = [client EXCEPT !.pc = IF Head(headers).to = 0 THEN "init" ELSE "ask"]
        /\ UNCHANGED <<requests, blocks, permits, Others>>
     \/ headers = <<>> /\ Ended /\ Restart

\* A faulty variant of TakeHeaders: the wait times out and is repeated.
TakeHeadersImpatient ==
  /\ client.pc = "headers" /\ headers = <<>>
  /\ client' = [client EXCEPT !.pc = "ask"]
  /\ UNCHANGED <<requests, results, permits, Others>>

\* get_new_headers, the answer: no headers, the tip is reached; else a page of
\* blocks is asked for.
TakeHeaders ==
  /\ client.pc = "headers"
  /\ \/ /\ headers # <<>>
        /\ headers' = Tail(headers)
        /\ client' = LET page == Page(Head(headers).from, Head(headers).to)
                     IN  [client EXCEPT !.pc = IF page = <<>> THEN "idle" ELSE "fetch",
                                        !.want = page,
                                        !.reached = @ \/ page = <<>>,
                                        !.told = Head(headers).to]
        /\ UNCHANGED <<requests, blocks, permits, Others>>
     \/ headers = <<>> /\ Ended /\ Restart

TakeBlock ==
  /\ client.pc = "blocks" /\ Len(client.got) < Len(client.want)
  /\ \/ /\ blocks # <<>>
        /\ blocks' = Tail(blocks)
        /\ client' = [client EXCEPT !.got = Append(@, Head(blocks))]
        /\ UNCHANGED <<requests, headers, permits, Others>>
     \/ blocks = <<>> /\ Ended /\ Restart

\* get_blocks, all received: each must be the block asked for in its place.
\* Once the tip was reached, every tick begins with the wait for a block.
CheckBlocks ==
  /\ client.pc = "blocks" /\ Len(client.got) = Len(client.want)
  /\ \/ /\ client.got = client.want
        /\ client' = [client EXCEPT !.pc = IF client.reached THEN "idle" ELSE "ask",
                                    !.known = client.want[Len(client.want)],
                                    !.want = <<>>, !.got = <<>>]
        /\ UNCHANGED <<requests, results, permits, Others>>
     \/ client.got # client.want /\ Restart

\* At the tip: a permit, or the timeout of five seconds, starts the next tick.
Wake ==
  /\ client.pc = "idle"
  /\ announced' = FALSE
  /\ client' = [client EXCEPT !.pc = "ask"]
  /\ UNCHANGED <<requests, results, ready, Others>>

ClientStep ==
  \/ Connect \/ Connected \/ AskSyncing \/ TakeSyncing \/ AskHeaders \/ TakeHeaders
  \/ AskBlocks \/ TakeBlock \/ CheckBlocks \/ Wake

----------------------------------------------------------------------------
(* PeerHandler.                                                            *)

\* The handler returns: it aborts the other tasks and closes the channels.
HandlerEnds ==
  /\ handler' = Task("ended") /\ ingress' = Task("ended") /\ egress' = Task("ended")
  /\ requests' = <<>> /\ received' = <<>> /\ toSend' = <<>>
  /\ UNCHANGED <<results, permits>>

HandlerLeaves == UNCHANGED <<client, wires, node, bounds>>

Sending(m) == handler' = [pc |-> "send", msg |-> m]

\* run: the version message comes first.
HandlerStart ==
  /\ handler.pc = "start"
  /\ Sending(Plain("version"))
  /\ UNCHANGED <<channels, permits, ingress, egress>> /\ HandlerLeaves

\* tick: a request of the worker.
OnRequest ==
  /\ handler.pc = "tick" /\ requests # <<>>
  /\ requests' = <<>>
  /\ Sending(Head(requests))
  /\ UNCHANGED <<results, received, toSend, permits, ingress, egress>> /\ HandlerLeaves

\* A faulty variant of Notified: only a waiting worker is told (notify_waiters).
NotifiedIfWaiting(m) ==
  /\ ready' = (ready \/ m.type = "verack")
  /\ announced' = (announced \/ (m.type = "inv" /\ client.pc = "idle"))

\* notify_one: the permit is kept for a worker that is not waiting.
Notified(m) ==
  /\ ready' = (ready \/ m.type = "verack")
  /\ announced' = (announced \/ m.type = "inv")

\* tick: a message of the node; what is to be sent on for it, if anything.
Reaction(m) ==
  CASE m.type = "version" -> Plain("verack")
    [] m.type = "ping" -> Plain("pong")
    [] m.type \in {"headers", "block"} -> m
    [] OTHER -> Nothing

OnMessage ==
  /\ handler.pc = "tick" /\ received # <<>>
  /\ received' = <<>>
  /\ Notified(Head(received))
  /\ handler' = LET m == Reaction(Head(received))
                IN  [pc |-> IF m = Nothing THEN "tick" ELSE "send", msg |-> m]
  /\ UNCHANGED <<requests, results, toSend, ingress, egress>> /\ HandlerLeaves

\* A faulty variant of OnClosed: a closed channel is passed over.
OnClosedIgnored ==
  /\ handler.pc = "tick" /\ received = <<>> /\ ingress.pc = "ended"
  /\ UNCHANGED <<channels, permits, tasks>> /\ HandlerLeaves

\* tick: the ingress task has ended and all it received is handled.
OnClosed ==
  /\ handler.pc = "tick" /\ received = <<>> /\ ingress.pc = "ended"
  /\ HandlerEnds /\ HandlerLeaves

Room(channel) == Len(channel) < ChannelSize

\* The send of the message in hand waits for room, and fails if the egress
\* task has ended.
SendOn ==
  /\ handler.pc = "send"
  /\ LET m == handler.msg IN
     \/ /\ m.type = "headers" /\ Room(headers)
        /\ headers' = Append(headers, m)
        /\ handler' = Task("tick")
        /\ UNCHANGED <<requests, blocks, received, toSend, ingress, egress, permits>>
     \/ /\ m.type = "block" /\ Room(blocks)
        /\ blocks' = Append(blocks, m.height)
        /\ handler' = Task("tick")
        /\ UNCHANGED <<requests, headers, received, toSend, ingress, egress, permits>>
     \/ /\ m.type \notin {"headers", "block"} /\ egress.pc = "run" /\ toSend = <<>>
        /\ toSend' = <<m>>
        /\ handler' = Task("tick")
        /\ UNCHANGED <<requests, results, received, ingress, egress, permits>>
     \/ /\ m.type \notin {"headers", "block"} /\ egress.pc = "ended"
        /\ HandlerEnds
  /\ HandlerLeaves

HandlerStep == HandlerStart \/ OnRequest \/ OnMessage \/ OnClosed \/ SendOn

----------------------------------------------------------------------------
(* Ingress and Egress.                                                     *)

IngressLeaves == UNCHANGED <<client, requests, results, toSend, permits, handler, egress,
                             toNode, connected, node>>

\* read_message, then the send to the handler, which waits for room.
Read ==
  /\ ingress = Task("run") /\ fromNode # <<>>
  /\ ingress' = [ingress EXCEPT !.msg = Head(fromNode)]
  /\ fromNode' = Tail(fromNode)
  /\ UNCHANGED <<received, bounds>> /\ IngressLeaves

Deliver ==
  /\ ingress.msg # Nothing /\ received = <<>>
  /\ received' = <<ingress.msg>>
  /\ ingress' = Task("run")
  /\ UNCHANGED <<fromNode, bounds>> /\ IngressLeaves

\* The connection is lost and what arrived is read.
ReadFails ==
  /\ ingress = Task("run") /\ fromNode = <<>> /\ ~connected
  /\ ingress' = Task("ended")
  /\ UNCHANGED <<received, fromNode, bounds>> /\ IngressLeaves

\* A message that cannot be decoded ends the task.
DecodeFails ==
  /\ ingress = Task("run") /\ fromNode # <<>>
  /\ bounds.faults < MaxFaults
  /\ ingress' = Task("ended")
  /\ bounds' = [bounds EXCEPT !.faults = @ + 1]
  /\ UNCHANGED <<received, fromNode>> /\ IngressLeaves

EgressLeaves == UNCHANGED <<client, requests, results, received, permits, handler, ingress,
                            fromNode, connected, node, bounds>>

TakeMessage ==
  /\ egress = Task("run") /\ toSend # <<>>
  /\ egress' = [egress EXCEPT !.msg = Head(toSend)]
  /\ toSend' = <<>>
  /\ UNCHANGED toNode /\ EgressLeaves

Write ==
  /\ egress.msg # Nothing
  /\ \/ connected /\ toNode' = Append(toNode, egress.msg) /\ egress' = Task("run")
     \/ ~connected /\ egress' = Task("ended") /\ UNCHANGED toNode
  /\ UNCHANGED toSend /\ EgressLeaves

IngressStep == Read \/ Deliver \/ ReadFails
EgressStep == TakeMessage \/ Write

----------------------------------------------------------------------------
(* The node (external): it handles messages in order, answers each request *)
(* once, sends headers and blocks only when asked, and announces blocks.   *)
(* A request that comes before the verack it ignores.                      *)

NodeLeaves == UNCHANGED <<client, channels, permits, tasks, connected>>

Answers(m) ==
  CASE m.type = "version" -> <<Plain("version"), Plain("verack")>>
    [] m.type = "getheaders" /\ node.ready -> <<Headers(m.from, node.tip)>>
    [] OTHER -> <<>>

Answer ==
  /\ connected /\ toNode # <<>> /\ Head(toNode).type # "getdata"
  /\ fromNode' = fromNode \o Answers(Head(toNode))
  /\ toNode' = Tail(toNode)
  /\ node' = [node EXCEPT !.ready = @ \/ Head(toNode).type = "verack"]
  /\ UNCHANGED bounds /\ NodeLeaves

\* The rest of a getdata after its first block.
Rest(m) == IF Len(m.list) = 1 THEN <<>> ELSE <<GetData(Tail(m.list))>>

\* The blocks of a getdata, one at a time; or, a fault, another block.
AnswerBlock ==
  /\ connected /\ toNode # <<>> /\ Head(toNode).type = "getdata"
  /\ toNode' = Rest(Head(toNode)) \o Tail(toNode)
  /\ \/ /\ fromNode' = Append(fromNode, BlockMsg(Head(Head(toNode).list)))
        /\ UNCHANGED bounds
     \/ /\ bounds.faults < MaxFaults
        /\ fromNode' = Append(fromNode, BlockMsg(0))
        /\ bounds' = [bounds EXCEPT !.faults = @ + 1]
  /\ UNCHANGED node /\ NodeLeaves

NewBlock ==
  /\ node.tip < MaxTip
  /\ node' = [node EXCEPT !.tip = @ + 1]
  /\ fromNode' = IF connected /\ node.ready THEN Append(fromNode, Plain("inv")) ELSE fromNode
  /\ UNCHANGED <<toNode, bounds>> /\ NodeLeaves

\* A ping, or a message the handler has no use for.
Chat ==
  /\ connected /\ node.ready /\ bounds.chat < MaxChat
  /\ \E t \in {"ping", "unused"} : fromNode' = Append(fromNode, Plain(t))
  /\ bounds' = [bounds EXCEPT !.chat = @ + 1]
  /\ UNCHANGED <<toNode, node>> /\ NodeLeaves

\* The connection is lost, with some of what was under way.
Lose ==
  /\ connected /\ bounds.faults < MaxFaults
  /\ connected' = FALSE
  /\ toNode' = <<>>
  /\ \E n \in 0..Len(fromNode) : fromNode' = SubSeq(fromNode, 1, n)
  /\ bounds' = [bounds EXCEPT !.faults = @ + 1]
  /\ UNCHANGED <<client, channels, permits, tasks, node>>

NodeStep == Answer \/ AnswerBlock

Next ==
  \/ ClientStep \/ HandlerStep
  \/ IngressStep \/ DecodeFails
  \/ EgressStep
  \/ NodeStep \/ NewBlock \/ Chat \/ Lose

\* The tasks are scheduled, and the node answers while it is connected.
Fairness ==
  /\ WF_vars(ClientStep) /\ WF_vars(HandlerStep)
  /\ WF_vars(IngressStep) /\ WF_vars(EgressStep) /\ WF_vars(NodeStep)

Spec == Init /\ [][Next]_vars /\ Fairness

----------------------------------------------------------------------------
(* Properties.                                                             *)

\* The messages of type t of a channel or wire, oldest first.
OfType(seq, t) ==
  LET kept[n \in 0..Len(seq)] ==
        IF n = 0 THEN <<>>
        ELSE IF seq[n].type = t THEN Append(kept[n - 1], seq[n]) ELSE kept[n - 1]
  IN  kept[Len(seq)]

Held(task) == IF task.msg = Nothing THEN <<>> ELSE <<task.msg>>

\* The message the handler is sending to the worker, or to the node.
ToWorker == IF handler.msg.type \in {"headers", "block"} THEN <<handler.msg>> ELSE <<>>
ToEgress == IF handler.msg.type \in {"headers", "block"} THEN <<>> ELSE Held(handler)

\* What the node has sent and the handler may still get, oldest first: what is
\* on the wire when Ingress ends is never read.
Arriving == received \o (IF ingress.pc = "run" THEN Held(ingress) \o fromNode ELSE <<>>)

\* What the handler has sent and the node has not handled yet.
Leaving == toNode \o Held(egress) \o toSend \o ToEgress

Inbound(t) == OfType(ToWorker \o Arriving, t)
Outbound(t) == OfType(Leaving \o requests, t)

\* The blocks got, relayed, under way and still to be sent by the node.
AllBlocks ==
  LET sent == Inbound("block")
      left == Outbound("getdata")
  IN  client.got \o blocks \o [i \in 1..Len(sent) |-> sent[i].height]
      \o (IF left = <<>> \/ ingress.pc # "run" THEN <<>> ELSE left[1].list)

Intact == connected /\ ingress.pc = "run"

\* An answer is told from another only by its place in a channel
\* (headers_recv, blocks_recv), so what is under way must be exactly the answer
\* to the request being waited for: one list of headers for the cursor asked
\* with, or the rest of the blocks asked for, in order, none twice and none
\* missing but for a lost connection; and nothing when nothing is waited for.
AnswersMatch ==
  /\ LET hs == headers \o Inbound("headers")
         asked == hs \o Outbound("getheaders")
         waits == client.pc \in {"syncing", "headers"}
     IN  /\ \A i \in 1..Len(asked) :
              asked[i].from = IF client.pc = "syncing" THEN 0 ELSE client.known
         /\ Len(asked) <= IF waits THEN 1 ELSE 0
         /\ waits /\ Intact => Len(asked) = 1
  /\ client.pc # "blocks" => AllBlocks = <<>>
  /\ client.pc = "blocks" =>
       /\ Len(AllBlocks) <= Len(client.want)
       /\ Intact => Len(AllBlocks) = Len(client.want)
       /\ \A i \in 1..Len(AllBlocks) : AllBlocks[i] \in {client.want[i], 0}

\* A block announced while the worker is busy is not slept over: a worker that
\* waits for a notification, when the node has a block that was not in its last
\* answer, has one in store or under way (new_block_notifier).  Blocks that
\* were in the answer and beyond the page are left to the timeout.
NoLostWakeup ==
  (client.pc = "idle" /\ Intact /\ client.told < node.tip) =>
    announced \/ Inbound("inv") # <<>>

\* No wait of the worker lasts for ever: whatever is lost, and whenever, it
\* ends with the node's last block, and no request is sent so early, before the
\* node's handshake is complete, that its answer never comes.  The exception is
\* Peer::connect, which does not learn that the session ended before the verack.
CatchesUp ==
  <>[](client.known = node.tip \/ (client.pc = "handshake" /\ Ended))
=============================================================================
