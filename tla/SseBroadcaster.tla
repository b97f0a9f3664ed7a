--------------------------- MODULE SseBroadcaster ---------------------------
(***************************************************************************)
(* The event stream of one run: app/agent/sse.py between the graph nodes   *)
(* that publish and the dashboard pages that listen through an EventSource *)
(* (frontend/src/hooks/use-sse.ts), which reconnects by itself and then    *)
(* names the last id it saw.  A run has one buffer, one counter and one    *)
(* live queue, whatever the number of listeners.  Clearing the run forgets *)
(* all three, but an open stream keeps the queue object it started with:   *)
(* queues are told apart by the epoch they belong to.                      *)
(***************************************************************************)
EXTENDS Naturals, SequencesExt

CONSTANTS
    Pages,      \* dashboard pages that follow the run
    Streams,    \* stream() generators the server may be running at once
    MaxBuffer,  \* SSEBroadcaster.max_buffer
    MaxEvents,  \* bound: events published in an epoch
    MaxEpoch,   \* bound: times the run is cleared
    MaxDrops    \* bound: connections that break

ASSUME BroadcasterAssumption ==
    /\ MaxBuffer \in Nat \ {0} /\ MaxEvents \in Nat
    /\ MaxEpoch \in Nat /\ MaxDrops \in Nat

NoStream == "no stream"
NoPage == "no page"
ASSUME NamesAssumption == NoStream \notin Streams /\ NoPage \notin Pages

Epochs == 0..MaxEpoch
Ids == 1..MaxEvents

VARIABLES
    epoch,    \* how often the run was cleared
    counter,  \* _event_counter: the id of the last event
    buffer,   \* ids in the replay buffer
    queues,   \* the live queue of each epoch
    opens,    \* streams opened in this epoch (2 = more): the first makes the queue
    stream,   \* each generator: its step, listener, queue and what is left to replay
    page,     \* each page: is it up, its connection, the last id, all it received
    drops     \* connections that broke so far

vars == <<epoch, counter, buffer, queues, opens, stream, page, drops>>

Off == [at |-> "off", page |-> NoPage, epoch |-> 0, todo |-> <<>>]
Closed == [up |-> FALSE, conn |-> NoStream, last |-> 0, got |-> <<>>]

TypeOK ==
    /\ epoch \in Epochs /\ counter \in 0..MaxEvents /\ drops \in 0..MaxDrops
    /\ buffer \in Seq(Ids) /\ Len(buffer) <= MaxBuffer
    /\ queues \in [Epochs -> Seq(Ids)] /\ opens \in 0..2
    /\ stream \in [Streams -> [at : {"off", "replay", "live"}, page : Pages \union {NoPage},
                               epoch : Epochs, todo : Seq(Ids)]]
    /\ page \in [Pages -> [up : BOOLEAN, conn : Streams \union {NoStream},
                           last : 0..MaxEvents, got : Seq(Epochs \X Ids)]]

Init ==
    /\ epoch = 0 /\ counter = 0 /\ buffer = <<>> /\ opens = 0 /\ drops = 0
    /\ queues = [e \in Epochs |-> <<>>]
    /\ stream = [s \in Streams |-> Off]
    /\ page = [p \in Pages |-> Closed]
-----------------------------------------------------------------------------
\* Faulty variant: the buffer has no maxlen.
BufferedAll(id) == Append(buffer, id)

\* deque(maxlen=max_buffer).append
Buffered(id) ==
    IF Len(buffer) = MaxBuffer THEN Append(Tail(buffer), id) ELSE Append(buffer, id)

\* Faulty variant: the queue takes events before anyone listens.
EnqueuedAlways(id) == [queues EXCEPT ![epoch] = Append(@, id)]

\* Events go to the queue once it exists, whether or not anyone reads it.
Enqueued(id) == IF opens > 0 THEN [queues EXCEPT ![epoch] = Append(@, id)] ELSE queues

Publish ==
    /\ counter < MaxEvents
    /\ counter' = counter + 1
    /\ buffer' = Buffered(counter')
    /\ queues' = Enqueued(counter')
    /\ UNCHANGED <<epoch, opens, stream, page, drops>>

\* What is buffered above an id: the ids in the buffer ascend, so that is all
\* of it from the first such id on.
Above(last) ==
    LET first == SelectInSeq(buffer, LAMBDA id : id > last)
    IN  IF first = 0 THEN <<>> ELSE SubSeq(buffer, first, Len(buffer))

\* Faulty variant: the replay begins one event too late.
MissedLate(last) == Above(last + 1)

\* What stream() replays to a listener that has seen `last'.
Missed(last) == Above(last)

\* Faulty variant: the queue of the first stream is not registered.
BeginUnregistered(s, p, last) ==
    /\ stream[s].at = "off"
    /\ stream' = [stream EXCEPT ![s] = [at |-> "replay", page |-> p, epoch |-> epoch,
                                        todo |-> Missed(last)]]
    /\ UNCHANGED <<epoch, counter, buffer, queues, opens, drops>>

\* stream() up to its first yield, for a page with or without a Last-Event-ID.
Begin(s, p, last) ==
    /\ stream[s].at = "off"
    /\ stream' = [stream EXCEPT ![s] = [at |-> "replay", page |-> p, epoch |-> epoch,
                                        todo |-> Missed(last)]]
    /\ opens' = IF opens < 2 THEN opens + 1 ELSE 2
    /\ UNCHANGED <<epoch, counter, buffer, queues, drops>>

\* A page is opened on the run: a new EventSource and an empty event list.
Open(p, s) ==
    /\ ~page[p].up
    /\ Begin(s, p, 0)
    /\ page' = [page EXCEPT ![p] = [Closed EXCEPT !.up = TRUE, !.conn = s]]

\* The EventSource reconnects.
Retry(p, s) ==
    /\ page[p].up /\ page[p].conn = NoStream
    /\ Begin(s, p, page[p].last)
    /\ page' = [page EXCEPT ![p].conn = s]

\* A chunk reaches the page at the other end, if there is still one.
Received(s, id) ==
    [p \in Pages |-> IF page[p].conn = s
                     THEN [page[p] EXCEPT !.last = id, !.got = Append(@, <<stream[s].epoch, id>>)]
                     ELSE page[p]]

Replay(s) ==
    /\ stream[s].at = "replay"
    /\ IF stream[s].todo = <<>>
       THEN stream' = [stream EXCEPT ![s].at = "live"] /\ UNCHANGED page
       ELSE /\ stream' = [stream EXCEPT ![s].todo = Tail(@)]
            /\ page' = Received(s, Head(stream[s].todo))
    /\ UNCHANGED <<epoch, counter, buffer, queues, opens, drops>>

Live(s) ==
    /\ stream[s].at = "live"
    /\ LET q == stream[s].epoch
       IN  /\ queues[q] # <<>>
           /\ queues' = [queues EXCEPT ![q] = Tail(@)]
           /\ page' = Received(s, Head(queues[q]))
    /\ UNCHANGED <<epoch, counter, buffer, opens, stream, drops>>

\* The connection breaks, or the page is closed; the server goes on sending
\* until it notices.
Drop(p) ==
    /\ page[p].conn # NoStream /\ drops < MaxDrops
    /\ drops' = drops + 1
    /\ page' = [page EXCEPT ![p].conn = NoStream]
    /\ UNCHANGED <<epoch, counter, buffer, queues, opens, stream>>

Close(p) ==
    /\ page[p].up /\ drops < MaxDrops
    /\ drops' = drops + 1
    /\ page' = [page EXCEPT ![p] = Closed]
    /\ UNCHANGED <<epoch, counter, buffer, queues, opens, stream>>

Notice(s) ==
    /\ stream[s].at # "off"
    /\ \A p \in Pages : page[p].conn # s
    /\ stream' = [stream EXCEPT ![s] = Off]
    /\ UNCHANGED <<epoch, counter, buffer, queues, opens, page, drops>>

\* The dashboard drops its run before it asks for the reset (handleReset), so
\* no page is up.  The graph under way is not stopped: it goes on publishing.
Clear ==
    /\ epoch < MaxEpoch
    /\ \A p \in Pages : ~page[p].up
    /\ epoch' = epoch + 1
    /\ counter' = 0 /\ buffer' = <<>> /\ opens' = 0
    /\ UNCHANGED <<queues, stream, page, drops>>

Serve(s) == Replay(s) \/ Live(s) \/ Notice(s)

Next ==
    \/ Publish \/ Clear
    \/ \E p \in Pages : \/ Drop(p) \/ Close(p)
                        \/ \E s \in Streams : Open(p, s) \/ Retry(p, s)
    \/ \E s \in Streams : Serve(s)

\* The event loop runs every generator and a browser does not give up
\* reconnecting; nobody has to publish, open, close or reset anything.
Spec ==
    /\ Init /\ [][Next]_vars
    /\ \A s \in Streams : WF_vars(Serve(s))
    /\ \A p \in Pages : WF_vars(\E s \in Streams : Retry(p, s))
-----------------------------------------------------------------------------
Seen(p) == {e[2] : e \in {x \in ToSet(page[p].got) : x[1] = epoch}}
OnItsWay(s) == ToSet(stream[s].todo) \union ToSet(queues[stream[s].epoch])

\* As long as the run had one stream only, its page has all events from the
\* first one it received on, in order, once each, however publishing and
\* replaying interleave (sse.py docstring: "Buffers events even before GET
\* /agent/stream/{run_id} connects, then replays them").
FirstStreamIsExact ==
    opens < 2 => \A p \in Pages :
        LET got == page[p].got
            now == {k \in DOMAIN got : got[k][1] = epoch}
        IN  \A j, k \in now :
                (j < k /\ now \intersect (j + 1)..(k - 1) = {}) => got[k][2] = got[j][2] + 1

\* A page that is up misses no event that is still in the replay buffer: it
\* has it, or its stream brings it; and what it does not have yet the next
\* reconnect would bring, so chunks lost in flight when a connection breaks
\* are not lost for good.
NothingMissed ==
    \A p \in Pages : page[p].up =>
        \A id \in ToSet(buffer) \ Seen(p) :
            /\ id \in ToSet(Missed(page[p].last))
            /\ page[p].conn # NoStream => id \in OnItsWay(page[p].conn)

\* An event that stays in the buffer reaches every page that stays up.
EventsArrive ==
    \A p \in Pages, id \in Ids :
        (page[p].up /\ id \in ToSet(buffer)) ~>
            (id \in Seen(p) \/ id \notin ToSet(buffer) \/ ~page[p].up)
=============================================================================
