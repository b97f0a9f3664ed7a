------------------------ MODULE SseBroadcasterProofs ------------------------
(***************************************************************************)
(* The safety of the event stream, for any number of pages and streams.    *)
(* What a page has received, what its stream has left to replay and what   *)
(* waits in the live queue are three pieces of one run of ids, and each    *)
(* piece is a block of consecutive ids; the inductive invariant says where *)
(* each block ends.  All of them end at the counter or at the next block.  *)
(***************************************************************************)
EXTENDS SseBroadcaster, Integers, SequenceTheorems, TLAPS

\* A block of consecutive ids, the first of them after `first'.
Numbered(ids, first) == \A k \in 1..Len(ids) : ids[k] = first + k

\* Streams that read the live queue as it is now.
Current(s) == stream[s].at # "off" /\ stream[s].epoch = epoch

ServerInv ==
    /\ Len(buffer) <= counter /\ Numbered(buffer, counter - Len(buffer))
    /\ Len(queues[epoch]) <= counter
    /\ Numbered(queues[epoch], counter - Len(queues[epoch]))
    /\ opens = 0 => queues[epoch] = <<>>
    /\ \A e \in Epochs : e > epoch => queues[e] = <<>>

\* While the run had one stream, no two streams share its queue.
StreamInv ==
    /\ \A s \in Streams : stream[s].epoch <= epoch
    /\ \A s \in Streams : stream[s].at = "live" => stream[s].todo = <<>>
    /\ \A s \in Streams : Current(s) => opens > 0
    /\ opens < 2 => \A s, t \in Streams : Current(s) /\ Current(t) => s = t

\* A page listens to a current stream that nobody else listens to, and has
\* nothing from before the last reset.
PageInv ==
    /\ \A p \in Pages : ~page[p].up => page[p] = Closed
    /\ \A p \in Pages : page[p].up => opens > 0 /\ page[p].last <= counter
    /\ \A p \in Pages : page[p].conn # NoStream => Current(page[p].conn)
    /\ \A p, q \in Pages : page[p].conn # NoStream /\ page[q].conn = page[p].conn => p = q
    /\ \A p \in Pages : \A k \in 1..Len(page[p].got) : page[p].got[k][1] = epoch

Shape == TypeOK /\ ServerInv /\ StreamInv /\ PageInv

\* What a current stream has left to replay is a block of known ids.
TodoInv ==
    \A s \in Streams : Current(s) =>
        \A k \in 1..Len(stream[s].todo) :
            /\ stream[s].todo[k] = stream[s].todo[1] + (k - 1)
            /\ stream[s].todo[k] <= counter

\* The newest id that a stream has nothing left of: it is the last one the
\* listener got, if nobody else reads the queue.
Done(s) == counter - Len(queues[epoch]) - Len(stream[s].todo)

\* Consecutive ids, the last of them `id'.
Exact(got) == \A k \in 1..Len(got) : got[k][2] = got[1][2] + (k - 1)
UpTo(got, id) == got # <<>> => got[Len(got)][2] = id

ExactInv ==
    opens < 2 => \A p \in Pages :
        /\ Exact(page[p].got)
        /\ \A s \in Streams : page[p].conn = s =>
              Numbered(stream[s].todo, Done(s)) /\ UpTo(page[p].got, Done(s))

IInv == Shape /\ TodoInv /\ ExactInv
-----------------------------------------------------------------------------
\* Blocks of ids.

LEMMA NumberedAppend ==
  ASSUME NEW ids \in Seq(Int), NEW first \in Int, Numbered(ids, first),
         NEW id \in Int, id = first + Len(ids) + 1
  PROVE  Numbered(Append(ids, id), first) /\ Len(Append(ids, id)) = Len(ids) + 1
  BY DEF Numbered

LEMMA NumberedTail ==
  ASSUME NEW ids \in Seq(Int), NEW first \in Int, Numbered(ids, first), ids # <<>>
  PROVE  /\ Head(ids) = first + 1
         /\ Tail(ids) \in Seq(Int)
         /\ Len(Tail(ids)) = Len(ids) - 1
         /\ Numbered(Tail(ids), first + 1)
  BY DEF Numbered

\* A block that ends at `last': its first id leaves it.
LEMMA BlockTail ==
  ASSUME NEW ids \in Seq(Int), NEW last \in Int, Numbered(ids, last - Len(ids)), ids # <<>>
  PROVE  /\ Head(ids) = last - Len(ids) + 1 /\ Head(ids) <= last
         /\ Tail(ids) \in Seq(Int) /\ Len(Tail(ids)) = Len(ids) - 1 /\ Len(ids) >= 1
         /\ Numbered(Tail(ids), last - Len(Tail(ids)))
  <1> DEFINE first == last - Len(ids)
  <1>1. Len(ids) \in Nat \ {0} /\ first \in Int /\ Numbered(ids, first)
    BY EmptySeq
  <1>2. first + 1 = last - (Len(ids) - 1)
    BY <1>1
  <1>3. /\ Head(ids) = first + 1 /\ Tail(ids) \in Seq(Int) /\ Len(Tail(ids)) = Len(ids) - 1
        /\ Numbered(Tail(ids), first + 1)
    <2> HIDE DEF first
    <2> QED  BY <1>1, NumberedTail
  <1> QED  BY <1>1, <1>2, <1>3

\* What is replayed is what the buffer holds above the last id seen, all of
\* it and nothing else, up to the newest event.
LEMMA MissedIsFilter ==
  ASSUME NEW last \in Nat, buffer \in Seq(Ids), counter \in Nat,
         Len(buffer) <= counter, Numbered(buffer, counter - Len(buffer))
  PROVE  /\ Missed(last) \in Seq(Ids)
         /\ Len(Missed(last)) <= Len(buffer)
         /\ Numbered(Missed(last), counter - Len(Missed(last)))
         /\ ToSet(Missed(last)) = {id \in ToSet(buffer) : id > last}
  <1> DEFINE before == counter - Len(buffer)
             I == {k \in 1..Len(buffer) : buffer[k] > last}
             first == IF last <= before THEN 1 ELSE last - before + 1
  <1>0. before \in Nat /\ Len(buffer) \in Nat /\ first \in Nat \ {0}
    OBVIOUS
  <1>1. \A k \in 1..Len(buffer) : buffer[k] = before + k
    BY DEF Numbered
  <1>2. I = first..Len(buffer)
    BY <1>0, <1>1
  <1>3. CASE first > Len(buffer)
    <2>1. I = {}
      BY <1>0, <1>2, <1>3
    <2>2. Missed(last) = <<>>
      BY <2>1 DEF Missed, Above, SelectInSeq
    <2>3. \A k \in 1..Len(buffer) : ~(buffer[k] > last)
      BY <2>1
    <2> QED  BY <2>2, <2>3 DEF Numbered, ToSet
  <1>4. CASE first <= Len(buffer)
    <2>1. I # {}
      BY <1>0, <1>2, <1>4
    <2>2. Min(I) = first
      <3>1. first \in I /\ \A y \in I : first <= y
        BY <1>0, <1>2, <1>4
      <3>2. \A x \in I : (\A y \in I : x <= y) => x = first
        BY <1>0, <1>2, <3>1
      <3> QED  BY <3>1, <3>2 DEF Min
    <2>3. Missed(last) = SubSeq(buffer, first, Len(buffer))
      <3>1. SelectInSeq(buffer, LAMBDA id : id > last) = first
        BY <2>1, <2>2 DEF SelectInSeq
      <3> QED  BY <1>0, <3>1 DEF Missed, Above
    <2>4. /\ Missed(last) \in Seq(Ids)
          /\ Len(Missed(last)) = Len(buffer) - first + 1
          /\ \A k \in 1..(Len(buffer) - first + 1) : Missed(last)[k] = buffer[first + k - 1]
      <3> HIDE DEF first
      <3> QED BY <1>0, <1>4, <2>3, SubSeqProperties
    <2>5. Numbered(Missed(last), counter - Len(Missed(last)))
      <3> HIDE DEF first
      <3> QED  BY <1>0, <1>1, <1>4, <2>4 DEF Numbered
    <2>6. ToSet(Missed(last)) = {id \in ToSet(buffer) : id > last}
      <3> DEFINE missed == Missed(last)
      <3>1. DOMAIN missed = 1..Len(missed) /\ DOMAIN buffer = 1..Len(buffer)
        BY <2>4, LenProperties
      <3>2. ASSUME NEW k \in 1..Len(missed)
            PROVE  \E j \in 1..Len(buffer) : missed[k] = buffer[j] /\ buffer[j] > last
        <4>1. first + k - 1 \in first..Len(buffer) /\ missed[k] = buffer[first + k - 1]
          <5> HIDE DEF first, missed
          <5> QED BY <1>0, <1>4, <2>4 DEF missed
        <4> HIDE DEF first, missed
        <4> QED  BY <1>0, <1>2, <4>1
      <3>3. ASSUME NEW j \in 1..Len(buffer), buffer[j] > last
            PROVE  \E k \in 1..Len(missed) : missed[k] = buffer[j]
        <4>1. j \in first..Len(buffer)
          BY <1>2, <3>3
        <4> HIDE DEF first, missed
        <4>2. j - first + 1 \in 1..(Len(buffer) - first + 1) /\ j = first + (j - first + 1) - 1
          BY <1>0, <4>1
        <4> QED  BY <2>4, <4>2 DEF missed
      <3> HIDE DEF first, missed, before
      <3>4. ToSet(missed) = {missed[k] : k \in 1..Len(missed)}
        BY <3>1 DEF ToSet
      <3>5. ToSet(buffer) = {buffer[k] : k \in 1..Len(buffer)}
        BY <3>1 DEF ToSet
      <3>6. \A id \in ToSet(missed) : id \in ToSet(buffer) /\ id > last
        BY <3>2, <3>4, <3>5
      <3>7. \A id \in ToSet(buffer) : id > last => id \in ToSet(missed)
        BY <3>3, <3>4, <3>5
      <3> QED  BY <3>6, <3>7 DEF missed
    <2> QED  BY <1>0, <1>4, <2>4, <2>5, <2>6
  <1> QED  BY <1>0, <1>3, <1>4
-----------------------------------------------------------------------------
\* The pieces that steps are made of.

StreamStates == [at : {"off", "replay", "live"}, page : Pages \union {NoPage},
                 epoch : Epochs, todo : Seq(Ids)]
PageStates == [up : BOOLEAN, conn : Streams \union {NoStream},
               last : 0..MaxEvents, got : Seq(Epochs \X Ids)]

LEMMA Types ==
  ASSUME TypeOK
  PROVE  /\ epoch \in Nat /\ epoch \in Epochs /\ counter \in Nat
         /\ buffer \in Seq(Ids) /\ queues[epoch] \in Seq(Ids)
         /\ stream \in [Streams -> StreamStates]
         /\ page \in [Pages -> PageStates]
         /\ Ids \subseteq Nat \ {0}
         /\ \A s \in Streams : s # NoStream
         /\ Off \in StreamStates /\ Closed \in PageStates
  BY BroadcasterAssumption, NamesAssumption
     DEF TypeOK, Epochs, Ids, StreamStates, PageStates, Off, Closed

\* A chunk changes the listener's page and no other; an old stream has none.
LEMMA Delivery ==
  ASSUME TypeOK, PageInv, NEW s \in Streams, NEW id \in Ids, page' = Received(s, id)
  PROVE  /\ page' \in [Pages -> PageStates]
         /\ \A p \in Pages : page[p].conn # s => page'[p] = page[p]
         /\ \A p \in Pages : page[p].conn = s =>
               /\ page'[p].up = page[p].up /\ page'[p].conn = s /\ page'[p].last = id
               /\ page'[p].got = Append(page[p].got, <<stream[s].epoch, id>>)
               /\ page[p].up /\ Current(s)
  <1>1. \A p \in Pages : page'[p] =
          IF page[p].conn = s
          THEN [page[p] EXCEPT !.last = id, !.got = Append(@, <<stream[s].epoch, id>>)]
          ELSE page[p]
    BY DEF Received
  <1>2. \A p \in Pages : page[p] \in PageStates
    BY Types
  <1>3. stream[s].epoch \in Epochs /\ id \in 0..MaxEvents /\ s # NoStream
    BY Types DEF StreamStates, Ids
  <1>4. ASSUME NEW p \in Pages, page[p].conn = s
        PROVE  /\ page'[p] \in PageStates
               /\ page'[p].up = page[p].up /\ page'[p].conn = s /\ page'[p].last = id
               /\ page'[p].got = Append(page[p].got, <<stream[s].epoch, id>>)
    <2>1. Append(page[p].got, <<stream[s].epoch, id>>) \in Seq(Epochs \X Ids)
      BY <1>2, <1>3, AppendProperties DEF PageStates
    <2>2. page'[p] = [page[p] EXCEPT !.last = id, !.got = Append(@, <<stream[s].epoch, id>>)]
      BY <1>1, <1>4
    <2> QED  BY <1>2, <1>3, <1>4, <2>1, <2>2 DEF PageStates
  <1>5. ASSUME NEW p \in Pages, page[p].conn = s
        PROVE  page[p].up /\ Current(s)
    BY <1>3, <1>5 DEF PageInv, Closed
  <1>6. page' = [p \in Pages |-> page'[p]]
    BY DEF Received
  <1> QED  BY <1>1, <1>2, <1>4, <1>5, <1>6

\* A stream that starts.
LEMMA Beginning ==
  ASSUME Shape, NEW s \in Streams, NEW p \in Pages, NEW last \in 0..MaxEvents, Begin(s, p, last)
  PROVE  /\ stream' \in [Streams -> StreamStates]
         /\ \A t \in Streams \ {s} : stream'[t] = stream[t]
         /\ stream'[s].at = "replay" /\ stream'[s].epoch = epoch
         /\ stream'[s].todo = Missed(last)
         /\ stream[s].at = "off"
         /\ opens' \in 1..2 /\ opens' >= opens /\ (opens' < 2 => opens = 0)
         /\ \A q \in Pages : page[q].conn # s
  <1>1. Missed(last) \in Seq(Ids)
    <2>1. last \in Nat
      OBVIOUS
    <2> QED  BY <2>1, Types, MissedIsFilter DEF Shape, ServerInv
  <1>2. stream \in [Streams -> StreamStates] /\ epoch \in Epochs /\ s # NoStream
    BY Types DEF Shape
  <1>3. [at |-> "replay", page |-> p, epoch |-> epoch, todo |-> Missed(last)] \in StreamStates
    BY <1>1, <1>2 DEF StreamStates
  <1>4. stream' \in [Streams -> StreamStates]
    BY <1>2, <1>3 DEF Begin
  <1>5. opens \in 0..2
    BY DEF Shape, TypeOK
  <1>6. \A q \in Pages : page[q].conn # s
    BY <1>2 DEF Shape, PageInv, Current, Begin
  <1> QED  BY <1>2, <1>4, <1>5, <1>6 DEF Begin

LEMMA InitShape == Init => Shape
  <1> SUFFICES ASSUME Init PROVE Shape
    OBVIOUS
  <1>1. \A n \in Nat : 0 \in 0..n
    OBVIOUS
  <1>2. TypeOK
    BY <1>1, BroadcasterAssumption DEF Init, TypeOK, Off, Closed, Epochs
  <1>3. queues[epoch] = <<>> /\ Len(<<>>) = 0
    BY <1>1, BroadcasterAssumption DEF Init, Epochs
  <1>4. ServerInv
    <2>1. Len(buffer) = 0 /\ counter = 0
      BY <1>3 DEF Init
    <2>2. \A e \in Epochs : queues[e] = <<>>
      BY DEF Init
    <2> QED  BY <1>3, <2>1, <2>2 DEF ServerInv, Numbered
  <1>5. StreamInv
    BY DEF Init, StreamInv, Off, Current
  <1>6. PageInv
    BY DEF Init, PageInv, Closed
  <1> QED  BY <1>2, <1>4, <1>5, <1>6 DEF Shape

LEMMA PublishShape == Shape /\ Publish => Shape'
  <1> SUFFICES ASSUME Shape, Publish PROVE Shape'
    OBVIOUS
  <1> USE DEF Shape
  <1>0. /\ epoch \in Nat /\ epoch \in Epochs /\ counter \in Nat
        /\ buffer \in Seq(Ids) /\ buffer \in Seq(Int)
        /\ queues \in [Epochs -> Seq(Ids)]
        /\ queues[epoch] \in Seq(Ids) /\ queues[epoch] \in Seq(Int)
        /\ MaxBuffer \in Nat \ {0} /\ opens \in 0..2
    <2>1. Ids \subseteq Int
      BY DEF Ids
    <2> QED  BY <2>1, Types, SeqMonotonic, BroadcasterAssumption DEF TypeOK
  <1>1. counter' = counter + 1 /\ counter' \in Ids /\ counter' \in 0..MaxEvents
    BY <1>0, BroadcasterAssumption DEF Publish, Ids
  <1>2. /\ buffer' \in Seq(Ids) /\ Len(buffer') <= MaxBuffer
        /\ Len(buffer') <= counter' /\ Numbered(buffer', counter' - Len(buffer'))
    <2>1. CASE Len(buffer) = MaxBuffer
      <3>1. buffer' = Append(Tail(buffer), counter')
        BY <2>1 DEF Publish, Buffered
      <3>2. /\ Tail(buffer) \in Seq(Ids) /\ Tail(buffer) \in Seq(Int)
            /\ Len(Tail(buffer)) = Len(buffer) - 1
            /\ Numbered(Tail(buffer), counter - Len(Tail(buffer)))
        BY <1>0, <2>1, NumberedTail DEF ServerInv
      <3>3. counter - Len(Tail(buffer)) \in Int /\ Len(Tail(buffer)) \in Nat
        BY <1>0, <3>2
      <3>4. /\ Numbered(buffer', counter - Len(Tail(buffer)))
            /\ Len(buffer') = Len(Tail(buffer)) + 1
        <4> DEFINE older == Tail(buffer)
                   first == counter - Len(older)
        <4>1. counter' \in Int /\ counter' = first + Len(older) + 1 /\ first \in Int
          BY <1>0, <1>1, <3>3
        <4>2. older \in Seq(Int) /\ Numbered(older, first) /\ buffer' = Append(older, counter')
          BY <3>1, <3>2
        <4> HIDE DEF older, first
        <4>3. Numbered(buffer', first) /\ Len(buffer') = Len(older) + 1
          BY <4>1, <4>2, NumberedAppend
        <4> QED  BY <4>3 DEF older, first
      <3>5. buffer' \in Seq(Ids)
        BY <1>1, <3>1, <3>2, AppendProperties
      <3>6. counter' - Len(buffer') = counter - Len(Tail(buffer))
        BY <1>0, <1>1, <3>3, <3>4
      <3> QED  BY <1>0, <1>1, <2>1, <3>2, <3>4, <3>5, <3>6 DEF ServerInv
    <2>2. CASE Len(buffer) # MaxBuffer
      <3>1. buffer' = Append(buffer, counter')
        BY <2>2 DEF Publish, Buffered
      <3>2. Numbered(buffer', counter - Len(buffer)) /\ Len(buffer') = Len(buffer) + 1
        BY <1>0, <1>1, <3>1, NumberedAppend DEF ServerInv
      <3> QED  BY <1>0, <1>1, <2>2, <3>1, <3>2 DEF ServerInv, TypeOK
    <2> QED  BY <2>1, <2>2
  <1>3. /\ queues' \in [Epochs -> Seq(Ids)]
        /\ \A e \in Epochs : e # epoch => queues'[e] = queues[e]
        /\ Len(queues'[epoch]) <= counter'
        /\ Numbered(queues'[epoch], counter' - Len(queues'[epoch]))
        /\ opens = 0 => queues'[epoch] = <<>>
    <2>1. CASE opens > 0
      <3>1. queues' = [queues EXCEPT ![epoch] = Append(@, counter')]
        BY <2>1 DEF Publish, Enqueued
      <3>2. /\ queues'[epoch] = Append(queues[epoch], counter')
            /\ Append(queues[epoch], counter') \in Seq(Ids)
        BY <1>0, <1>1, <3>1
      <3>3. /\ Numbered(queues'[epoch], counter - Len(queues[epoch]))
            /\ Len(queues'[epoch]) = Len(queues[epoch]) + 1
        BY <1>0, <1>1, <3>2, NumberedAppend DEF ServerInv
      <3> QED  BY <1>0, <1>1, <2>1, <3>1, <3>2, <3>3 DEF ServerInv
    <2>2. CASE opens = 0
      <3>1. queues' = queues /\ queues[epoch] = <<>> /\ Len(<<>>) = 0
        BY <2>2 DEF Publish, Enqueued, ServerInv
      <3> QED  BY <1>0, <1>1, <2>2, <3>1 DEF Numbered
    <2> QED  BY <1>0, <2>1, <2>2
  <1>4. TypeOK'
    BY <1>1, <1>2, <1>3 DEF TypeOK, Publish
  <1>5. ServerInv'
    <2>1. \A e \in Epochs : e > epoch => queues'[e] = <<>>
      BY <1>0, <1>3 DEF ServerInv
    <2>2. epoch' = epoch /\ opens' = opens
      BY DEF Publish
    <2> QED  BY <1>2, <1>3, <2>1, <2>2 DEF ServerInv
  <1>6. StreamInv'
    BY DEF StreamInv, Current, Publish
  <1>7. PageInv'
    <2>1. \A p \in Pages : page[p].up => page[p].last <= counter'
      <3>1. \A p \in Pages : page[p].last \in Nat
        BY Types DEF PageStates
      <3> QED  BY <1>0, <1>1, <3>1 DEF PageInv
    <2> QED  BY <2>1 DEF PageInv, Current, Publish
  <1> QED  BY <1>4, <1>5, <1>6, <1>7

\* What Open and Retry have in common: a stream begins for page p.
LEMMA ListenShape ==
  ASSUME Shape, NEW p \in Pages, NEW s \in Streams, NEW last \in 0..MaxEvents,
         Begin(s, p, last), NEW new \in PageStates, page' = [page EXCEPT ![p] = new],
         new.up, new.conn = s, new.last <= counter,
         \A k \in 1..Len(new.got) : new.got[k][1] = epoch
  PROVE  Shape'
  <1> USE DEF Shape
  <1>1. UNCHANGED <<epoch, counter, buffer, queues, drops>>
    BY DEF Begin
  <1>2. \A q \in Pages : page'[q] = IF q = p THEN new ELSE page[q]
    BY Types
  <1>3. page' \in [Pages -> PageStates] /\ s # NoStream
    BY Types
  <1>4. TypeOK'
    <2>1. stream' \in [Streams -> StreamStates] /\ opens' \in 0..2
      BY Beginning
    <2> QED  BY <1>1, <1>3, <2>1 DEF TypeOK, PageStates, StreamStates
  <1>5. ServerInv'
    BY <1>1, Beginning DEF ServerInv
  <1>6. StreamInv'
    <2>1. \A t \in Streams \ {s} : Current(t)' <=> Current(t)
      BY <1>1, Beginning DEF Current
    <2>2. opens' < 2 => \A t \in Streams : ~Current(t)
      BY Beginning DEF StreamInv
    <2>3. epoch <= epoch
      BY Types
    <2> QED  BY <1>1, <2>1, <2>2, <2>3, Beginning DEF StreamInv
  <1>7. PageInv'
    <2>1. Current(s)'
      BY <1>1, Beginning DEF Current
    <2>2. \A t \in Streams \ {s} : Current(t)' <=> Current(t)
      BY <1>1, Beginning DEF Current
    <2>3. \A q \in Pages : page[q].conn \in Streams \union {NoStream} /\ page[q].conn # s
      BY Beginning, Types DEF PageStates
    <2>4. opens' > 0
      BY Beginning
    <2> QED  BY <1>1, <1>2, <1>3, <2>1, <2>2, <2>3, <2>4 DEF PageInv
  <1> QED  BY <1>4, <1>5, <1>6, <1>7

LEMMA OpenShape ==
  ASSUME Shape, NEW p \in Pages, NEW s \in Streams, Open(p, s)
  PROVE  Shape'
  <1> DEFINE new == [Closed EXCEPT !.up = TRUE, !.conn = s]
  <1>1. new \in PageStates /\ new.up /\ new.conn = s /\ new.last = 0 /\ new.got = <<>>
    BY Types DEF Shape, Closed, PageStates
  <1>2. Begin(s, p, 0) /\ page' = [page EXCEPT ![p] = new] /\ 0 \in 0..MaxEvents
    BY BroadcasterAssumption DEF Open
  <1>3. 0 <= counter /\ \A k \in 1..Len(<<>>) : <<>>[k][1] = epoch
    BY Types DEF Shape
  <1> HIDE DEF new
  <1> QED  BY <1>1, <1>2, <1>3, ListenShape

LEMMA RetryShape ==
  ASSUME Shape, NEW p \in Pages, NEW s \in Streams, Retry(p, s)
  PROVE  Shape'
  <1> DEFINE new == [page[p] EXCEPT !.conn = s]
  <1>1. page[p] \in PageStates
    BY Types DEF Shape
  <1>2. /\ new \in PageStates /\ new.up /\ new.conn = s
        /\ new.last = page[p].last /\ new.got = page[p].got
    BY <1>1 DEF PageStates, Retry
  <1>3. Begin(s, p, page[p].last) /\ page' = [page EXCEPT ![p] = new]
        /\ page[p].last \in 0..MaxEvents
    BY <1>1 DEF Retry, PageStates
  <1>4. page[p].last <= counter /\ \A k \in 1..Len(page[p].got) : page[p].got[k][1] = epoch
    BY DEF Shape, PageInv, Retry
  <1> HIDE DEF new
  <1> QED  BY <1>2, <1>3, <1>4, ListenShape

\* A page that loses its connection, or is closed.
LEMMA LeaveShape ==
  ASSUME Shape, NEW p \in Pages, NEW new \in PageStates, page' = [page EXCEPT ![p] = new],
         new.conn = NoStream, new.up => page[p].up /\ new.last = page[p].last,
         ~new.up => new = Closed,
         \A k \in 1..Len(new.got) : new.got[k][1] = epoch,
         drops' \in 0..MaxDrops, UNCHANGED <<epoch, counter, buffer, queues, opens, stream>>
  PROVE  Shape'
  <1> USE DEF Shape
  <1>1. \A q \in Pages : page'[q] = IF q = p THEN new ELSE page[q]
    BY Types
  <1>2. page' \in [Pages -> PageStates]
    BY Types
  <1>3. TypeOK'
    BY <1>2 DEF TypeOK, PageStates
  <1>4. ServerInv' /\ StreamInv'
    BY DEF ServerInv, StreamInv, Current
  <1>5. PageInv'
    BY <1>1 DEF PageInv, Current
  <1> QED  BY <1>3, <1>4, <1>5

LEMMA DropShape ==
  ASSUME Shape, NEW p \in Pages, Drop(p)
  PROVE  Shape'
  <1> DEFINE new == [page[p] EXCEPT !.conn = NoStream]
  <1>1. page[p] \in PageStates /\ page[p].up
    BY Types DEF Shape, PageInv, Closed, Drop
  <1>2. /\ new \in PageStates /\ new.up /\ new.conn = NoStream
        /\ new.last = page[p].last /\ new.got = page[p].got
    BY <1>1 DEF PageStates
  <1>3. drops' \in 0..MaxDrops
    BY BroadcasterAssumption DEF Shape, TypeOK, Drop
  <1>4. page' = [page EXCEPT ![p] = new] /\ UNCHANGED <<epoch, counter, buffer, queues, opens, stream>>
    BY DEF Drop
  <1>5. \A k \in 1..Len(new.got) : new.got[k][1] = epoch
    BY <1>2 DEF Shape, PageInv
  <1> HIDE DEF new
  <1> QED  BY <1>1, <1>2, <1>3, <1>4, <1>5, LeaveShape

LEMMA CloseShape ==
  ASSUME Shape, NEW p \in Pages, Close(p)
  PROVE  Shape'
  <1>1. Closed \in PageStates /\ Closed.conn = NoStream /\ ~Closed.up /\ Closed.got = <<>>
    BY Types DEF Closed, Shape
  <1>2. \A k \in 1..Len(Closed.got) : Closed.got[k][1] = epoch
    BY <1>1
  <1>3. drops' \in 0..MaxDrops
    BY BroadcasterAssumption DEF Shape, TypeOK, Close
  <1>4. page' = [page EXCEPT ![p] = Closed] /\ UNCHANGED <<epoch, counter, buffer, queues, opens, stream>>
    BY DEF Close
  <1> QED  BY <1>1, <1>2, <1>3, <1>4, LeaveShape

LEMMA NoticeShape ==
  ASSUME Shape, NEW s \in Streams, Notice(s)
  PROVE  Shape'
  <1> USE DEF Shape
  <1>1. \A t \in Streams : stream'[t] = IF t = s THEN Off ELSE stream[t]
    BY Types DEF Notice
  <1>2. stream' \in [Streams -> StreamStates]
    BY Types DEF Notice
  <1>3. UNCHANGED <<epoch, counter, buffer, queues, opens, page, drops>>
        /\ \A p \in Pages : page[p].conn # s
    BY DEF Notice
  <1>4. TypeOK'
    BY <1>2, <1>3 DEF TypeOK, StreamStates
  <1>5. ServerInv'
    BY <1>3 DEF ServerInv
  <1>6. \A t \in Streams : /\ t # s => (Current(t)' <=> Current(t))
                           /\ ~Current(s)'
    BY <1>1, <1>3 DEF Current, Off
  <1>7. StreamInv'
    <2>1. 0 <= epoch /\ Off.epoch = 0 /\ Off.at = "off"
      BY Types DEF Off
    <2> QED  BY <1>1, <1>3, <1>6, <2>1 DEF StreamInv
  <1>8. PageInv'
    <2>1. \A p \in Pages : page[p].conn \in Streams \union {NoStream}
      BY Types DEF PageStates
    <2> QED  BY <1>3, <1>6, <2>1 DEF PageInv
  <1> QED  BY <1>4, <1>5, <1>7, <1>8

\* After a reset no stream is current and no page has anything.
LEMMA ClearShape == Shape /\ Clear => Shape'
  <1> SUFFICES ASSUME Shape, Clear PROVE Shape'
    OBVIOUS
  <1> USE DEF Shape
  <1>1. epoch' = epoch + 1 /\ epoch' \in Epochs /\ epoch' \in Nat /\ epoch' > epoch
    BY Types, BroadcasterAssumption DEF Clear, Epochs
  <1>2. counter' = 0 /\ buffer' = <<>> /\ opens' = 0 /\ UNCHANGED <<queues, stream, page, drops>>
    BY DEF Clear
  <1>3. TypeOK'
    BY <1>1, <1>2, BroadcasterAssumption DEF TypeOK
  <1>4. ServerInv'
    <2>1. queues[epoch'] = <<>> /\ Len(<<>>) = 0
      BY <1>1 DEF ServerInv
    <2>2. \A e \in Epochs : e > epoch' => queues[e] = <<>>
      BY <1>1, Types DEF ServerInv, Epochs
    <2>3. Numbered(<<>>, counter' - Len(<<>>))
      BY DEF Numbered
    <2> QED  BY <1>2, <2>1, <2>2, <2>3 DEF ServerInv
  <1>5. \A s \in Streams : stream[s].epoch \in Nat /\ stream[s].epoch <= epoch
    BY Types DEF StreamStates, StreamInv, Epochs
  <1>6. \A s \in Streams : ~Current(s)'
    BY <1>1, <1>2, <1>5, Types DEF Current
  <1>7. StreamInv'
    <2>1. \A s \in Streams : stream[s].epoch <= epoch'
      BY <1>1, <1>5, Types
    <2>2. \A s \in Streams : stream'[s].epoch <= epoch'
      BY <1>2, <2>1
    <2>3. \A s \in Streams : stream'[s].at = "live" => stream'[s].todo = <<>>
      BY <1>2 DEF StreamInv
    <2> QED  BY <1>6, <2>2, <2>3 DEF StreamInv
  <1>8. PageInv'
    <2>1. \A p \in Pages : page'[p] = Closed /\ page'[p].up = FALSE
      <3>1. \A p \in Pages : ~page[p].up
        BY DEF Clear
      <3>2. \A p \in Pages : page[p] = Closed
        BY <3>1 DEF PageInv
      <3>3. page' = page /\ Closed.up = FALSE
        BY <1>2 DEF Closed
      <3> QED  BY <3>2, <3>3
    <2>2. Closed.conn = NoStream /\ Closed.got = <<>>
      BY DEF Closed
    <2>3. \A p \in Pages : /\ ~page'[p].up /\ page'[p] = Closed /\ page'[p].conn = NoStream
                           /\ 1..Len(page'[p].got) = {}
      BY <2>1, <2>2
    <2> QED  BY <2>3 DEF PageInv
  <1> QED  BY <1>3, <1>4, <1>7, <1>8

\* What a chunk leaves of the pages, replayed or live.
LEMMA ChunkShape ==
  ASSUME Shape, NEW s \in Streams, NEW id \in Ids, id <= counter, page' = Received(s, id),
         UNCHANGED <<epoch, opens, counter>>,
         \A t \in Streams : Current(t)' <=> Current(t)
  PROVE  PageInv'
  <1> USE DEF Shape
  <1>1. \A p \in Pages : page[p] \in PageStates
    BY Types
  <1>2. ASSUME NEW p \in Pages
        PROVE  /\ page'[p].up = page[p].up /\ page'[p].conn = page[p].conn
               /\ ~page'[p].up => page'[p] = Closed
               /\ page'[p].up => page'[p].last <= counter
               /\ \A k \in 1..Len(page'[p].got) : page'[p].got[k][1] = epoch
    <2>1. CASE page[p].conn # s
      BY <1>1, <2>1, Delivery DEF PageInv
    <2>2. CASE page[p].conn = s
      <3>1. /\ page'[p].up = page[p].up /\ page'[p].conn = s /\ page'[p].last = id
            /\ page'[p].got = Append(page[p].got, <<stream[s].epoch, id>>)
            /\ page[p].up /\ stream[s].epoch = epoch
        BY <2>2, Delivery DEF Current
      <3>2. page[p].got \in Seq(Epochs \X Ids)
        BY <1>1 DEF PageStates
      <3>3. \A k \in 1..Len(page'[p].got) : page'[p].got[k][1] = epoch
        BY <3>1, <3>2 DEF PageInv
      <3> QED  BY <2>2, <3>1, <3>3
    <2> QED  BY <2>1, <2>2
  <1>3. \A p \in Pages : page[p].conn \in Streams \union {NoStream}
    BY <1>1 DEF PageStates
  <1> QED  BY <1>2, <1>3 DEF PageInv

\* The live queue gives up its first id.
LEMMA QueueTail ==
  ASSUME TypeOK, ServerInv, queues[epoch] # <<>>
  PROVE  /\ queues[epoch] \in Seq(Int) /\ Len(queues[epoch]) \in Nat \ {0}
         /\ Head(queues[epoch]) = counter - Len(queues[epoch]) + 1
         /\ Head(queues[epoch]) <= counter
         /\ Len(Tail(queues[epoch])) = Len(queues[epoch]) - 1
         /\ Numbered(Tail(queues[epoch]), counter - Len(Tail(queues[epoch])))
  <1> DEFINE ids == queues[epoch]
  <1>0. Numbered(ids, counter - Len(ids))
    BY DEF ServerInv
  <1>1. ids \in Seq(Int) /\ ids # <<>> /\ counter \in Int
    <2>1. Ids \subseteq Int
      BY DEF Ids
    <2>2. ids \in Seq(Int)
      BY <2>1, Types, SeqMonotonic
    <2> QED  BY <2>2, Types
  <1> HIDE DEF ids
  <1>2. Len(ids) \in Nat /\ Len(ids) >= 1
    BY <1>1, EmptySeq
  <1> DEFINE last == counter
  <1>3. Numbered(ids, last - Len(ids))
    BY <1>0
  <1>5. last \in Int
    BY <1>1
  <1> HIDE DEF last
  <1>4. /\ Head(ids) = last - Len(ids) + 1 /\ Head(ids) <= last
        /\ Len(Tail(ids)) = Len(ids) - 1
        /\ Numbered(Tail(ids), last - Len(Tail(ids)))
    BY <1>1, <1>3, <1>5, BlockTail
  <1>6. Len(ids) \in Nat \ {0}
    BY <1>2
  <1> QED  BY <1>1, <1>4, <1>6 DEF ids, last

LEMMA LiveShape ==
  ASSUME Shape, NEW s \in Streams, Live(s)
  PROVE  Shape'
  <1>0. TypeOK /\ ServerInv /\ StreamInv /\ PageInv
    BY DEF Shape
  <1> DEFINE q == stream[s].epoch
  <1>1. q \in Epochs /\ queues \in [Epochs -> Seq(Ids)] /\ stream[s].at = "live"
    BY <1>0, Types DEF StreamStates, TypeOK, Live
  <1>2. /\ queues[q] # <<>> /\ queues' = [queues EXCEPT ![q] = Tail(@)]
        /\ page' = Received(s, Head(queues[q]))
        /\ UNCHANGED <<epoch, counter, buffer, opens, stream, drops>>
    BY DEF Live
  <1>3. Head(queues[q]) \in Ids /\ Tail(queues[q]) \in Seq(Ids)
    BY <1>1, <1>2
  <1>4. queues' \in [Epochs -> Seq(Ids)]
    BY <1>1, <1>2, <1>3
  <1>5. /\ page' \in [Pages -> PageStates]
        /\ \A p \in Pages : page[p].conn # s => page'[p] = page[p]
        /\ \A p \in Pages : page[p].conn = s => Current(s)
    BY <1>0, <1>2, <1>3, Delivery
  <1>6. TypeOK'
    BY <1>0, <1>2, <1>4, <1>5 DEF TypeOK, PageStates
  <1>7. queues[epoch] \in Seq(Int) /\ epoch \in Epochs /\ counter \in Nat
    <2>1. Ids \subseteq Int
      BY DEF Ids
    <2> QED  BY <1>0, <2>1, Types, SeqMonotonic
  <1>8. ServerInv'
    <2>1. \A e \in Epochs : queues'[e] = IF e = q THEN Tail(queues[q]) ELSE queues[e]
      BY <1>1, <1>2
    <2>2. /\ Len(queues'[epoch]) <= counter
          /\ Numbered(queues'[epoch], counter - Len(queues'[epoch]))
          /\ opens = 0 => queues'[epoch] = <<>>
      <3>1. CASE q = epoch
        <4>1. queues'[epoch] = Tail(queues[epoch]) /\ queues[epoch] # <<>> /\ opens # 0
          BY <1>0, <1>2, <1>7, <2>1, <3>1 DEF ServerInv
        <4>2. /\ Len(Tail(queues[epoch])) = Len(queues[epoch]) - 1
              /\ Numbered(Tail(queues[epoch]), counter - Len(Tail(queues[epoch])))
          BY <1>0, <4>1, QueueTail
        <4>3. Len(queues[epoch]) \in Nat /\ Len(queues[epoch]) <= counter
          BY <1>0, <1>7 DEF ServerInv
        <4> QED  BY <1>7, <4>1, <4>2, <4>3
      <3>2. CASE q # epoch
        BY <1>0, <1>7, <2>1, <3>2 DEF ServerInv
      <3> QED  BY <3>1, <3>2
    <2>3. \A e \in Epochs : e > epoch => queues'[e] = <<>>
      <3>2. \A e \in Epochs : e > epoch => queues[e] = <<>> /\ e # q
        BY <1>0, <1>1, <1>2 DEF ServerInv
      <3> QED  BY <2>1, <3>2
    <2>4. Len(buffer) <= counter /\ Numbered(buffer, counter - Len(buffer))
      BY <1>0 DEF ServerInv
    <2> QED  BY <1>2, <2>2, <2>3, <2>4 DEF ServerInv
  <1>9. StreamInv'
    BY <1>0, <1>2 DEF StreamInv, Current
  <1>10. PageInv'
    <2>1. CASE q = epoch
      <3>1. Head(queues[q]) <= counter
        <4>1. queues[epoch] # <<>>
          BY <1>2, <2>1
        <4>2. Head(queues[epoch]) <= counter
          BY <1>0, <4>1, QueueTail
        <4> QED  BY <2>1, <4>2
      <3>2. \A t \in Streams : Current(t)' <=> Current(t)
        BY <1>2 DEF Current
      <3> QED  BY <1>2, <1>3, <3>1, <3>2, ChunkShape
    <2>2. CASE q # epoch
      <3>1. \A p \in Pages : page'[p] = page[p]
        BY <1>5, <2>2 DEF Current
      <3>2. page \in [Pages -> PageStates]
        BY <1>0, Types
      <3>3. page' = page
        BY <1>5, <3>1, <3>2
      <3> QED  BY <1>0, <1>2, <3>3 DEF PageInv, Current
    <2> QED  BY <2>1, <2>2
  <1> QED  BY <1>6, <1>8, <1>9, <1>10 DEF Shape

LEMMA ReplayShape ==
  ASSUME Shape, TodoInv, NEW s \in Streams, Replay(s)
  PROVE  Shape'
  <1>0. TypeOK /\ ServerInv /\ StreamInv /\ PageInv
    BY DEF Shape
  <1>1. UNCHANGED <<epoch, counter, buffer, queues, opens, drops>> /\ stream[s].at = "replay"
    BY DEF Replay
  <1>2. stream \in [Streams -> StreamStates] /\ page \in [Pages -> PageStates]
    BY <1>0, Types
  <1>3. /\ stream' \in [Streams -> StreamStates]
        /\ \A t \in Streams \ {s} : stream'[t] = stream[t]
        /\ stream'[s].epoch = stream[s].epoch /\ stream'[s].at # "off"
        /\ stream'[s].at = "live" => stream'[s].todo = <<>>
    <2>1. CASE stream[s].todo = <<>>
      <3>1. stream' = [stream EXCEPT ![s].at = "live"]
        BY <2>1 DEF Replay
      <3> QED  BY <1>2, <2>1, <3>1 DEF StreamStates
    <2>2. CASE stream[s].todo # <<>>
      <3>1. stream' = [stream EXCEPT ![s].todo = Tail(@)]
        BY <2>2 DEF Replay
      <3>2. Tail(stream[s].todo) \in Seq(Ids)
        BY <1>2, <2>2 DEF StreamStates
      <3> QED  BY <1>1, <1>2, <3>1, <3>2 DEF StreamStates
    <2> QED  BY <2>1, <2>2
  <1>4. \A t \in Streams : Current(t)' <=> Current(t)
    BY <1>1, <1>3 DEF Current
  <1>5. page' \in [Pages -> PageStates] /\ PageInv'
    <2>1. CASE stream[s].todo = <<>>
      <3>1. page' = page
        BY <2>1 DEF Replay
      <3>2. \A p \in Pages : page[p].conn \in Streams \union {NoStream}
        BY <1>2 DEF PageStates
      <3> QED  BY <1>0, <1>1, <1>2, <1>4, <3>1, <3>2 DEF PageInv
    <2>2. CASE stream[s].todo # <<>>
      <3>1. Head(stream[s].todo) \in Ids /\ page' = Received(s, Head(stream[s].todo))
        BY <1>2, <2>2 DEF Replay, StreamStates
      <3>2. page' \in [Pages -> PageStates]
        BY <1>0, <3>1, Delivery
      <3>3. CASE Current(s)
        <4>1. Len(stream[s].todo) \in Nat \ {0} /\ Head(stream[s].todo) = stream[s].todo[1]
          BY <1>2, <2>2, EmptySeq DEF StreamStates
        <4>2. Head(stream[s].todo) <= counter
          BY <3>3, <4>1 DEF TodoInv
        <4> QED  BY <1>1, <1>4, <3>1, <3>2, <4>2, ChunkShape
      <3>4. CASE ~Current(s)
        <4>1. \A p \in Pages : page'[p] = page[p]
          BY <1>0, <3>1, <3>4, Delivery
        <4>2. page' = page
          BY <1>2, <3>2, <4>1
        <4>3. \A p \in Pages : page[p].conn \in Streams \union {NoStream}
          BY <1>2 DEF PageStates
        <4> QED  BY <1>0, <1>1, <1>4, <3>2, <4>2, <4>3 DEF PageInv
      <3> QED  BY <3>3, <3>4
    <2> QED  BY <2>1, <2>2
  <1>6. TypeOK'
    BY <1>0, <1>1, <1>3, <1>5 DEF TypeOK, StreamStates, PageStates
  <1>7. ServerInv'
    BY <1>0, <1>1 DEF ServerInv
  <1>8. StreamInv'
    BY <1>0, <1>1, <1>3, <1>4 DEF StreamInv
  <1> QED  BY <1>5, <1>6, <1>7, <1>8 DEF Shape

LEMMA NextShape == Shape /\ TodoInv /\ [Next]_vars => Shape'
  <1> SUFFICES ASSUME Shape, TodoInv, [Next]_vars PROVE Shape'
    OBVIOUS
  <1>1. CASE Publish
    BY <1>1, PublishShape
  <1>2. CASE Clear
    BY <1>2, ClearShape
  <1>3. ASSUME NEW p \in Pages, Drop(p) \/ Close(p) PROVE Shape'
    BY <1>3, DropShape, CloseShape
  <1>4. ASSUME NEW p \in Pages, NEW s \in Streams, Open(p, s) \/ Retry(p, s) PROVE Shape'
    BY <1>4, OpenShape, RetryShape
  <1>5. ASSUME NEW s \in Streams, Serve(s) PROVE Shape'
    BY <1>5, ReplayShape, LiveShape, NoticeShape DEF Serve
  <1>6. CASE UNCHANGED vars
    BY <1>6 DEF Shape, TypeOK, ServerInv, StreamInv, PageInv, Current, vars
  <1> QED  BY <1>1, <1>2, <1>3, <1>4, <1>5, <1>6 DEF Next
-----------------------------------------------------------------------------
\* What is left to replay.

LEMMA BeginTodo ==
  ASSUME Shape, TodoInv, NEW s \in Streams, NEW p \in Pages, NEW last \in 0..MaxEvents,
         Begin(s, p, last)
  PROVE  TodoInv'
  <1>0. last \in Nat /\ counter \in Nat /\ buffer \in Seq(Ids)
    BY Types DEF Shape
  <1>1. UNCHANGED <<epoch, counter>>
    BY DEF Begin
  <1>2. Missed(last) \in Seq(Ids) /\ Numbered(Missed(last), counter - Len(Missed(last)))
    BY <1>0, MissedIsFilter DEF Shape, ServerInv
  <1>3. \A k \in 1..Len(Missed(last)) : /\ Missed(last)[k] = Missed(last)[1] + (k - 1)
                                        /\ Missed(last)[k] <= counter
    <2> DEFINE missed == Missed(last)
    <2>1. Len(missed) \in Nat
      BY <1>2
    <2>2. \A k \in 1..Len(missed) : missed[k] = counter - Len(missed) + k
      BY <1>2 DEF Numbered
    <2> HIDE DEF missed
    <2>3. \A k \in 1..Len(missed) : 1 \in 1..Len(missed)
      BY <2>1
    <2>4. \A k \in 1..Len(missed) : missed[k] = missed[1] + (k - 1) /\ missed[k] <= counter
      BY <1>0, <2>1, <2>2, <2>3
    <2> QED  BY <2>4 DEF missed
  <1>4. \A t \in Streams \ {s} : Current(t)' => Current(t)
    BY <1>1, Beginning DEF Current
  <1> QED  BY <1>1, <1>3, <1>4, Beginning DEF TodoInv

\* What is left of a block of known ids is one.
LEMMA TailBlock ==
  ASSUME NEW ids \in Seq(Nat), ids # <<>>, NEW top \in Nat,
         \A k \in 1..Len(ids) : ids[k] = ids[1] + (k - 1) /\ ids[k] <= top
  PROVE  \A k \in 1..Len(Tail(ids)) : Tail(ids)[k] = Tail(ids)[1] + (k - 1) /\ Tail(ids)[k] <= top
  <1>1. Tail(ids) \in Seq(Nat) /\ Len(Tail(ids)) = Len(ids) - 1 /\ Len(ids) \in Nat
        /\ \A k \in 1..Len(Tail(ids)) : Tail(ids)[k] = ids[k + 1]
    BY HeadTailProperties
  <1>2. \A k \in 1..Len(ids) : ids[k] \in Nat
    OBVIOUS
  <1>3. SUFFICES ASSUME NEW k \in 1..Len(Tail(ids))
                 PROVE  Tail(ids)[k] = Tail(ids)[1] + (k - 1) /\ Tail(ids)[k] <= top
    OBVIOUS
  <1>4. 1 \in 1..Len(ids) /\ 2 \in 1..Len(ids) /\ k + 1 \in 1..Len(ids) /\ 1 \in 1..Len(Tail(ids))
    BY <1>1
  <1>5. Tail(ids)[1] = ids[1 + 1] /\ Tail(ids)[k] = ids[k + 1]
    BY <1>1, <1>4
  <1> QED  BY <1>1, <1>2, <1>4, <1>5

LEMMA ReplayTodo ==
  ASSUME Shape, TodoInv, NEW s \in Streams, Replay(s)
  PROVE  TodoInv'
  <1>1. stream \in [Streams -> StreamStates] /\ UNCHANGED <<epoch, counter>> /\ counter \in Nat
    BY Types DEF Shape, Replay
  <1>2. CASE stream[s].todo = <<>>
    <2>1. stream' = [stream EXCEPT ![s].at = "live"] /\ stream[s].at = "replay"
      BY <1>2 DEF Replay
    <2>2. \A t \in Streams : stream'[t].todo = stream[t].todo /\ (Current(t)' => Current(t))
      BY <1>1, <2>1 DEF StreamStates, Current
    <2> QED  BY <1>1, <2>2 DEF TodoInv
  <1>3. CASE stream[s].todo # <<>>
    <2> DEFINE todo == stream[s].todo
    <2>1. stream' = [stream EXCEPT ![s].todo = Tail(@)]
      BY <1>3 DEF Replay
    <2>2. /\ \A t \in Streams : Current(t)' => Current(t)
          /\ \A t \in Streams \ {s} : stream'[t] = stream[t]
          /\ stream'[s].todo = Tail(todo)
      BY <1>1, <2>1 DEF StreamStates, Current
    <2>3. todo \in Seq(Nat) /\ todo # <<>>
      <3>1. todo \in Seq(Ids) /\ Ids \subseteq Nat
        BY <1>1, Types DEF StreamStates, Shape
      <3> QED  BY <1>3, <3>1, SeqMonotonic
    <2>4. ASSUME Current(s)
          PROVE  \A k \in 1..Len(Tail(todo)) : /\ Tail(todo)[k] = Tail(todo)[1] + (k - 1)
                                               /\ Tail(todo)[k] <= counter
      <3>1. \A k \in 1..Len(todo) : todo[k] = todo[1] + (k - 1) /\ todo[k] <= counter
        BY <2>4 DEF TodoInv
      <3> HIDE DEF todo
      <3> QED  BY <1>1, <2>3, <3>1, TailBlock
    <2> QED  BY <1>1, <2>2, <2>4 DEF TodoInv
  <1> QED  BY <1>2, <1>3

LEMMA NextTodo == Shape /\ TodoInv /\ [Next]_vars => TodoInv'
  <1> SUFFICES ASSUME Shape, TodoInv, [Next]_vars PROVE TodoInv'
    OBVIOUS
  <1>0. /\ counter \in Nat /\ stream \in [Streams -> StreamStates]
        /\ \A s \in Streams : \A k \in 1..Len(stream[s].todo) : stream[s].todo[k] \in Nat
    <2>1. counter \in Nat /\ stream \in [Streams -> StreamStates] /\ Ids \subseteq Nat
      BY Types DEF Shape
    <2>2. \A s \in Streams : stream[s].todo \in Seq(Ids)
      BY <2>1 DEF StreamStates
    <2>3. \A s \in Streams : \A k \in 1..Len(stream[s].todo) : stream[s].todo[k] \in Ids
      BY <2>2, ElementOfSeq
    <2> QED  BY <2>1, <2>3
  <1>1. CASE Publish
    <2>1. counter' = counter + 1 /\ UNCHANGED <<epoch, stream>>
      BY <1>1 DEF Publish
    <2> QED  BY <1>0, <2>1 DEF TodoInv, Current
  <1>2. CASE Clear
    <2>1. \A s \in Streams : ~Current(s)'
      <3>1. epoch' = epoch + 1 /\ stream' = stream /\ epoch \in Nat
        BY <1>2, Types DEF Clear, Shape
      <3>2. \A s \in Streams : stream[s].epoch \in Nat /\ stream[s].epoch <= epoch
        BY <1>0 DEF StreamStates, Shape, StreamInv, Epochs
      <3> QED  BY <3>1, <3>2 DEF Current
    <2> QED  BY <2>1 DEF TodoInv
  <1>3. ASSUME NEW p \in Pages, Drop(p) \/ Close(p) PROVE TodoInv'
    BY <1>3 DEF Drop, Close, TodoInv, Current
  <1>4. ASSUME NEW p \in Pages, NEW s \in Streams, Open(p, s) PROVE TodoInv'
    <2>1. Begin(s, p, 0) /\ 0 \in 0..MaxEvents
      BY <1>4, BroadcasterAssumption DEF Open
    <2> QED  BY <2>1, BeginTodo
  <1>5. ASSUME NEW p \in Pages, NEW s \in Streams, Retry(p, s) PROVE TodoInv'
    <2>1. Begin(s, p, page[p].last) /\ page[p].last \in 0..MaxEvents
      BY <1>5, Types DEF Retry, PageStates, Shape
    <2> QED  BY <2>1, BeginTodo
  <1>6. ASSUME NEW s \in Streams, Replay(s) PROVE TodoInv'
    BY <1>6, ReplayTodo
  <1>7. ASSUME NEW s \in Streams, Live(s) PROVE TodoInv'
    BY <1>7 DEF Live, TodoInv, Current
  <1>8. ASSUME NEW s \in Streams, Notice(s) PROVE TodoInv'
    <2>1. UNCHANGED <<epoch, counter>> /\ stream' = [stream EXCEPT ![s] = Off]
      BY <1>8 DEF Notice
    <2>2. \A t \in Streams : Current(t)' => Current(t) /\ stream'[t] = stream[t]
      BY <1>0, <2>1 DEF Current, Off
    <2> QED  BY <2>1, <2>2 DEF TodoInv
  <1>9. CASE UNCHANGED vars
    BY <1>9 DEF TodoInv, Current, vars
  <1> QED  BY <1>1, <1>2, <1>3, <1>4, <1>5, <1>6, <1>7, <1>8, <1>9 DEF Next, Serve
-----------------------------------------------------------------------------
\* The first stream of a run.

\* Only the page that opens it listens.
LEMMA FirstBegin ==
  ASSUME Shape, NEW s \in Streams, NEW p \in Pages, NEW last \in 0..MaxEvents,
         Begin(s, p, last), opens' < 2
  PROVE  /\ opens = 0
         /\ \A q \in Pages : page[q] = Closed
         /\ stream'[s].todo \in Seq(Ids)
         /\ Numbered(stream'[s].todo, Done(s)')
  <1>1. opens = 0 /\ epoch \in Epochs
    BY Beginning, Types DEF Shape
  <1>2. ASSUME NEW q \in Pages PROVE page[q] = Closed
    <2>1. ~page[q].up
      BY <1>1 DEF Shape, PageInv
    <2> QED  BY <2>1 DEF Shape, PageInv
  <1>3. queues'[epoch'] = <<>> /\ counter' = counter /\ counter \in Nat
    BY <1>1, Types DEF Begin, Shape, ServerInv
  <1>4. last \in Nat /\ buffer \in Seq(Ids)
    BY Types DEF Shape
  <1>5. Missed(last) \in Seq(Ids) /\ Numbered(Missed(last), counter - Len(Missed(last)))
    BY <1>3, <1>4, MissedIsFilter DEF Shape, ServerInv
  <1>6. stream'[s].todo = Missed(last)
    BY Beginning
  <1>7. Done(s)' = counter - Len(Missed(last))
    <2>1. Done(s)' = counter - Len(<<>>) - Len(Missed(last))
      BY <1>3, <1>6 DEF Done
    <2>2. Len(<<>>) = 0 /\ counter - 0 = counter
      BY <1>3
    <2> QED  BY <2>1, <2>2
  <1> QED  BY <1>1, <1>2, <1>5, <1>6, <1>7

\* A page that is sent the id after the last one stays exact.
LEMMA OneMore ==
  ASSUME NEW got \in Seq(Epochs \X Ids), NEW e \in Epochs, NEW id \in Ids,
         Exact(got), UpTo(got, id - 1)
  PROVE  Exact(Append(got, <<e, id>>)) /\ UpTo(Append(got, <<e, id>>), id)
  <1> DEFINE more == Append(got, <<e, id>>)
  <1>1. /\ Len(got) \in Nat /\ Len(more) = Len(got) + 1
        /\ \A k \in 1..Len(got) : more[k] = got[k]
        /\ more[Len(got) + 1] = <<e, id>>
    BY AppendProperties
  <1>2. id \in Int /\ \A k \in 1..Len(got) : got[k][2] \in Int
    <2>1. \A k \in 1..Len(got) : got[k] \in Epochs \X Ids
      BY ElementOfSeq
    <2> QED  BY <2>1 DEF Ids
  <1> HIDE DEF more
  <1>3. UpTo(more, id)
    BY <1>1 DEF UpTo
  <1>4. Exact(more)
    <2>1. CASE Len(got) = 0
      BY <1>1, <1>2, <2>1 DEF Exact
    <2>2. CASE Len(got) >= 1
      <3>0. got # <<>>
        BY <1>1, <2>2, EmptySeq
      <3>1. 1 \in 1..Len(got) /\ Len(got) \in 1..Len(got)
        BY <1>1, <2>2
      <3> DEFINE n == Len(got)
                 g(k) == got[k][2]
                 m(k) == more[k][2]
      <3>2. n \in Nat /\ 1 \in 1..n /\ n \in 1..n
        BY <1>1, <3>1
      <3>3. \A k \in 1..n : g(k) \in Int /\ g(k) = g(1) + (k - 1) /\ m(k) = g(k)
        BY <1>1, <1>2 DEF Exact
      <3>4. g(n) = id - 1
        BY <3>0 DEF UpTo
      <3>5. m(n + 1) = id
        BY <1>1
      <3>6. SUFFICES \A k \in 1..(n + 1) : m(k) = m(1) + (k - 1)
        BY <1>1 DEF Exact
      <3> HIDE DEF n, g, m
      <3>7. g(n) = g(1) + (n - 1) /\ g(1) \in Int /\ m(1) = g(1)
        BY <3>2, <3>3
      <3>8. id = g(1) + n
        BY <1>2, <3>2, <3>4, <3>7
      <3>9. ASSUME NEW k \in 1..(n + 1) PROVE m(k) = m(1) + (k - 1)
        <4>1. CASE k \in 1..n
          BY <3>3, <3>7, <4>1
        <4>2. CASE k = n + 1
          BY <3>2, <3>5, <3>7, <3>8, <4>2
        <4> QED  BY <3>2, <4>1, <4>2
      <3> QED  BY <3>9
    <2> QED  BY <1>1, <2>1, <2>2
  <1> QED  BY <1>3, <1>4 DEF more

LEMMA DoneType == ASSUME TypeOK, NEW s \in Streams PROVE Done(s) \in Int
  <1>1. counter \in Nat /\ queues[epoch] \in Seq(Ids) /\ stream[s].todo \in Seq(Ids)
    BY Types DEF StreamStates
  <1>2. Len(queues[epoch]) \in Nat /\ Len(stream[s].todo) \in Nat
    BY <1>1
  <1> QED  BY <1>1, <1>2 DEF Done

\* A chunk for the only stream's listener, by replay or live.
LEMMA ChunkExact ==
  ASSUME Shape, ExactInv, NEW s \in Streams, NEW id \in Ids, page' = Received(s, id),
         opens' = opens, opens < 2, Current(s),
         id = Done(s) + 1, Done(s)' = id, Numbered(stream'[s].todo, id)
  PROVE  ExactInv'
  <1>0. TypeOK /\ StreamInv /\ PageInv /\ page \in [Pages -> PageStates]
        /\ stream \in [Streams -> StreamStates]
    BY Types DEF Shape
  <1> SUFFICES ASSUME NEW p \in Pages
               PROVE  /\ Exact(page'[p].got)
                      /\ \A t \in Streams : page'[p].conn = t =>
                            Numbered(stream'[t].todo, Done(t)') /\ UpTo(page'[p].got, Done(t)')
    BY DEF ExactInv
  <1>1. CASE page[p].conn = s
    <2>1. /\ page'[p].conn = s
          /\ page'[p].got = Append(page[p].got, <<stream[s].epoch, id>>)
      BY <1>0, <1>1, Delivery
    <2>2. page[p].got \in Seq(Epochs \X Ids) /\ stream[s].epoch \in Epochs
      BY <1>0 DEF PageStates, StreamStates
    <2>3. Exact(page[p].got) /\ UpTo(page[p].got, Done(s))
      BY <1>1 DEF ExactInv
    <2>4. Done(s) = id - 1
      BY <1>0, DoneType
    <2>5. UpTo(page[p].got, id - 1)
      BY <2>3, <2>4
    <2>6. Exact(page'[p].got) /\ UpTo(page'[p].got, id)
      BY <2>1, <2>2, <2>3, <2>5, OneMore
    <2> QED  BY <2>1, <2>6
  <1>2. CASE page[p].conn # s
    <2>1. page'[p] = page[p]
      BY <1>0, <1>2, Delivery
    <2>2. page[p].conn \notin Streams
      <3>1. page[p].conn # NoStream /\ page[p].conn \in Streams => Current(page[p].conn)
        BY <1>0 DEF PageInv
      <3>2. \A t \in Streams : Current(t) => t = s
        BY <1>0 DEF StreamInv
      <3>3. \A t \in Streams : t # NoStream
        BY <1>0, Types
      <3> QED  BY <1>2, <3>1, <3>2, <3>3
    <2> QED  BY <2>1, <2>2 DEF ExactInv
  <1> QED  BY <1>1, <1>2

\* Nothing changes for the first listener.
LEMMA SameExact ==
  ASSUME ExactInv, opens' = opens, epoch' = epoch,
         \A p \in Pages : \/ page'[p] = page[p]
                          \/ /\ page'[p].got = page[p].got \/ page'[p].got = <<>>
                             /\ page'[p].conn = NoStream,
         NoStream \notin Streams,
         \A s \in Streams : \A p \in Pages : page[p].conn = s =>
             stream'[s].todo = stream[s].todo /\ Done(s)' = Done(s)
  PROVE  ExactInv'
  <1>1. Len(<<>>) = 0
    OBVIOUS
  <1>2. Exact(<<>>)
    BY <1>1 DEF Exact
  <1> QED  BY <1>2 DEF ExactInv

LEMMA PublishExact == ASSUME Shape, ExactInv, Publish PROVE ExactInv'
  <1>0. /\ counter \in Nat /\ queues \in [Epochs -> Seq(Ids)] /\ epoch \in Epochs
        /\ queues[epoch] \in Seq(Ids) /\ stream \in [Streams -> StreamStates]
        /\ opens \in 0..2 /\ NoStream \notin Streams
    BY Types, NamesAssumption DEF Shape, TypeOK
  <1>1. counter' = counter + 1 /\ UNCHANGED <<epoch, opens, stream, page>>
    BY DEF Publish
  <1>2. ASSUME NEW s \in Streams, NEW p \in Pages, page[p].conn = s PROVE Done(s)' = Done(s)
    <2>1. opens > 0
      BY <1>0, <1>2 DEF Shape, PageInv, StreamInv
    <2>2. queues'[epoch] = Append(queues[epoch], counter')
      BY <1>0, <2>1 DEF Publish, Enqueued
    <2>3. Len(queues'[epoch]) = Len(queues[epoch]) + 1
      BY <1>0, <2>2
    <2>4. Len(queues[epoch]) \in Nat /\ Len(stream[s].todo) \in Nat
      BY <1>0 DEF StreamStates
    <2> QED  BY <1>0, <1>1, <2>3, <2>4 DEF Done
  <1> QED  BY <1>0, <1>1, <1>2, SameExact

LEMMA OpenExact ==
  ASSUME Shape, NEW p \in Pages, NEW s \in Streams, Open(p, s)
  PROVE  ExactInv'
  <1>1. Begin(s, p, 0) /\ 0 \in 0..MaxEvents
    BY BroadcasterAssumption DEF Open
  <1> SUFFICES ASSUME opens' < 2
               PROVE  \A q \in Pages : /\ Exact(page'[q].got)
                                       /\ \A t \in Streams : page'[q].conn = t =>
                                            /\ Numbered(stream'[t].todo, Done(t)')
                                            /\ UpTo(page'[q].got, Done(t)')
    BY DEF ExactInv
  <1>2. (\A q \in Pages : page[q] = Closed) /\ Numbered(stream'[s].todo, Done(s)')
    BY <1>1, FirstBegin
  <1>3. page \in [Pages -> PageStates] /\ NoStream \notin Streams
    BY Types, NamesAssumption DEF Shape
  <1>4. \A q \in Pages : page'[q].got = <<>> /\ page'[q].conn \in {s, NoStream}
    BY <1>2, <1>3 DEF Open, Closed
  <1>5. Exact(<<>>)
    <2>1. Len(<<>>) = 0
      OBVIOUS
    <2> QED  BY <2>1 DEF Exact
  <1> QED  BY <1>2, <1>3, <1>4, <1>5 DEF UpTo

LEMMA RetryExact ==
  ASSUME Shape, NEW p \in Pages, NEW s \in Streams, Retry(p, s)
  PROVE  ExactInv'
  <1>1. Begin(s, p, page[p].last) /\ page[p].last \in 0..MaxEvents /\ page[p].up
    BY Types DEF Retry, Shape, PageStates
  <1>2. opens' < 2 => page[p] = Closed
    BY <1>1, FirstBegin
  <1> QED  BY <1>1, <1>2 DEF ExactInv, Closed

LEMMA ReplayExact ==
  ASSUME Shape, ExactInv, NEW s \in Streams, Replay(s)
  PROVE  ExactInv'
  <1>0. /\ TypeOK /\ PageInv /\ stream \in [Streams -> StreamStates]
        /\ page \in [Pages -> PageStates] /\ NoStream \notin Streams
    BY Types, NamesAssumption DEF Shape
  <1>1. UNCHANGED <<epoch, counter, queues, opens>> /\ stream[s].at = "replay"
    BY DEF Replay
  <1>2. CASE stream[s].todo = <<>>
    <2>1. stream' = [stream EXCEPT ![s].at = "live"] /\ page' = page
      BY <1>2 DEF Replay
    <2>2. \A t \in Streams : stream'[t].todo = stream[t].todo
      BY <1>0, <2>1 DEF StreamStates
    <2>3. \A t \in Streams : Done(t)' = Done(t)
      BY <1>1, <2>2 DEF Done
    <2> QED  BY <1>0, <1>1, <2>1, <2>2, <2>3, SameExact
  <1>3. CASE stream[s].todo # <<>>
    <2>1. /\ stream' = [stream EXCEPT ![s].todo = Tail(@)]
          /\ page' = Received(s, Head(stream[s].todo))
      BY <1>3 DEF Replay
    <2>2. stream[s].todo \in Seq(Ids) /\ Head(stream[s].todo) \in Ids
      BY <1>0, <1>3 DEF StreamStates
    <2>3. /\ stream'[s].todo = Tail(stream[s].todo)
          /\ \A t \in Streams \ {s} : stream'[t] = stream[t]
      BY <1>0, <2>1 DEF StreamStates
    <2>4. CASE \E p \in Pages : page[p].conn = s
      <3> SUFFICES ASSUME opens < 2 PROVE ExactInv'
        BY <1>1 DEF ExactInv
      <3>1. Current(s) /\ Numbered(stream[s].todo, Done(s))
        BY <1>0, <2>4 DEF ExactInv, PageInv
      <3> DEFINE ids == stream[s].todo
                 d == Done(s)
      <3>2. ids \in Seq(Int) /\ ids # <<>> /\ d \in Int /\ Numbered(ids, d)
        <4>1. Ids \subseteq Int
          BY DEF Ids
        <4>2. ids \in Seq(Int)
          BY <2>2, <4>1, SeqMonotonic
        <4>3. d \in Int
          BY <1>0, DoneType
        <4> HIDE DEF d
        <4> QED  BY <1>3, <3>1, <4>2, <4>3 DEF d
      <3> HIDE DEF ids, d
      <3>3. Head(ids) = d + 1 /\ Len(Tail(ids)) = Len(ids) - 1 /\ Numbered(Tail(ids), d + 1)
        BY <3>2, NumberedTail
      <3>4. Done(s)' = d + 1
        <4>1. counter \in Nat /\ queues[epoch] \in Seq(Ids) /\ Len(queues[epoch]) \in Nat
          BY <1>0, Types
        <4> DEFINE n == Len(queues[epoch])
        <4>2. Len(ids) \in Nat
          BY <3>2
        <4>3. d = counter - n - Len(ids)
          BY DEF Done, ids, d
        <4>4. stream'[s].todo = Tail(ids) /\ queues'[epoch'] = queues[epoch]
          BY <1>1, <2>3 DEF ids
        <4>5. Done(s)' = counter - n - Len(Tail(ids))
          BY <1>1, <4>4 DEF Done
        <4>6. n \in Nat /\ Len(Tail(ids)) = Len(ids) - 1
          BY <3>3, <4>1
        <4> DEFINE m == Len(ids)
                   c == counter
        <4>7. c \in Nat /\ n \in Nat /\ m \in Nat
          BY <4>1, <4>2
        <4>8. d = c - n - m /\ Done(s)' = c - n - (m - 1)
          BY <4>3, <4>5, <4>6
        <4> HIDE DEF n, m, c
        <4>9. c - n - (m - 1) = c - n - m + 1
          BY <4>7
        <4> QED  BY <4>8, <4>9
      <3>5. /\ Head(ids) = Done(s) + 1 /\ Done(s)' = Head(ids)
            /\ Numbered(stream'[s].todo, Head(ids))
        BY <2>3, <3>3, <3>4 DEF ids, d
      <3>6. Head(ids) \in Ids /\ page' = Received(s, Head(ids))
        BY <2>1, <2>2 DEF ids
      <3> QED  BY <1>1, <3>1, <3>5, <3>6, ChunkExact
    <2>5. CASE \A p \in Pages : page[p].conn # s
      <3>1. page' \in [Pages -> PageStates] /\ \A p \in Pages : page'[p] = page[p]
        BY <1>0, <2>1, <2>2, <2>5, Delivery
      <3>2. \A t \in Streams \ {s} : Done(t)' = Done(t)
        BY <1>1, <2>3 DEF Done
      <3> QED  BY <1>0, <1>1, <2>3, <2>5, <3>1, <3>2, SameExact
    <2> QED  BY <2>4, <2>5
  <1> QED  BY <1>2, <1>3

LEMMA LiveExact ==
  ASSUME Shape, ExactInv, NEW s \in Streams, Live(s)
  PROVE  ExactInv'
  <1>0. /\ TypeOK /\ ServerInv /\ StreamInv /\ PageInv /\ stream \in [Streams -> StreamStates]
        /\ page \in [Pages -> PageStates] /\ NoStream \notin Streams
        /\ queues \in [Epochs -> Seq(Ids)] /\ epoch \in Epochs
    BY Types, NamesAssumption DEF Shape, TypeOK
  <1> SUFFICES ASSUME opens < 2 PROVE ExactInv'
    BY DEF ExactInv, Live
  <1> DEFINE q == stream[s].epoch
  <1>1. UNCHANGED <<epoch, counter, opens, stream>> /\ stream[s].at = "live"
    BY DEF Live
  <1>2. /\ queues[q] # <<>> /\ queues' = [queues EXCEPT ![q] = Tail(@)]
        /\ page' = Received(s, Head(queues[q])) /\ q \in Epochs
    BY <1>0 DEF Live, StreamStates
  <1>3. Head(queues[q]) \in Ids
    BY <1>0, <1>2
  <1>4. CASE q = epoch
    <2>1. queues[epoch] # <<>> /\ queues'[epoch] = Tail(queues[epoch])
      BY <1>0, <1>2, <1>4
    <2>2. /\ Head(queues[epoch]) = counter - Len(queues[epoch]) + 1
          /\ Len(Tail(queues[epoch])) = Len(queues[epoch]) - 1
          /\ Len(queues[epoch]) \in Nat
      BY <1>0, <2>1, QueueTail
    <2>3. stream[s].todo = <<>> /\ Len(<<>>) = 0
      BY <1>0, <1>1 DEF StreamInv
    <2>4. Len(queues'[epoch']) = Len(queues[epoch]) - 1 /\ Len(stream'[s].todo) = 0
          /\ Len(stream[s].todo) = 0 /\ counter' = counter /\ counter \in Nat
      BY <1>0, <1>1, <2>1, <2>2, <2>3, Types
    <2> DEFINE n == Len(queues[epoch])
               id == Head(queues[epoch])
    <2>5. Done(s) = counter - n - 0 /\ Done(s)' = counter - (n - 1) - 0
      BY <2>4 DEF Done
    <2>6. n \in Nat /\ counter \in Nat /\ id = counter - n + 1
      BY <2>2, <2>4
    <2>7. page' = Received(s, id) /\ id \in Ids
      BY <1>2, <1>3, <1>4
    <2> HIDE DEF n, id
    <2>8. id = Done(s) + 1 /\ Done(s)' = id
      BY <2>5, <2>6
    <2>9. Numbered(stream'[s].todo, id)
      BY <2>4 DEF Numbered
    <2>10. Current(s)
      BY <1>1, <1>4 DEF Current
    <2> QED  BY <1>1, <2>7, <2>8, <2>9, <2>10, ChunkExact
  <1>5. CASE q # epoch
    <2>1. \A p \in Pages : page[p].conn # s
      BY <1>0, <1>2, <1>3, <1>5, Delivery DEF Current
    <2>2. \A p \in Pages : page'[p] = page[p]
      BY <1>0, <1>2, <1>3, <2>1, Delivery
    <2>3. queues'[epoch] = queues[epoch]
      BY <1>0, <1>2, <1>5
    <2>4. \A t \in Streams : Done(t)' = Done(t) /\ stream'[t].todo = stream[t].todo
      BY <1>1, <2>3 DEF Done
    <2> QED  BY <1>0, <1>1, <2>2, <2>4, SameExact
  <1> QED  BY <1>4, <1>5

LEMMA NextExact == Shape /\ ExactInv /\ [Next]_vars => ExactInv'
  <1> SUFFICES ASSUME Shape, ExactInv, [Next]_vars PROVE ExactInv'
    OBVIOUS
  <1>0. /\ page \in [Pages -> PageStates] /\ NoStream \notin Streams
        /\ stream \in [Streams -> StreamStates]
    BY Types, NamesAssumption DEF Shape
  <1>1. CASE Publish
    BY <1>1, PublishExact
  <1>2. CASE Clear
    <2>1. \A p \in Pages : page'[p].got = <<>> /\ page'[p].conn = NoStream
      BY <1>2 DEF Clear, Shape, PageInv, Closed
    <2>2. Exact(<<>>)
      <3>1. Len(<<>>) = 0
        OBVIOUS
      <3> QED  BY <3>1 DEF Exact
    <2> QED  BY <1>0, <2>1, <2>2 DEF ExactInv
  <1>3. ASSUME NEW p \in Pages, Drop(p) \/ Close(p) PROVE ExactInv'
    <2>1. /\ UNCHANGED <<epoch, counter, queues, opens, stream>>
          /\ \A q \in Pages \ {p} : page'[q] = page[q]
          /\ page'[p].got = page[p].got \/ page'[p].got = <<>>
          /\ page'[p].conn = NoStream
      BY <1>0, <1>3 DEF Drop, Close, Closed, PageStates
    <2>2. \A t \in Streams : Done(t)' = Done(t)
      BY <2>1 DEF Done
    <2> QED  BY <1>0, <2>1, <2>2, SameExact
  <1>4. ASSUME NEW p \in Pages, NEW s \in Streams, Open(p, s) \/ Retry(p, s) PROVE ExactInv'
    BY <1>4, OpenExact, RetryExact
  <1>5. ASSUME NEW s \in Streams, Replay(s) \/ Live(s) PROVE ExactInv'
    BY <1>5, ReplayExact, LiveExact
  <1>6. ASSUME NEW s \in Streams, Notice(s) PROVE ExactInv'
    <2>1. /\ UNCHANGED <<epoch, counter, queues, opens, page>>
          /\ stream' = [stream EXCEPT ![s] = Off] /\ \A p \in Pages : page[p].conn # s
      BY <1>6 DEF Notice
    <2>2. \A t \in Streams \ {s} : stream'[t] = stream[t]
      BY <1>0, <2>1
    <2>3. \A t \in Streams \ {s} : Done(t)' = Done(t)
      BY <2>1, <2>2 DEF Done
    <2> QED  BY <1>0, <2>1, <2>2, <2>3, SameExact
  <1>7. CASE UNCHANGED vars
    BY <1>7 DEF ExactInv, Done, vars
  <1> QED  BY <1>1, <1>2, <1>3, <1>4, <1>5, <1>6, <1>7 DEF Next, Serve
-----------------------------------------------------------------------------
LEMMA InitInv == Init => IInv
  <1> SUFFICES ASSUME Init PROVE IInv
    OBVIOUS
  <1>1. Len(<<>>) = 0
    OBVIOUS
  <1>2. \A s \in Streams : ~Current(s)
    BY DEF Init, Current, Off
  <1>3. \A p \in Pages : page[p].got = <<>> /\ page[p].conn \notin Streams
    BY NamesAssumption DEF Init, Closed
  <1> QED  BY <1>1, <1>2, <1>3, InitShape DEF IInv, TodoInv, ExactInv, Exact

THEOREM Invariant == Spec => []IInv
  <1>1. Init => IInv
    BY InitInv
  <1>2. IInv /\ [Next]_vars => IInv'
    BY NextShape, NextTodo, NextExact DEF IInv
  <1> QED  BY <1>1, <1>2, PTL DEF Spec

\* Type correctness of the event stream (app/agent/sse.py).
THEOREM TypeCorrect == Spec => []TypeOK
  <1>1. IInv => TypeOK
    BY DEF IInv, Shape
  <1> QED  BY <1>1, Invariant, PTL

\* The only stream a run has had sends its page every event once and in order
\* from the first one on (the replay loop and the live loop of stream()).
THEOREM FirstStream == Spec => []FirstStreamIsExact
  <1>1. ASSUME IInv PROVE FirstStreamIsExact
    <2> SUFFICES ASSUME opens < 2, NEW p \in Pages
                 PROVE  LET got == page[p].got
                            now == {k \in DOMAIN got : got[k][1] = epoch}
                        IN  \A j, k \in now :
                              (j < k /\ now \intersect (j + 1)..(k - 1) = {}) =>
                                  got[k][2] = got[j][2] + 1
      BY DEF FirstStreamIsExact
    <2> DEFINE got == page[p].got
               now == {k \in DOMAIN got : got[k][1] = epoch}
    <2>1. /\ Exact(got) /\ got \in Seq(Epochs \X Ids)
          /\ \A k \in 1..Len(got) : got[k][1] = epoch
      <3>1. page \in [Pages -> PageStates]
        BY <1>1, Types DEF IInv, Shape
      <3> QED  BY <1>1, <3>1 DEF IInv, Shape, ExactInv, PageInv, PageStates
    <2>2. now = 1..Len(got)
      BY <2>1
    <2>3. \A k \in 1..Len(got) : got[k][2] \in Int /\ got[k][2] = got[1][2] + (k - 1)
      <3>1. \A k \in 1..Len(got) : got[k] \in Epochs \X Ids
        BY <2>1, ElementOfSeq
      <3> QED  BY <2>1, <3>1 DEF Exact, Ids
    <2>4. Len(got) \in Nat
      BY <2>1
    <2> SUFFICES ASSUME NEW j \in now, NEW k \in now,
                        j < k, now \intersect (j + 1)..(k - 1) = {}
                 PROVE  got[k][2] = got[j][2] + 1
      OBVIOUS
    <2> HIDE DEF got, now
    <2>5. k = j + 1
      <3>1. j \in 1..Len(got) /\ k \in 1..Len(got)
        BY <2>2
      <3>2. j + 1 < k => j + 1 \in now \intersect (j + 1)..(k - 1)
        BY <2>2, <2>4, <3>1
      <3> QED  BY <2>4, <3>1, <3>2
    <2>6. j \in 1..Len(got) /\ k \in 1..Len(got) /\ 1 \in 1..Len(got)
      BY <2>2, <2>4
    <2> QED  BY <2>3, <2>4, <2>5, <2>6
  <1> QED  BY <1>1, Invariant, PTL
-----------------------------------------------------------------------------
\* Nothing missed.  Two generators of one run take turns on its queue, so this
\* needs the queue to have one reader at a time; the run may have had many.
OneListener == \A s, t \in Streams : Current(s) /\ Current(t) => s = t

Got(p, id) == \E k \in 1..Len(page[p].got) : page[p].got[k][2] = id

\* The stream has not come past this id.
Due(s, id) ==
    IF stream[s].todo = <<>> THEN id > counter - Len(queues[epoch]) ELSE id >= stream[s].todo[1]

\* The replay reaches to where the queue begins.
Reaches(s) ==
    stream[s].todo # <<>> =>
        stream[s].todo[Len(stream[s].todo)] >= counter - Len(queues[epoch])

MissInv ==
    \A p \in Pages : page[p].up =>
        /\ \A id \in ToSet(buffer) : id <= page[p].last => Got(p, id)
        /\ \A s \in Streams : page[p].conn = s =>
              Reaches(s) /\ \A id \in ToSet(buffer) : Got(p, id) \/ Due(s, id)

LEMMA BufferedIds == TypeOK => ToSet(buffer) \subseteq Ids
  <1> SUFFICES ASSUME TypeOK, NEW id \in ToSet(buffer) PROVE id \in Ids
    OBVIOUS
  <1>1. buffer \in Seq(Ids) /\ DOMAIN buffer = 1..Len(buffer)
    BY Types
  <1>2. PICK k \in 1..Len(buffer) : id = buffer[k]
    BY <1>1 DEF ToSet
  <1> QED  BY <1>1, <1>2, ElementOfSeq

LEMMA PublishMiss == ASSUME Shape, TodoInv, MissInv, Publish PROVE MissInv'
  <1>0. /\ TypeOK /\ ServerInv /\ StreamInv /\ PageInv
        /\ counter \in Nat /\ queues \in [Epochs -> Seq(Ids)] /\ epoch \in Epochs
        /\ queues[epoch] \in Seq(Ids) /\ stream \in [Streams -> StreamStates]
        /\ page \in [Pages -> PageStates] /\ opens \in 0..2 /\ NoStream \notin Streams
        /\ buffer \in Seq(Ids) /\ Ids \subseteq Nat \ {0}
    BY Types, NamesAssumption DEF Shape, TypeOK
  <1>1. counter' = counter + 1 /\ UNCHANGED <<epoch, opens, stream, page>>
    BY DEF Publish
  <1>2. ToSet(buffer') \subseteq ToSet(buffer) \union {counter + 1}
    <2>1. \E older \in Seq(Ids) : /\ buffer' = Append(older, counter + 1)
                                  /\ ToSet(older) \subseteq ToSet(buffer)
      <3>1. CASE Len(buffer) = MaxBuffer
        <4>1. buffer # <<>>
          <5>1. Len(<<>>) = 0
            OBVIOUS
          <5> QED  BY <3>1, <5>1, BroadcasterAssumption
        <4>2. /\ Tail(buffer) \in Seq(Ids) /\ Len(Tail(buffer)) = Len(buffer) - 1
              /\ \A k \in 1..Len(Tail(buffer)) : Tail(buffer)[k] = buffer[k + 1]
              /\ Len(buffer) \in Nat
          BY <1>0, <4>1, HeadTailProperties
        <4>3. \A k \in 1..Len(Tail(buffer)) : k + 1 \in 1..Len(buffer)
          BY <4>2
        <4>4. DOMAIN buffer = 1..Len(buffer) /\ DOMAIN Tail(buffer) = 1..Len(Tail(buffer))
          BY <1>0, <4>2
        <4>5. ToSet(Tail(buffer)) \subseteq ToSet(buffer)
          BY <4>2, <4>3, <4>4 DEF ToSet
        <4> QED  BY <1>1, <3>1, <4>2, <4>5 DEF Publish, Buffered
      <3>2. CASE Len(buffer) # MaxBuffer
        BY <1>0, <1>1, <3>2 DEF Publish, Buffered
      <3> QED  BY <3>1, <3>2
    <2>2. PICK older \in Seq(Ids) : /\ buffer' = Append(older, counter + 1)
                                    /\ ToSet(older) \subseteq ToSet(buffer)
      BY <2>1
    <2>3. /\ Len(older) \in Nat /\ DOMAIN older = 1..Len(older)
          /\ DOMAIN buffer' = 1..(Len(older) + 1)
          /\ \A k \in 1..Len(older) : buffer'[k] = older[k]
          /\ buffer'[Len(older) + 1] = counter + 1
      BY <2>2, AppendProperties
    <2>4. \A k \in DOMAIN buffer' : k \in DOMAIN older \/ k = Len(older) + 1
      BY <2>3
    <2> QED  BY <2>2, <2>3, <2>4 DEF ToSet
  <1>3. ASSUME NEW p \in Pages, NEW s \in Streams, page[p].conn = s
        PROVE  /\ queues'[epoch] = Append(queues[epoch], counter')
               /\ Len(queues'[epoch]) = Len(queues[epoch]) + 1
               /\ Len(queues[epoch]) \in Nat
               /\ counter' - Len(queues'[epoch]) = counter - Len(queues[epoch])
               /\ Current(s)
    <2>1. Current(s) /\ opens > 0
      BY <1>0, <1>3 DEF PageInv, StreamInv
    <2>2. queues'[epoch] = Append(queues[epoch], counter')
      BY <1>0, <2>1 DEF Publish, Enqueued
    <2>3. Len(queues'[epoch]) = Len(queues[epoch]) + 1 /\ Len(queues[epoch]) \in Nat
      BY <1>0, <2>2
    <2> QED  BY <1>0, <1>1, <2>1, <2>2, <2>3
  <1> SUFFICES ASSUME NEW p \in Pages, page[p].up
               PROVE  /\ \A id \in ToSet(buffer') : id <= page[p].last => Got(p, id)
                      /\ \A s \in Streams : page[p].conn = s =>
                            Reaches(s)' /\ \A id \in ToSet(buffer') : Got(p, id) \/ Due(s, id)'
    BY <1>1 DEF MissInv, Got
  <1>4. \A id \in ToSet(buffer') : id <= page[p].last => Got(p, id)
    <2>1. page[p].last <= counter /\ page[p].last \in Nat
      BY <1>0 DEF PageInv, PageStates
    <2>2. ~(counter + 1 <= page[p].last)
      BY <1>0, <2>1
    <2> QED  BY <1>2, <2>2 DEF MissInv
  <1>5. ASSUME NEW s \in Streams, page[p].conn = s
        PROVE  Reaches(s)' /\ \A id \in ToSet(buffer') : Got(p, id) \/ Due(s, id)'
    <2>1. counter' - Len(queues'[epoch']) = counter - Len(queues[epoch]) /\ stream' = stream
      BY <1>1, <1>3, <1>5
    <2>2. Reaches(s)'
      BY <1>5, <2>1 DEF MissInv, Reaches
    <2>3. ASSUME NEW id, id = counter + 1 PROVE Due(s, id)'
      <3>1. CASE stream[s].todo = <<>>
        <4>1. id > counter - Len(queues[epoch])
          BY <1>0, <1>3, <1>5, <2>3
        <4> QED  BY <2>1, <3>1, <4>1 DEF Due
      <3>2. CASE stream[s].todo # <<>>
        <4>1. stream[s].todo \in Seq(Ids)
          BY <1>0 DEF StreamStates
        <4>2. 1 \in 1..Len(stream[s].todo)
          BY <3>2, <4>1, EmptySeq
        <4> DEFINE first == stream[s].todo[1]
        <4>3. first <= counter
          BY <1>3, <1>5, <4>2 DEF TodoInv
        <4>4. first \in Ids
          BY <4>1, <4>2, ElementOfSeq
        <4>5. counter \in Nat /\ first \in Nat
          BY <1>0, <4>4
        <4> HIDE DEF first
        <4>6. id >= first
          BY <2>3, <4>3, <4>5
        <4> QED  BY <2>1, <3>2, <4>6 DEF Due, first
      <3> QED  BY <3>1, <3>2
    <2>4. \A id \in ToSet(buffer) : Got(p, id) \/ Due(s, id)'
      BY <1>5, <2>1 DEF MissInv, Due
    <2> QED  BY <1>2, <2>2, <2>3, <2>4
  <1> QED  BY <1>4, <1>5

\* A stream that starts has everything buffered that its listener lacks.
LEMMA BeginMiss ==
  ASSUME Shape, NEW s \in Streams, NEW p \in Pages, NEW last \in 0..MaxEvents,
         Begin(s, p, last)
  PROVE  Reaches(s)' /\ \A id \in ToSet(buffer) : id > last => Due(s, id)'
  <1>0. /\ TypeOK /\ last \in Nat /\ counter \in Nat /\ buffer \in Seq(Ids)
        /\ UNCHANGED <<epoch, counter, queues>>
        /\ queues[epoch] \in Seq(Ids)
    BY Types DEF Shape, Begin
  <1>1. stream'[s].todo = Missed(last)
    BY Beginning
  <1> DEFINE missed == Missed(last)
             n == Len(queues[epoch])
  <1>2. /\ missed \in Seq(Ids) /\ Numbered(missed, counter - Len(missed))
        /\ ToSet(missed) = {id \in ToSet(buffer) : id > last}
    BY <1>0, MissedIsFilter DEF Shape, ServerInv
  <1>3. n \in Nat /\ Len(missed) \in Nat /\ DOMAIN missed = 1..Len(missed)
    BY <1>0, <1>2
  <1> HIDE DEF missed, n
  <1>4. missed # <<>> => missed[Len(missed)] >= counter - n
    <2>1. missed # <<>> => missed[Len(missed)] = counter - Len(missed) + Len(missed)
      BY <1>2, <1>3, EmptySeq DEF Numbered
    <2> QED  BY <1>0, <1>3, <2>1
  <1>5. ASSUME NEW id \in ToSet(missed) PROVE missed # <<>> /\ id >= missed[1]
    <2>1. PICK k \in 1..Len(missed) : id = missed[k]
      BY <1>3 DEF ToSet
    <2>2. 1 \in 1..Len(missed) /\ missed # <<>>
      BY <1>2, <1>3, <2>1, EmptySeq
    <2>3. id = counter - Len(missed) + k /\ missed[1] = counter - Len(missed) + 1
      BY <1>2, <2>1, <2>2 DEF Numbered
    <2> QED  BY <1>0, <1>3, <2>1, <2>2, <2>3
  <1>6. Reaches(s)'
    BY <1>0, <1>1, <1>4 DEF Reaches, missed, n
  <1>7. \A id \in ToSet(buffer) : id > last => Due(s, id)'
    BY <1>0, <1>1, <1>2, <1>5 DEF Due, missed
  <1> QED  BY <1>6, <1>7

LEMMA OpenMiss ==
  ASSUME Shape, MissInv, NEW p \in Pages, NEW s \in Streams, Open(p, s)
  PROVE  MissInv'
  <1>1. Begin(s, p, 0) /\ 0 \in 0..MaxEvents
    BY BroadcasterAssumption DEF Open
  <1>2. UNCHANGED <<epoch, counter, buffer, queues>>
    BY <1>1 DEF Begin
  <1>3. /\ page \in [Pages -> PageStates] /\ NoStream \notin Streams
        /\ ToSet(buffer) \subseteq Nat \ {0}
    BY Types, NamesAssumption, BufferedIds DEF Shape
  <1>4. /\ \A q \in Pages \ {p} : page'[q] = page[q] /\ page[q].conn # s
        /\ page'[p].last = 0 /\ page'[p].conn = s
        /\ \A t \in Streams \ {s} : stream'[t] = stream[t]
    BY <1>1, <1>3, Beginning DEF Open, Closed
  <1>5. Reaches(s)' /\ \A id \in ToSet(buffer) : Due(s, id)'
    BY <1>1, <1>3, BeginMiss
  <1>6. \A t \in Streams \ {s} : /\ Reaches(t)' <=> Reaches(t)
                                 /\ \A id : Due(t, id)' <=> Due(t, id)
    BY <1>2, <1>4 DEF Reaches, Due
  <1>7. \A q \in Pages \ {p} : \A id : Got(q, id)' <=> Got(q, id)
    BY <1>4 DEF Got
  <1>8. \A id \in ToSet(buffer) : ~(id <= 0)
    BY <1>3
  <1> QED  BY <1>2, <1>3, <1>4, <1>5, <1>6, <1>7, <1>8 DEF MissInv

LEMMA RetryMiss ==
  ASSUME Shape, MissInv, NEW p \in Pages, NEW s \in Streams, Retry(p, s)
  PROVE  MissInv'
  <1>1. Begin(s, p, page[p].last) /\ page[p].last \in 0..MaxEvents /\ page[p].up
    BY Types DEF Retry, Shape, PageStates
  <1>2. UNCHANGED <<epoch, counter, buffer, queues>>
    BY <1>1 DEF Begin
  <1>3. /\ page \in [Pages -> PageStates] /\ NoStream \notin Streams
        /\ ToSet(buffer) \subseteq Nat
    BY Types, NamesAssumption, BufferedIds DEF Shape
  <1>4. /\ \A q \in Pages \ {p} : page'[q] = page[q] /\ page[q].conn # s
        /\ page'[p].last = page[p].last /\ page'[p].conn = s
        /\ page'[p].got = page[p].got
        /\ \A t \in Streams \ {s} : stream'[t] = stream[t]
    BY <1>1, <1>3, Beginning DEF Retry, PageStates
  <1>5. Reaches(s)' /\ \A id \in ToSet(buffer) : id > page[p].last => Due(s, id)'
    BY <1>1, BeginMiss
  <1>6. \A t \in Streams \ {s} : /\ Reaches(t)' <=> Reaches(t)
                                 /\ \A id : Due(t, id)' <=> Due(t, id)
    BY <1>2, <1>4 DEF Reaches, Due
  <1>7. \A q \in Pages : \A id : Got(q, id)' <=> Got(q, id)
    BY <1>4 DEF Got
  <1>8. \A id \in ToSet(buffer) : id <= page[p].last \/ id > page[p].last
    BY <1>1, <1>3
  <1>9. \A id \in ToSet(buffer) : Got(p, id) \/ Due(s, id)'
    BY <1>1, <1>5, <1>8 DEF MissInv
  <1> QED  BY <1>1, <1>2, <1>3, <1>4, <1>5, <1>6, <1>7, <1>9 DEF MissInv

\* A chunk adds its id to what the page has.
LEMMA GotMore ==
  ASSUME Shape, NEW s \in Streams, NEW id \in Ids, page' = Received(s, id),
         NEW p \in Pages, page[p].conn = s
  PROVE  \A i : Got(p, i) \/ i = id => Got(p, i)'
  <1>1. page[p].got \in Seq(Epochs \X Ids)
    BY Types DEF Shape, PageStates
  <1>2. page'[p].got = Append(page[p].got, <<stream[s].epoch, id>>)
    BY Delivery DEF Shape
  <1>3. /\ Len(page[p].got) \in Nat /\ Len(page'[p].got) = Len(page[p].got) + 1
        /\ \A k \in 1..Len(page[p].got) : page'[p].got[k] = page[p].got[k]
        /\ page'[p].got[Len(page'[p].got)] = <<stream[s].epoch, id>>
    BY <1>1, <1>2, AppendProperties
  <1>4. Len(page'[p].got) \in 1..Len(page'[p].got)
    BY <1>3
  <1>5. \A i : i = id => Got(p, i)'
    BY <1>3, <1>4 DEF Got
  <1>6. \A k \in 1..Len(page[p].got) : k \in 1..Len(page'[p].got)
    BY <1>3
  <1> QED  BY <1>3, <1>5, <1>6 DEF Got

LEMMA ReplayMiss ==
  ASSUME Shape, TodoInv, MissInv, NEW s \in Streams, Replay(s)
  PROVE  MissInv'
  <1>0. /\ TypeOK /\ PageInv /\ stream \in [Streams -> StreamStates]
        /\ page \in [Pages -> PageStates] /\ NoStream \notin Streams
        /\ ToSet(buffer) \subseteq Nat /\ counter \in Nat /\ Len(queues[epoch]) \in Nat
    <2>1. queues[epoch] \in Seq(Ids)
      BY Types DEF Shape
    <2> QED  BY <2>1, Types, NamesAssumption, BufferedIds DEF Shape
  <1>1. UNCHANGED <<epoch, counter, buffer, queues>> /\ stream[s].at = "replay"
    BY DEF Replay
  <1>2. CASE stream[s].todo = <<>>
    <2>1. stream' = [stream EXCEPT ![s].at = "live"] /\ page' = page
      BY <1>2 DEF Replay
    <2>2. \A t \in Streams : stream'[t].todo = stream[t].todo
      BY <1>0, <2>1 DEF StreamStates
    <2>3. \A t \in Streams : /\ Reaches(t)' <=> Reaches(t)
                             /\ \A id : Due(t, id)' <=> Due(t, id)
      BY <1>1, <2>2 DEF Reaches, Due
    <2> QED  BY <1>1, <2>1, <2>3 DEF MissInv, Got
  <1>3. CASE stream[s].todo # <<>>
    <2> DEFINE todo == stream[s].todo
               first == stream[s].todo[1]
               rest == Tail(stream[s].todo)
               floor == counter - Len(queues[epoch])
    <2>1. /\ stream' = [stream EXCEPT ![s].todo = Tail(@)]
          /\ page' = Received(s, Head(stream[s].todo))
      BY <1>3 DEF Replay
    <2>2. todo \in Seq(Ids) /\ todo # <<>>
      BY <1>0, <1>3 DEF StreamStates
    <2>3. /\ stream'[s].todo = rest
          /\ \A t \in Streams \ {s} : stream'[t] = stream[t]
      BY <1>0, <2>1 DEF StreamStates
    <2>4. /\ Len(todo) \in Nat \ {0} /\ first = Head(todo) /\ first \in Ids
          /\ rest \in Seq(Ids) /\ Len(rest) = Len(todo) - 1
          /\ \A k \in 1..Len(rest) : rest[k] = todo[k + 1]
      BY <2>2, EmptySeq, HeadTailProperties, ElementOfSeq
    <2>5. page' = Received(s, first) /\ first \in Nat
      BY <2>1, <2>4, Types DEF Shape
    <2>6. \A t \in Streams \ {s} : /\ Reaches(t)' <=> Reaches(t)
                                   /\ \A id : Due(t, id)' <=> Due(t, id)
      BY <1>1, <2>3 DEF Reaches, Due
    <2> SUFFICES ASSUME NEW p \in Pages, page'[p].up
                 PROVE  /\ \A id \in ToSet(buffer) : id <= page'[p].last => Got(p, id)'
                        /\ \A t \in Streams : page'[p].conn = t =>
                              Reaches(t)' /\ \A id \in ToSet(buffer) : Got(p, id)' \/ Due(t, id)'
      BY <1>1 DEF MissInv
    <2>7. CASE page[p].conn # s
      <3>1. page'[p] = page[p]
        BY <1>0, <2>4, <2>5, <2>7, Delivery
      <3>2. \A id : Got(p, id)' <=> Got(p, id)
        BY <3>1 DEF Got
      <3> QED  BY <2>6, <2>7, <3>1, <3>2 DEF MissInv
    <2>8. CASE page[p].conn = s
      <3>1. page[p].up /\ Current(s) /\ page'[p].last = first /\ page'[p].conn = s
        BY <1>0, <2>4, <2>5, <2>8, Delivery
      <3>2. \A i : Got(p, i) \/ i = first => Got(p, i)'
        BY <2>4, <2>5, <2>8, GotMore
      <3>3. \A k \in 1..Len(todo) : todo[k] = first + (k - 1)
        BY <3>1 DEF TodoInv
      <3>4. /\ todo[Len(todo)] >= floor
            /\ \A id \in ToSet(buffer) : Got(p, id) \/ id >= first
        BY <1>3, <2>8, <3>1 DEF MissInv, Reaches, Due
      <3>5. floor = counter - Len(queues[epoch]) /\ floor \in Int
        BY <1>0
      <3>6. /\ \A t : t = stream'[s].todo => t = rest
            /\ counter' - Len(queues'[epoch']) = floor
        BY <1>1, <2>3
      <3> HIDE DEF todo, first, rest, floor
      <3>7. ASSUME rest # <<>> PROVE rest[Len(rest)] >= floor /\ rest[1] = first + 1
        <4>1. Len(rest) >= 1
          BY <2>4, <3>7, EmptySeq
        <4>2. 1 \in 1..Len(rest) /\ Len(rest) \in 1..Len(rest)
              /\ Len(rest) + 1 = Len(todo) /\ 2 \in 1..Len(todo) /\ 1 + 1 = 2
          BY <2>4, <4>1
        <4>3. rest[1] = todo[2] /\ rest[Len(rest)] = todo[Len(todo)]
          BY <2>4, <4>2
        <4>4. todo[2] = first + (2 - 1)
          BY <3>3, <4>2
        <4>5. todo[2] = first + 1
          BY <2>5, <4>4
        <4> QED  BY <3>4, <4>3, <4>5
      <3>8. ASSUME rest = <<>> PROVE first >= floor
        <4>1. Len(<<>>) = 0
          OBVIOUS
        <4>2. Len(todo) = 1 /\ 1 \in 1..Len(todo)
          BY <2>4, <3>8, <4>1
        <4>3. todo[1] = first + (1 - 1)
          BY <3>3, <4>2
        <4> QED  BY <2>5, <3>4, <4>2, <4>3
      <3>9. Reaches(s)'
        BY <2>3, <3>6, <3>7 DEF Reaches
      <3>10. ASSUME NEW id \in ToSet(buffer) PROVE Got(p, id)' \/ Due(s, id)'
        <4>1. CASE Got(p, id) \/ id = first
          BY <3>2, <4>1
        <4>2. CASE ~Got(p, id) /\ id # first
          <5>1. id \in Nat /\ id >= first
            BY <1>0, <3>4, <4>2
          <5>2. id >= first + 1 /\ id > first
            BY <2>5, <4>2, <5>1
          <5>3. CASE rest = <<>>
            <6>1. id > floor
              BY <2>5, <3>5, <3>8, <5>1, <5>2, <5>3
            <6> QED  BY <2>3, <3>6, <5>3, <6>1 DEF Due
          <5>4. CASE rest # <<>>
            BY <2>3, <3>7, <5>2, <5>4 DEF Due
          <5> QED  BY <5>3, <5>4
        <4> QED  BY <4>1, <4>2
      <3>11. ASSUME NEW id \in ToSet(buffer), id <= first PROVE Got(p, id)'
        <4>1. id \in Nat
          BY <1>0
        <4>2. id = first \/ ~(id >= first)
          BY <2>5, <3>11, <4>1
        <4> QED  BY <3>2, <3>4, <4>2
      <3> QED  BY <1>0, <3>1, <3>9, <3>10, <3>11
    <2> QED  BY <2>7, <2>8
  <1> QED  BY <1>2, <1>3

LEMMA LiveMiss ==
  ASSUME Shape, MissInv, OneListener, NEW s \in Streams, Live(s)
  PROVE  MissInv'
  <1>0. /\ TypeOK /\ ServerInv /\ StreamInv /\ PageInv /\ stream \in [Streams -> StreamStates]
        /\ page \in [Pages -> PageStates] /\ NoStream \notin Streams
        /\ queues \in [Epochs -> Seq(Ids)] /\ epoch \in Epochs
        /\ ToSet(buffer) \subseteq Nat /\ counter \in Nat
    BY Types, NamesAssumption, BufferedIds DEF Shape, TypeOK
  <1> DEFINE q == stream[s].epoch
             id == Head(queues[q])
  <1>1. UNCHANGED <<epoch, counter, buffer, stream>> /\ stream[s].at = "live"
    BY DEF Live
  <1>2. /\ queues[q] # <<>> /\ queues' = [queues EXCEPT ![q] = Tail(@)]
        /\ page' = Received(s, id) /\ q \in Epochs
    BY <1>0 DEF Live, StreamStates
  <1>3. id \in Ids
    BY <1>0, <1>2
  <1>4. CASE q # epoch
    <2>1. \A p \in Pages : page'[p] = page[p]
      BY <1>0, <1>2, <1>3, <1>4, Delivery DEF Current
    <2>2. queues'[epoch] = queues[epoch]
      BY <1>0, <1>2, <1>4
    <2>3. \A t \in Streams : /\ Reaches(t)' <=> Reaches(t)
                             /\ \A i : Due(t, i)' <=> Due(t, i)
      BY <1>1, <2>2 DEF Reaches, Due
    <2>4. \A p \in Pages : \A i : Got(p, i)' <=> Got(p, i)
      BY <2>1 DEF Got
    <2> QED  BY <1>1, <2>1, <2>3, <2>4 DEF MissInv
  <1>5. CASE q = epoch
    <2> DEFINE n == Len(queues[epoch])
               floor == counter - n
    <2>1. queues[epoch] # <<>> /\ queues'[epoch] = Tail(queues[epoch])
      BY <1>0, <1>2, <1>5
    <2>2. id = counter - n + 1 /\ Len(Tail(queues[epoch])) = n - 1 /\ n \in Nat
      BY <1>0, <1>5, <2>1, QueueTail
    <2>3. stream[s].todo = <<>> /\ Current(s)
      BY <1>0, <1>1, <1>5 DEF StreamInv, Current
    <2>4. counter' - Len(queues'[epoch']) = counter - (n - 1)
      BY <1>1, <2>1, <2>2
    <2>5. page' = Received(s, id)
      BY <1>2
    <2>6. \A t : t = stream'[s].todo => t = <<>>
      BY <1>1, <2>3
    <2> HIDE DEF id, n
    <2>7. floor \in Int /\ id = floor + 1 /\ counter - (n - 1) = id
      BY <1>0, <2>2
    <2> HIDE DEF floor
    <2> SUFFICES ASSUME NEW p \in Pages, page'[p].up
                 PROVE  /\ \A i \in ToSet(buffer) : i <= page'[p].last => Got(p, i)'
                        /\ \A t \in Streams : page'[p].conn = t =>
                              Reaches(t)' /\ \A i \in ToSet(buffer) : Got(p, i)' \/ Due(t, i)'
      BY <1>1 DEF MissInv
    <2>8. CASE page[p].conn # s
      <3>1. page'[p] = page[p]
        BY <1>0, <1>3, <2>5, <2>8, Delivery
      <3>2. page[p].conn \notin Streams
        <4>1. page[p].conn \in Streams => Current(page[p].conn)
          BY <1>0 DEF PageInv
        <4> QED  BY <2>3, <2>8, <4>1 DEF OneListener
      <3>3. \A i : Got(p, i)' <=> Got(p, i)
        BY <3>1 DEF Got
      <3> QED  BY <3>1, <3>2, <3>3 DEF MissInv
    <2>9. CASE page[p].conn = s
      <3>1. page[p].up /\ page'[p].last = id /\ page'[p].conn = s
        BY <1>0, <1>3, <2>5, <2>9, Delivery
      <3>2. \A i : Got(p, i) \/ i = id => Got(p, i)'
        BY <1>3, <2>5, <2>9, GotMore
      <3>3. \A i \in ToSet(buffer) : Got(p, i) \/ i > floor
        BY <2>3, <2>9, <3>1 DEF MissInv, Due, floor, n
      <3>4. \A i \in ToSet(buffer) : Got(p, i) \/ i = id \/ i > id
        BY <1>0, <2>7, <3>3
      <3>5. Reaches(s)'
        BY <1>1, <2>3 DEF Reaches
      <3>6. \A i \in ToSet(buffer) : Got(p, i)' \/ Due(s, i)'
        <4>1. \A i : i > id => Due(s, i)'
          BY <1>1, <2>3, <2>4, <2>7 DEF Due
        <4> QED  BY <3>2, <3>4, <4>1
      <3>7. \A i \in ToSet(buffer) : i <= id => Got(p, i)'
        <4>1. \A i \in ToSet(buffer) : i <= id => ~(i > id)
          BY <1>0, <2>7
        <4> QED  BY <3>2, <3>4, <4>1
      <3> QED  BY <3>1, <3>5, <3>6, <3>7
    <2> QED  BY <2>8, <2>9
  <1> QED  BY <1>4, <1>5

LEMMA NextMiss == Shape /\ TodoInv /\ MissInv /\ OneListener /\ [Next]_vars => MissInv'
  <1> SUFFICES ASSUME Shape, TodoInv, MissInv, OneListener, [Next]_vars PROVE MissInv'
    OBVIOUS
  <1>0. page \in [Pages -> PageStates] /\ NoStream \notin Streams
    BY Types, NamesAssumption DEF Shape
  <1>1. CASE Publish
    BY <1>1, PublishMiss
  <1>2. CASE Clear
    BY <1>2 DEF Clear, MissInv
  <1>3. ASSUME NEW p \in Pages, Drop(p) \/ Close(p) PROVE MissInv'
    <2>1. /\ UNCHANGED <<epoch, counter, buffer, queues, stream>>
          /\ \A q \in Pages \ {p} : page'[q] = page[q]
          /\ \/ page'[p].got = page[p].got /\ page'[p].last = page[p].last /\ page'[p].up = page[p].up
             \/ ~page'[p].up
          /\ page'[p].conn = NoStream
      BY <1>0, <1>3 DEF Drop, Close, Closed, PageStates
    <2>2. \A t \in Streams : /\ Reaches(t)' <=> Reaches(t)
                             /\ \A id : Due(t, id)' <=> Due(t, id)
      BY <2>1 DEF Reaches, Due
    <2>3. \A q \in Pages : page'[q].up => \A id : Got(q, id)' <=> Got(q, id)
      BY <2>1 DEF Got
    <2> QED  BY <1>0, <2>1, <2>2, <2>3 DEF MissInv
  <1>4. ASSUME NEW p \in Pages, NEW s \in Streams, Open(p, s) \/ Retry(p, s) PROVE MissInv'
    BY <1>4, OpenMiss, RetryMiss
  <1>5. ASSUME NEW s \in Streams, Replay(s) \/ Live(s) PROVE MissInv'
    BY <1>5, ReplayMiss, LiveMiss
  <1>6. ASSUME NEW s \in Streams, Notice(s) PROVE MissInv'
    <2>1. /\ UNCHANGED <<epoch, counter, buffer, queues, page>>
          /\ stream' = [stream EXCEPT ![s] = Off] /\ \A p \in Pages : page[p].conn # s
      BY <1>6 DEF Notice
    <2>2. \A t \in Streams \ {s} : stream'[t] = stream[t]
      BY <2>1, Types DEF Shape
    <2>3. \A t \in Streams \ {s} : /\ Reaches(t)' <=> Reaches(t)
                                   /\ \A id : Due(t, id)' <=> Due(t, id)
      BY <2>1, <2>2 DEF Reaches, Due
    <2> QED  BY <2>1, <2>3 DEF MissInv, Got
  <1>7. CASE UNCHANGED vars
    BY <1>7 DEF MissInv, Got, Due, Reaches, vars
  <1> QED  BY <1>1, <1>2, <1>3, <1>4, <1>5, <1>6, <1>7 DEF Next, Serve

\* What a stream has left to replay and what waits in its queue together hold
\* every event it has not come past.
LEMMA DueIsOnItsWay ==
  ASSUME Shape, TodoInv, NEW s \in Streams, Current(s), Reaches(s),
         NEW id \in ToSet(buffer), Due(s, id)
  PROVE  id \in OnItsWay(s)
  <1> DEFINE todo == stream[s].todo
             queue == queues[epoch]
             floor == counter - Len(queue)
  <1>1. /\ counter \in Nat /\ todo \in Seq(Ids) /\ queue \in Seq(Ids) /\ Ids \subseteq Nat
        /\ stream[s].epoch = epoch /\ buffer \in Seq(Ids)
    BY Types DEF Shape, StreamStates, Current
  <1>2. /\ \A k \in 1..Len(queue) : queue[k] = floor + k
        /\ \A k \in 1..Len(buffer) : buffer[k] = counter - Len(buffer) + k
    BY DEF Shape, ServerInv, Numbered
  <1>3. id \in Nat /\ id <= counter
    <2>1. PICK k \in 1..Len(buffer) : id = buffer[k]
      BY <1>1 DEF ToSet
    <2>2. Len(buffer) \in Nat /\ id \in Nat
      <3>1. id \in Ids
        BY BufferedIds DEF Shape
      <3>2. id \in Nat
        BY <1>1, <3>1
      <3>3. Len(buffer) \in Nat
        BY <1>1, LenProperties
      <3> QED  BY <3>2, <3>3
    <2> DEFINE n == Len(buffer)
               c == counter
    <2>3. id = c - n + k /\ k \in 1..n
      BY <1>2, <2>1
    <2>4. n \in Nat /\ c \in Nat
      BY <1>1, <2>2
    <2> HIDE DEF n, c
    <2>5. id <= c
      BY <2>3, <2>4
    <2> QED  BY <2>2, <2>5 DEF c
  <1>4. /\ Len(todo) \in Nat /\ Len(queue) \in Nat
        /\ DOMAIN todo = 1..Len(todo) /\ DOMAIN queue = 1..Len(queue)
    BY <1>1
  <1>5. \A k \in 1..Len(todo) : todo[k] = todo[1] + (k - 1) /\ todo[k] \in Nat
    <2>1. \A k \in 1..Len(todo) : todo[k] \in Nat
      BY <1>1, ElementOfSeq
    <2> QED  BY <2>1 DEF TodoInv
  <1>6. /\ todo = <<>> => id > floor
        /\ todo # <<>> => id >= todo[1] /\ todo[Len(todo)] >= floor
    BY DEF Due, Reaches
  <1>7. todo # <<>> => Len(todo) >= 1
    BY <1>1, EmptySeq
  <1>8. ToSet(todo) \union ToSet(queue) = OnItsWay(s)
    BY <1>1 DEF OnItsWay
  <1> HIDE DEF todo, queue
  <1>9. ASSUME id > floor PROVE id \in ToSet(queue)
    <2>1. id - floor \in 1..Len(queue) /\ floor + (id - floor) = id
      BY <1>1, <1>3, <1>4, <1>9
    <2> HIDE DEF floor
    <2>2. queue[id - floor] = id
      BY <1>2, <2>1
    <2> QED  BY <1>4, <2>1, <2>2 DEF ToSet
  <1>10. floor \in Int
    BY <1>1, <1>4
  <1> HIDE DEF floor
  <1>11. CASE todo # <<>> /\ id <= todo[Len(todo)]
    <2> DEFINE j == id - todo[1] + 1
    <2>1. 1 \in 1..Len(todo) /\ Len(todo) \in 1..Len(todo)
      BY <1>4, <1>7, <1>11
    <2>2. todo[1] \in Nat /\ todo[Len(todo)] = todo[1] + (Len(todo) - 1)
      BY <1>5, <2>1
    <2>3. j \in 1..Len(todo) /\ todo[1] + (j - 1) = id
      BY <1>3, <1>4, <1>6, <1>11, <2>2
    <2> HIDE DEF j
    <2>4. todo[j] = id
      BY <1>5, <2>3
    <2> QED  BY <1>4, <1>8, <2>3, <2>4 DEF ToSet
  <1>12. CASE todo # <<>> /\ ~(id <= todo[Len(todo)])
    <2>1. Len(todo) \in 1..Len(todo)
      BY <1>4, <1>7, <1>12
    <2>2. id > floor
      BY <1>3, <1>5, <1>6, <1>10, <1>12, <2>1
    <2> QED  BY <1>8, <1>9, <2>2
  <1>13. CASE todo = <<>>
    BY <1>6, <1>8, <1>9, <1>13
  <1> QED  BY <1>11, <1>12, <1>13

\* With one reader of the queue at a time, no page that is up misses an event
\* that is still buffered, through any number of reconnects, reloads, resets
\* and events (SSEBroadcaster.stream and the EventSource of use-sse.ts).
THEOREM NothingIsMissed == Spec /\ []OneListener => []NothingMissed
  <1>1. Init => MissInv
    BY DEF Init, MissInv, Closed
  <1>2. IInv /\ MissInv /\ OneListener /\ [Next]_vars => MissInv'
    BY NextMiss DEF IInv
  <1>3. ASSUME IInv, MissInv PROVE NothingMissed
    <2> SUFFICES ASSUME NEW p \in Pages, page[p].up, NEW id \in ToSet(buffer) \ Seen(p)
                 PROVE  /\ id \in ToSet(Missed(page[p].last))
                        /\ page[p].conn # NoStream => id \in OnItsWay(page[p].conn)
      BY DEF NothingMissed
    <2>0. /\ page \in [Pages -> PageStates] /\ ToSet(buffer) \subseteq Nat
          /\ Shape /\ TodoInv /\ PageInv /\ ServerInv /\ TypeOK
      BY <1>3, Types, BufferedIds DEF IInv, Shape
    <2>1. ~Got(p, id)
      <3>1. \A k \in 1..Len(page[p].got) : page[p].got[k][1] = epoch
        BY <2>0 DEF PageInv
      <3>2. DOMAIN page[p].got = 1..Len(page[p].got)
        <4>1. page[p].got \in Seq(Epochs \X Ids)
          BY <2>0 DEF PageStates
        <4> QED  BY <4>1
      <3> QED  BY <3>1, <3>2 DEF Got, Seen, ToSet
    <2>2. page[p].last \in Nat /\ id \in Nat
      BY <2>0 DEF PageStates
    <2>3. id > page[p].last
      <3>1. ~(id <= page[p].last)
        BY <1>3, <2>1 DEF MissInv
      <3> QED  BY <2>2, <3>1
    <2>4. id \in ToSet(Missed(page[p].last))
      <3>1. buffer \in Seq(Ids) /\ counter \in Nat
        BY <2>0, Types
      <3> QED  BY <2>0, <2>2, <2>3, <3>1, MissedIsFilter DEF ServerInv
    <2>5. ASSUME page[p].conn # NoStream PROVE id \in OnItsWay(page[p].conn)
      <3>1. page[p].conn \in Streams /\ Current(page[p].conn)
        BY <2>0, <2>5 DEF PageInv, PageStates
      <3>2. Reaches(page[p].conn) /\ Due(page[p].conn, id)
        BY <1>3, <2>1, <3>1 DEF MissInv
      <3> QED  BY <2>0, <3>1, <3>2, DueIsOnItsWay
    <2> QED  BY <2>4, <2>5
  <1> QED  BY <1>1, <1>2, <1>3, Invariant, PTL DEF Spec

\* With a server that runs one generator at a time that is so in every run.
COROLLARY OneStreamMissesNothing ==
  ASSUME \A s, t \in Streams : s = t
  PROVE  Spec => []NothingMissed
  <1>1. OneListener
    BY DEF OneListener
  <1> QED  BY <1>1, NothingIsMissed, PTL
=============================================================================
