--------------------------- MODULE ConsoleStreaming ---------------------------
(***************************************************************************)
(* The output of a build process (or the log of the build master) on its   *)
(* way to the console windows of a client: the ring buffer and the         *)
(* streamer at the node, the proxy of the node at the client, which feeds  *)
(* every console that is open on the node, and the messages between them.  *)
(*                                                                         *)
(* A chunk of output is named by its mark; marks count from 1 and wrap     *)
(* after MaxMark, which no run comes to.  A byte is a chunk and a place in *)
(* it.  A read from the PTY is shorter than the limit at which it would be *)
(* split, so that every update is of one chunk.                            *)
(***************************************************************************)
EXTENDS Integers, Sequences, FiniteSetsExt, SequencesExt

CONSTANTS
  Consoles,      \* the console windows of the client on this node
  Capacity,      \* of the ring buffer
  Outputs,       \* what the process may write: sequences of lengths of chunks
  MaxMark,       \* 0xfffffffe in the code
  MaxOpens,      \* a bound: how often consoles are opened or reconnected
  MaxTrouble     \* a bound: lost messages, and seconds that outrun messages

\* With chunks as long as the buffer the loop that evicts would not end.
ASSUME ConsoleStreamingAssumption ==
  /\ Capacity \in Nat \ {0} /\ MaxMark \in Nat /\ MaxOpens \in Nat /\ MaxTrouble \in Nat
  /\ \A o \in Outputs :
       o \in Seq({l \in Nat : 0 < l /\ 2 * l < Capacity}) /\ Len(o) < MaxMark

VARIABLES
  buffer,        \* the ring buffer
  subscriber,    \* the client at the streamer: absent, or how late its ack is
  up, down,      \* messages to the streamer and to the client
  open,          \* the consoles that subscribe to the proxy
  last,          \* last_mark_received of each
  given,         \* what each was given since last_mark_received was set to 0
  output,        \* what the process writes
  written,       \* how many of its chunks have been written
  opens, trouble,
  lost,          \* whether there was trouble since the last chunk
  printed,       \* for the properties only: all of the output up to each chunk
  disturbed      \* for the properties only: the mark up to which each console was brought
                 \* by a message of which not exactly the known chunks were skipped, or 0

streamer == <<buffer, subscriber, output, written, printed>>
channels == <<up, down>>
client == <<open, last, given, opens, disturbed>>
vars == <<streamer, channels, client, trouble, lost>>

Chunk(m, l) == [j \in 1 .. l |-> <<m, j>>]

-----------------------------------------------------------------------------
(* Buffer: a ring of bytes, and a ring of marks and pointers that grows.    *)

Slots(b) == DOMAIN b.md
Around(b, i) == i % Cardinality(Slots(b))

\* The chunks in the buffer, counted from the oldest, which is 0.
Count(b) == IF b.empty THEN 0 ELSE Around(b, b.mdend - b.mdstart) + 1
Entry(b, k) == b.md[Around(b, b.mdstart + k)]

\* What is in use if the k oldest chunks are evicted.
Size(b, k) == (b.dend - Entry(b, k).pointer) % Capacity

\* Mutant: the field between end and start is not kept free.
MakesSpaceFull(b, l) ==
  IF b.empty THEN 0 ELSE Min({k \in 0 .. Count(b) - 1 : Capacity - Size(b, k) >= l})

\* How many chunks are evicted for one of length l.
MakesSpace(b, l) ==
  IF b.empty THEN 0 ELSE Min({k \in 0 .. Count(b) - 1 : Capacity - Size(b, k) > l})

Evict(b, k) == [b EXCEPT !.mdstart = IF k = 0 THEN @ ELSE Around(b, @ + k)]

\* md_count, without regard to a ring that has wrapped.
Used(b) == IF b.empty THEN 0 ELSE b.mdend - b.mdstart + 1

\* The metadata are moved to the start of longer arrays that are filled with range().
Grow(b) ==
  LET n == Cardinality(Slots(b)) IN
  IF Used(b) # n THEN b
  ELSE [b EXCEPT !.md = [i \in 0 .. (3 * n + 1) \div 2 - 1 |->
                           IF i < n THEN Entry(b, i) ELSE [mark |-> i, pointer |-> i]],
                 !.mdstart = 0, !.mdend = n - 1]

NewMark(b) == IF b.empty THEN 1 ELSE b.md[b.mdend].mark + 1

Copy(b, chunk) ==
  [b EXCEPT !.dend = (@ + Len(chunk)) % Capacity,
            !.data = [i \in 0 .. Capacity - 1 |->
                        LET j == (i - b.dend) % Capacity IN
                        IF j < Len(chunk) THEN chunk[j + 1] ELSE @[i]]]

Note(b, entry) ==
  LET i == IF b.empty THEN 0 ELSE Around(b, b.mdend + 1) IN
  [b EXCEPT !.md[i] = entry, !.mdend = i, !.mdstart = IF b.empty THEN 0 ELSE @, !.empty = FALSE]

\* append_chunk
AppendChunk(b, l) ==
  Note(Grow(Copy(Evict(b, MakesSpace(b, l)), Chunk(NewMark(b), l))),
       [mark |-> NewMark(b), pointer |-> b.dend])

\* get_chunks, up to now and from the kth chunk on: marks with the places where the
\* chunks begin in the data, and the data.
ChunksFrom(b, k) ==
  LET start == Entry(b, k).pointer IN
  [mdata |-> [i \in 1 .. Count(b) - k |->
                <<Entry(b, k + i - 1).mark, (Entry(b, k + i - 1).pointer - start) % Capacity>>],
   data |-> [i \in 1 .. (b.dend - start) % Capacity |-> b.data[(start + i - 1) % Capacity]]]

\* requested: marks that are no longer or not yet in the buffer are moved to its ends.
ChunksSince(b, mark) ==
  LET first == Entry(b, 0).mark
      newest == Entry(b, Count(b) - 1).mark
      wanted == Min({Max({mark, first}), newest})
  IN IF b.empty THEN [mdata |-> <<>>, data |-> <<>>]
     ELSE IF mark = 0 THEN ChunksFrom(b, 0)
     ELSE ChunksFrom(b, CHOOSE k \in 0 .. Count(b) - 1 : Entry(b, k).mark = wanted)

Init ==
  /\ buffer = [data |-> [i \in 0 .. Capacity - 1 |-> <<0, 0>>], dend |-> 0,
               md |-> [i \in {0} |-> [mark |-> 0, pointer |-> 0]],
               mdstart |-> 0, mdend |-> 0, empty |-> TRUE]
  /\ subscriber = "absent" /\ output \in Outputs /\ written = 0
  /\ up = <<>> /\ down = <<>>
  /\ open = {} /\ last = [c \in Consoles |-> 0] /\ given = [c \in Consoles |-> <<>>]
  /\ opens = 0 /\ trouble = 0 /\ lost = FALSE
  /\ printed = [m \in {0} |-> <<>>] /\ disturbed = [c \in Consoles |-> 0]

-----------------------------------------------------------------------------
(* ConsoleStreamer.                                                        *)

Message(type, chunks) == [type |-> type, mdata |-> chunks.mdata, data |-> chunks.data]

\* The process writes, and append_chunks tells the client.
Write ==
  /\ written < Len(output) /\ written' = written + 1
  /\ buffer' = AppendChunk(buffer, output[written + 1])
  /\ LET m == NewMark(buffer)
         l == output[written + 1]
     IN IF subscriber = "absent" THEN UNCHANGED <<subscriber, down>>
        ELSE /\ down' = Append(down, Message("update", [mdata |-> <<<<m, 0>>>>,
                                                        data |-> Chunk(m, l)]))
             /\ subscriber' = IF subscriber = "acked" THEN "sent" ELSE subscriber
  /\ lost' = FALSE
  /\ printed' = [m \in 0 .. written + 1 |->
                   IF m <= written THEN printed[m]
                   ELSE printed[written] \o Chunk(m, output[m])]
  /\ UNCHANGED <<output, up, client, trouble>>

\* The client does not get a second place in the list, and if it has one, that one stays
\* as it is.
UpdatesRequested ==
  /\ subscriber' = IF subscriber = "absent" THEN "acked" ELSE subscriber
  /\ UNCHANGED down

UpdateAcknowledged ==
  /\ subscriber' = IF subscriber = "absent" THEN "absent" ELSE "acked"
  /\ UNCHANGED down

Requested(mark) ==
  /\ down' = Append(down, Message("data", ChunksSince(buffer, mark)))
  /\ UNCHANGED subscriber

StreamerReceives ==
  /\ up # <<>> /\ up' = Tail(up)
  /\ \/ Head(up).type = "request_updates" /\ UpdatesRequested
     \/ Head(up).type = "ack" /\ UpdateAcknowledged
     \/ Head(up).type = "request" /\ Requested(Head(up).start)
  /\ UNCHANGED <<buffer, output, written, printed, client, trouble, lost>>

Later(s) == CASE s = "sent" -> "late" [] s = "late" -> "absent" [] OTHER -> s

\* A second has passed.  Messages take far less, else it is trouble.
Clk ==
  /\ subscriber \in {"sent", "late"} /\ subscriber' = Later(subscriber)
  /\ IF up = <<>> /\ down = <<>> THEN UNCHANGED <<trouble, lost>>
     ELSE trouble < MaxTrouble /\ trouble' = trouble + 1 /\ lost' = TRUE
  /\ UNCHANGED <<buffer, output, written, printed, channels, client>>

-----------------------------------------------------------------------------
(* BuildNodeProxy.                                                         *)

Request(start) == [type |-> "request", start |-> start]
AskForAll == up' = up \o <<[type |-> "request_updates"], Request(0)>>

InMarkRange(start, end, mark) ==
  IF start <= end THEN mark \in start .. end ELSE mark >= start \/ mark <= end

\* mark_add_disp(mark, -1)
Before(mark) == IF mark = 1 THEN MaxMark ELSE mark - 1

First(m) == m.mdata[1][1]
Newest(m) == m.mdata[Len(m.mdata)][1]

\* Mutant: everything helps.
HelpsAlways(m, mark) == TRUE

\* Some of the chunks are new, and none between them and the last one is missing.
Helps(m, mark) == InMarkRange(Before(First(m)), Before(Newest(m)), mark)

\* The chunks that the console has got already, and what the code skips for them: it
\* adds up where they begin instead of how long they are.
Old(m, mark) == {i \in 1 .. Len(m.mdata) : InMarkRange(m.mdata[i][1], Newest(m), mark)}
Starts(m, places) == MapThenSumSet(LAMBDA i : m.mdata[i][2], places)
Skipped(m, mark) == Starts(m, Old(m, mark))

\* For the properties only: how much of the data is known, up to the first new chunk.
Known(m, mark) ==
  LET new == {i \in 1 .. Len(m.mdata) : mark < m.mdata[i][1]} IN
  IF new = {} THEN Len(m.data) ELSE m.mdata[Min(new)][2]

Takes(m, c) == last[c] = 0 \/ Helps(m, last[c])

\* Mutant: what is missing is not requested.
MissesNothing(m) == {}

\* The consoles that still miss something then.
Misses(m) == {c \in open : ~Takes(m, c) /\ Newest(m) # last[c]}

\* The pointer is moved past the end of the data, and the size wraps below zero.
Overruns(m, mark) == Skipped(m, mark) \notin 0 .. Len(m.data)

\* What is read there is no output, if it can be read.
Beyond == <<<<0, 0>>>>

Given(m, c) ==
  CASE last[c] = 0 -> m.data
    [] last[c] # 0 /\ ~Overruns(m, last[c]) ->
         SubSeq(m.data, Skipped(m, last[c]) + 1, Len(m.data))
    [] last[c] # 0 /\ Overruns(m, last[c]) -> Beyond

Disturbs(m, c) == last[c] # 0 /\ Skipped(m, last[c]) # Known(m, last[c])

Acks(m) == IF m.type = "update" THEN <<[type |-> "ack"]>> ELSE <<>>

\* console_data_received, console_update_received
ClientReceives ==
  /\ down # <<>> /\ down' = Tail(down)
  /\ LET m == Head(down)
         takers == {c \in open : Takes(m, c)}
         missing == Misses(m)
         requests == IF missing = {} THEN <<>> ELSE <<Request(Min({last[c] : c \in missing}))>>
     IN IF m.mdata = <<>> THEN UNCHANGED <<last, given, disturbed, up>>
        ELSE /\ last' = [c \in Consoles |-> IF c \in takers THEN Newest(m) ELSE last[c]]
             /\ given' = [c \in Consoles |->
                            IF c \in takers THEN given[c] \o Given(m, c) ELSE given[c]]
             /\ disturbed' = [c \in Consoles |-> IF c \in takers /\ Disturbs(m, c)
                                                 THEN Newest(m) ELSE disturbed[c]]
             /\ up' = up \o requests \o Acks(m)
  /\ UNCHANGED <<streamer, open, opens, trouble, lost>>

\* It cannot be read: the client dies with its consoles.  One that is started again is
\* another client to the streamer.
ClientDies ==
  /\ down # <<>> /\ Head(down).mdata # <<>>
  /\ \E c \in open : /\ last[c] # 0 /\ Takes(Head(down), c)
                     /\ Overruns(Head(down), last[c])
  /\ up' = <<>> /\ down' = <<>> /\ subscriber' = "absent"
  /\ open' = {} /\ opens' = MaxOpens
  /\ last' = [c \in Consoles |-> 0] /\ given' = [c \in Consoles |-> <<>>]
  /\ disturbed' = [c \in Consoles |-> 0]
  /\ UNCHANGED <<buffer, output, written, printed, trouble, lost>>

\* subscribe_to_console, by a new console window.
Open(c) ==
  /\ c \notin open /\ opens < MaxOpens /\ opens' = opens + 1
  /\ open' = open \cup {c} /\ AskForAll
  /\ last' = [last EXCEPT ![c] = 0] /\ given' = [given EXCEPT ![c] = <<>>]
  /\ disturbed' = [disturbed EXCEPT ![c] = 0]
  /\ UNCHANGED <<streamer, down, trouble, lost>>

\* unsubscribe_from_console.  The node is not told.
Close(c) ==
  /\ c \in open /\ open' = open \ {c}
  /\ last' = [last EXCEPT ![c] = 0] /\ given' = [given EXCEPT ![c] = <<>>]
  /\ disturbed' = [disturbed EXCEPT ![c] = 0]
  /\ UNCHANGED <<streamer, channels, opens, trouble, lost>>

\* console_reconnect.  It begins anew for all consoles; the terminals of the others are
\* not cleared.
Reconnect ==
  /\ open # {} /\ opens < MaxOpens /\ opens' = opens + 1
  /\ AskForAll
  /\ last' = [c \in Consoles |-> 0] /\ given' = [c \in Consoles |-> <<>>]
  /\ disturbed' = [c \in Consoles |-> 0]
  /\ UNCHANGED <<streamer, down, open, trouble, lost>>

-----------------------------------------------------------------------------
(* The network.                                                            *)

Lose ==
  /\ trouble < MaxTrouble /\ trouble' = trouble + 1 /\ lost' = TRUE
  /\ \/ up # <<>> /\ up' = Tail(up) /\ UNCHANGED down
     \/ down # <<>> /\ down' = Tail(down) /\ UNCHANGED up
  /\ UNCHANGED <<streamer, client>>

Next ==
  \/ Write \/ StreamerReceives \/ Clk \/ ClientReceives \/ ClientDies
  \/ \E c \in Consoles : Open(c) \/ Close(c)
  \/ Reconnect \/ Lose

Spec == Init /\ [][Next]_vars

\* Messages that are not lost arrive.
FairSpec == Spec /\ WF_vars(StreamerReceives) /\ WF_vars(ClientReceives)

-----------------------------------------------------------------------------
(* Properties.                                                             *)

Buffered == ChunksFrom(buffer, 0).data

\* The buffer holds the last chunks that were written, whole and in their order, under
\* consecutive marks: append_chunk overwrites none that it keeps, when the data wrap and
\* when the metadata wrap or grow.
BufferHoldsTail ==
  ~buffer.empty =>
    /\ IsSuffix(Buffered, printed[written])
    /\ \A k \in 0 .. Count(buffer) - 1 :
         /\ Entry(buffer, k).mark = written - Count(buffer) + 1 + k
         /\ IsPrefix(<<<<Entry(buffer, k).mark, 1>>>>, ChunksFrom(buffer, k).data)

\* What was written after the chunk with which the console was last disturbed.
Since(c) ==
  SubSeq(printed[last[c]], Len(printed[disturbed[c]]) + 1, Len(printed[last[c]]))

\* However updates and the answers to its own requests and those of other consoles cross,
\* a console shows, from where it begins, all of the output up to the last mark it
\* received, and nothing twice: console_data_received.  When a loss is repaired this can
\* go wrong, as what is known already is not skipped properly; from then on what follows
\* is whole and in order again.  Without a loss it does not go wrong.
ShownInOrder ==
  \A c \in open :
    /\ trouble = 0 => disturbed[c] = 0
    /\ IF disturbed[c] = 0 THEN IsSuffix(given[c], Since(c)) ELSE IsSuffix(Since(c), given[c])

\* What a console misses has left the buffer: it can only be reconnected.
TooLate(c) == last[c] # 0 /\ last[c] + 1 < Entry(buffer, 0).mark

\* The last chunk stands at the end, or it came with a message that was cut at the wrong
\* place.
ShowsLast(c) ==
  /\ last[c] = written
  /\ written = 0 \/ disturbed[c] = written \/ IsSuffix(Chunk(written, output[written]), given[c])

\* Unless the last messages were lost, or a lost ack made the streamer drop the client,
\* every open console comes to the last chunk, though messages were lost before: the gap is
\* noticed with the next update, and requested.  It shows this chunk in full unless the
\* answer repairs the gap with the wrong part of what it carries, see ShownInOrder.
CatchesUp ==
  <>[](lost \/ subscriber = "absent" \/ \A c \in open : TooLate(c) \/ ShowsLast(c))

=============================================================================
