------------------------ MODULE ConsoleStreaming_proofs ------------------------
(***************************************************************************)
(* Theorems about console streaming, for any output, capacity and number   *)
(* of consoles, and without the bounds on openings and troubles: the ring  *)
(* holds the end of the output, and what a console shows is a contiguous   *)
(* part of it up to its last chunk, since the last repair of a loss that   *)
(* skipped the wrong bytes; without a loss, since it begins.               *)
(*                                                                         *)
(* The argument has two halves.  The buffer: chunk k starts Size(b, k)     *)
(* bytes before the end, sizes fall from the oldest chunk to the newest    *)
(* and stay under the capacity, so that all that append_chunk overwrites   *)
(* is older than what it keeps; hence whatever get_chunks reads is a       *)
(* suffix of the output.  The client: what a console takes in goes from    *)
(* its last chunk on, or it is disturbed and counts from there.  It is     *)
(* not disturbed as long as nothing was lost: each message under way       *)
(* starts where the one before it ends, the last one ends with all that    *)
(* is written, and every console that has begun is where the first one     *)
(* starts.                                                                 *)
(***************************************************************************)
EXTENDS ConsoleStreaming, FiniteSetTheorems, TLAPS

Bytes == Nat \X Nat
Marks == [mark : Nat, pointer : Nat]

RingOf(b, n) ==
  /\ n \in Nat \ {0}
  /\ b \in [data : [0 .. Capacity - 1 -> Bytes], dend : 0 .. Capacity - 1,
            md : [0 .. n - 1 -> Marks], mdstart : 0 .. n - 1, mdend : 0 .. n - 1,
            empty : BOOLEAN]

Ring(b) == RingOf(b, Cardinality(Slots(b)))

Holds(b, s, w) ==
  /\ w \in Nat /\ s \in Seq(Bytes)
  /\ b.empty => w = 0
  /\ ~b.empty =>
       /\ Count(b) <= w
       /\ \A k \in 0 .. Count(b) - 1 :
            /\ Entry(b, k).mark = w - Count(b) + 1 + k
            /\ Entry(b, k).pointer \in 0 .. Capacity - 1
            /\ Size(b, k) \in 1 .. Capacity - 1
            /\ Size(b, k) <= Len(s)
            /\ s[Len(s) - Size(b, k) + 1] = <<Entry(b, k).mark, 1>>
       /\ \A i, k \in 0 .. Count(b) - 1 : i <= k => Size(b, k) <= Size(b, i)
       /\ 2 * Size(b, Count(b) - 1) < Capacity
       /\ \A j \in 1 .. Size(b, 0) : b.data[(b.dend - j) % Capacity] = s[Len(s) + 1 - j]

-----------------------------------------------------------------------------
(* The inductive invariant.                                                *)

Lengths == {l \in Nat : 0 < l /\ 2 * l < Capacity}
Places == Seq(Nat \X Nat)
Requests == [type : {"request"}, start : Nat]
UpMessages == [type : {"request_updates", "ack"}] \cup Requests
DownMessages == [type : {"update", "data"}, mdata : Places, data : Seq(Bytes)]

TypeOK ==
  /\ subscriber \in {"absent", "acked", "sent", "late"}
  /\ output \in Outputs /\ written \in 0 .. Len(output)
  /\ printed \in [0 .. written -> Seq(Bytes)] /\ printed[0] = <<>>
  /\ up \in Seq(UpMessages) /\ down \in Seq(DownMessages)
  /\ open \subseteq Consoles /\ last \in [Consoles -> 0 .. written]
  /\ given \in [Consoles -> Seq(Bytes)] /\ disturbed \in [Consoles -> 0 .. written]
  /\ opens \in Nat /\ trouble \in Nat /\ lost \in BOOLEAN

BufferOK == Ring(buffer) /\ Holds(buffer, printed[written], written)

\* All of the output contains what there was before each chunk, and then this chunk,
\* which begins nowhere else.
Laid(m) ==
  LET before == printed[m - 1]
      all == printed[written]
  IN /\ Len(before) < Len(all)
     /\ \A j \in 1 .. Len(before) : all[j] = before[j]
     /\ \A j \in 1 .. Len(all) : all[j] = <<m, 1>> => j = Len(before) + 1

PrintedOK ==
  /\ \A m \in 1 .. written : Laid(m)
  /\ \A j \in 1 .. Len(printed[written]) : printed[written][j][1] <= written

\* The ith chunk of a message begins where it says.
Begins(m, i) ==
  /\ m.mdata[i][1] = First(m) + i - 1 /\ m.mdata[i][1] <= Newest(m)
  /\ m.mdata[i][2] \in 0 .. Len(m.data)
  /\ printed[Newest(m)]
       = printed[m.mdata[i][1] - 1] \o SubSeq(m.data, m.mdata[i][2] + 1, Len(m.data))

\* A message with chunks.
Fits(m) ==
  m.mdata # <<>> =>
    /\ Newest(m) \in 1 .. written /\ First(m) \in 1 .. Newest(m)
    /\ IsSuffix(m.data, printed[Newest(m)])
    /\ \A i \in 1 .. Len(m.mdata) : Begins(m, i)
    /\ m.type = "update" => /\ Len(m.mdata) = 1 /\ m.mdata[1][2] = 0
                            /\ printed[Newest(m)] = printed[Newest(m) - 1] \o m.data

MessagesFit ==
  \A i \in 1 .. Len(down) : Fits(down[i]) /\ (down[i].type = "update" => down[i].mdata # <<>>)

\* The last mark before a message and after it.
After(m) == IF m.mdata = <<>> THEN 0 ELSE Newest(m)
Prior(m) == IF m.type = "update" THEN After(m) - 1 ELSE After(m)

InTurn ==
  /\ \A i \in 1 .. Len(down) - 1 : Prior(down[i + 1]) = After(down[i])
  /\ down # <<>> => After(down[Len(down)]) = written

Seen == IF down = <<>> THEN written ELSE Prior(down[1])
NothingMissed == \A c \in Consoles : last[c] # 0 => last[c] = Seen

Subscribed ==
  /\ subscriber = "absent" => down = <<>> /\ \A c \in Consoles : last[c] = 0
  /\ subscriber \in {"sent", "late"} =>
       \/ \E i \in 1 .. Len(down) : down[i].type = "update"
       \/ \E i \in 1 .. Len(up) : up[i].type = "ack"

AsksAfter ==
  \A i \in 1 .. Len(up) :
    up[i].type = "request" =>
      /\ up[i].start = 0
      /\ subscriber # "absent" \/ \E j \in 1 .. i - 1 : up[j].type = "request_updates"

\* Without trouble what is known is skipped.
Undisturbed == \A c \in Consoles : disturbed[c] = 0

\* What a console got since it was disturbed, and whether it got more before.
Got(c, r) ==
  /\ printed[last[c]] = printed[disturbed[c]] \o r
  /\ IF disturbed[c] = 0 THEN IsSuffix(given[c], r) ELSE IsSuffix(r, given[c])

ConsoleOK(c) ==
  /\ last[c] = 0 => given[c] = <<>> /\ disturbed[c] = 0
  /\ c \notin open => last[c] = 0
  /\ \E r \in Seq(Bytes) : Got(c, r)

Shown == \A c \in Consoles : ConsoleOK(c)

WithoutTrouble == InTurn /\ NothingMissed /\ Subscribed /\ AsksAfter /\ Undisturbed

IInv ==
  TypeOK /\ BufferOK /\ PrintedOK /\ MessagesFit /\ Shown /\ (trouble = 0 => WithoutTrouble)

-----------------------------------------------------------------------------
(* Arithmetic.                                                             *)

\* What the remainder can be.
LEMMA Within ==
  ASSUME NEW n \in Nat \ {0}, NEW x \in Int
  PROVE  x % n \in 0 .. n - 1
OBVIOUS

\* The remainder of what is off by a turn at most.
LEMMA Wraps ==
  ASSUME NEW n \in Nat \ {0}, NEW x \in Int, -n <= x, x < 2 * n
  PROVE  x % n = IF x < 0 THEN x + n ELSE IF x < n THEN x ELSE x - n
<1>1. CASE x < 0
  BY <1>1
<1>2. CASE 0 <= x /\ x < n
  BY <1>2
<1>3. CASE n <= x
  BY <1>3
<1>. QED BY <1>1, <1>2, <1>3

\* An array of n places has n.
LEMMA SlotsCounted ==
  ASSUME NEW b, NEW n \in Nat \ {0}, NEW S, b.md \in [0 .. n - 1 -> S]
  PROVE  Cardinality(Slots(b)) = n
<1>1. DOMAIN b.md = 0 .. n - 1
  OBVIOUS
<1>2. Cardinality(0 .. n - 1) = n
  BY FS_Interval
<1>. QED BY <1>1, <1>2 DEF Slots

\* A place around the ring is at most one turn off.
LEMMA AroundIs ==
  ASSUME NEW b, NEW n \in Nat \ {0}, Cardinality(Slots(b)) = n,
         NEW x \in Int, -n <= x, x < 2 * n
  PROVE  Around(b, x) = IF x < 0 THEN x + n ELSE IF x < n THEN x ELSE x - n
<1>1. Around(b, x) = x % n
  BY DEF Around
<1>. QED BY <1>1, Wraps

\* Where the metadata are.
LEMMA CountIs ==
  ASSUME NEW b, NEW n, RingOf(b, n)
  PROVE  /\ Cardinality(Slots(b)) = n
         /\ ~b.empty => /\ Count(b) \in 1 .. n
                        /\ Count(b) = IF b.mdstart <= b.mdend THEN b.mdend - b.mdstart + 1
                                      ELSE b.mdend - b.mdstart + 1 + n
         /\ \A k \in 0 .. n - 1 :
              Entry(b, k) = b.md[IF b.mdstart + k < n THEN b.mdstart + k ELSE b.mdstart + k - n]
<1>1. Cardinality(Slots(b)) = n
  BY SlotsCounted DEF RingOf
<1>2. /\ n \in Nat \ {0} /\ b.mdstart \in 0 .. n - 1 /\ b.mdend \in 0 .. n - 1
  BY DEF RingOf
<1>3. ~b.empty => /\ Count(b) \in 1 .. n
                  /\ Count(b) = IF b.mdstart <= b.mdend THEN b.mdend - b.mdstart + 1
                                ELSE b.mdend - b.mdstart + 1 + n
  <2>1. b.mdend - b.mdstart \in Int /\ -n <= b.mdend - b.mdstart /\ b.mdend - b.mdstart < 2 * n
    BY <1>2
  <2>. QED BY <1>1, <1>2, <2>1, AroundIs DEF Count
<1>4. ASSUME NEW k \in 0 .. n - 1
      PROVE  Around(b, b.mdstart + k)
               = IF b.mdstart + k < n THEN b.mdstart + k ELSE b.mdstart + k - n
  <2>1. b.mdstart + k \in Int /\ 0 <= b.mdstart + k /\ b.mdstart + k < 2 * n
    BY <1>2
  <2>. QED BY <1>1, <1>2, <2>1, AroundIs
<1>. QED BY <1>1, <1>3, <1>4 DEF Entry

\* What is evicted is gone, and nothing else.
LEMMA Evicts ==
  ASSUME NEW b, NEW n, RingOf(b, n), ~b.empty, NEW d \in 0 .. Count(b) - 1
  PROVE  /\ RingOf(Evict(b, d), n) /\ ~Evict(b, d).empty
         /\ Evict(b, d).data = b.data /\ Evict(b, d).dend = b.dend
         /\ Count(Evict(b, d)) = Count(b) - d
         /\ \A k \in 0 .. Count(b) - d - 1 : Entry(Evict(b, d), k) = Entry(b, d + k)
<1> DEFINE e == Evict(b, d)
<1>1. /\ Cardinality(Slots(b)) = n /\ n \in Nat \ {0} /\ Count(b) \in 1 .. n
      /\ b.mdstart \in 0 .. n - 1 /\ b.mdend \in 0 .. n - 1 /\ d \in 0 .. n - 1
  <2>1. /\ Cardinality(Slots(b)) = n /\ n \in Nat \ {0} /\ Count(b) \in 1 .. n
        /\ b.mdstart \in 0 .. n - 1 /\ b.mdend \in 0 .. n - 1
    BY CountIs DEF RingOf
  <2>. QED BY <2>1
<1>2. CASE d = 0
  <2>1. e = b
    BY <1>2 DEF Evict, RingOf
  <2>. QED BY <1>1, <1>2, <2>1
<1>3. CASE d # 0
  <2>1. e = [b EXCEPT !.mdstart = Around(b, b.mdstart + d)]
    BY <1>3 DEF Evict
  <2>2. Around(b, b.mdstart + d) = IF b.mdstart + d < n THEN b.mdstart + d ELSE b.mdstart + d - n
    <3>1. b.mdstart + d \in Int /\ 0 <= b.mdstart + d /\ b.mdstart + d < 2 * n
      BY <1>1
    <3>. QED BY <1>1, <3>1, AroundIs
  <2>3. Around(b, b.mdstart + d) \in 0 .. n - 1
    BY <1>1, <2>2
  <2>4. RingOf(e, n) /\ ~e.empty /\ e.data = b.data /\ e.dend = b.dend
        /\ e.mdend = b.mdend /\ e.md = b.md /\ e.mdstart = Around(b, b.mdstart + d)
    BY <2>1, <2>3 DEF RingOf
  <2> HIDE DEF e
  <2>5. Count(e) = Count(b) - d
    BY <1>1, <2>2, <2>4, CountIs
  <2>6. ASSUME NEW k \in 0 .. Count(b) - d - 1
        PROVE  Entry(e, k) = Entry(b, d + k)
    <3>1. k \in 0 .. n - 1 /\ d + k \in 0 .. n - 1
      BY <1>1
    <3>. QED BY <1>1, <2>2, <2>4, <3>1, CountIs
  <2>. QED BY <2>4, <2>5, <2>6 DEF e
<1>. QED BY <1>2, <1>3

\* The bytes are copied after those that are in use.
LEMMA Copies ==
  ASSUME NEW b, NEW n, RingOf(b, n), NEW ch \in Seq(Bytes), Len(ch) < Capacity,
         ConsoleStreamingAssumption
  PROVE  /\ RingOf(Copy(b, ch), n)
         /\ Copy(b, ch).md = b.md /\ Copy(b, ch).mdstart = b.mdstart
         /\ Copy(b, ch).mdend = b.mdend /\ Copy(b, ch).empty = b.empty
         /\ Copy(b, ch).dend = (b.dend + Len(ch)) % Capacity
         /\ \A i \in 0 .. Capacity - 1 :
              Copy(b, ch).data[i] = IF (i - b.dend) % Capacity < Len(ch)
                                    THEN ch[((i - b.dend) % Capacity) + 1] ELSE b.data[i]
<1> DEFINE data == [i \in 0 .. Capacity - 1 |->
                      LET j == (i - b.dend) % Capacity IN
                      IF j < Len(ch) THEN ch[j + 1] ELSE b.data[i]]
           dend == (b.dend + Len(ch)) % Capacity
<1>0. Capacity \in Nat \ {0} /\ Len(ch) \in Nat /\ b.dend \in 0 .. Capacity - 1
  BY DEF ConsoleStreamingAssumption, RingOf
<1>1. dend \in 0 .. Capacity - 1
  <2>1. b.dend + Len(ch) \in Int
    BY <1>0
  <2>. QED BY <1>0, <2>1, Within
<1>2. ASSUME NEW i \in 0 .. Capacity - 1
      PROVE  (i - b.dend) % Capacity \in 0 .. Capacity - 1
  <2>1. i - b.dend \in Int
    BY <1>0
  <2>. QED BY <1>0, <2>1, Within
<1>3. data \in [0 .. Capacity - 1 -> Bytes]
  <2>1. ASSUME NEW i \in 0 .. Capacity - 1
        PROVE  (IF (i - b.dend) % Capacity < Len(ch)
                THEN ch[((i - b.dend) % Capacity) + 1] ELSE b.data[i]) \in Bytes
    <3>1. b.data[i] \in Bytes
      BY DEF RingOf
    <3>2. (i - b.dend) % Capacity \in 0 .. Capacity - 1
      BY <1>2
    <3> DEFINE j == (i - b.dend) % Capacity
    <3> HIDE DEF j
    <3>3. j \in 0 .. Capacity - 1 /\ (j < Len(ch) => ch[j + 1] \in Bytes)
      BY <1>0, <3>2 DEF j
    <3>. QED BY <3>1, <3>3 DEF j
  <2>. QED BY <2>1
<1>4. Copy(b, ch) = [b EXCEPT !.dend = dend, !.data = data]
  BY DEF Copy, RingOf
<1> HIDE DEF data, dend
<1>5. RingOf(Copy(b, ch), n)
  BY <1>1, <1>3, <1>4 DEF RingOf
<1>6. /\ Copy(b, ch).md = b.md /\ Copy(b, ch).mdstart = b.mdstart
      /\ Copy(b, ch).mdend = b.mdend /\ Copy(b, ch).empty = b.empty
      /\ Copy(b, ch).dend = dend /\ Copy(b, ch).data = data
  BY <1>4 DEF RingOf
<1>. QED BY <1>5, <1>6 DEF data, dend

\* The arrays grow, and hold what they held.
LEMMA Grows ==
  ASSUME NEW b, NEW n, RingOf(b, n), ~b.empty
  PROVE  \E m \in Nat :
         /\ RingOf(Grow(b), m) /\ ~Grow(b).empty
         /\ Grow(b).data = b.data /\ Grow(b).dend = b.dend
         /\ Count(Grow(b)) = Count(b)
         /\ \A k \in 0 .. Count(b) - 1 : Entry(Grow(b), k) = Entry(b, k)
<1> DEFINE g == Grow(b)
           m == (3 * n + 1) \div 2
           md == [i \in 0 .. m - 1 |-> IF i < n THEN Entry(b, i) ELSE [mark |-> i, pointer |-> i]]
<1>1. /\ Cardinality(Slots(b)) = n /\ n \in Nat \ {0} /\ Count(b) \in 1 .. n
      /\ b.mdstart \in 0 .. n - 1 /\ b.mdend \in 0 .. n - 1
  BY CountIs DEF RingOf
<1>2. CASE Used(b) # n
  <2>1. g = b
    BY <1>1, <1>2 DEF Grow
  <2>. QED BY <1>1, <2>1
<1>3. CASE Used(b) = n
  <2>1. g = [b EXCEPT !.md = md, !.mdstart = 0, !.mdend = n - 1]
    BY <1>1, <1>3 DEF Grow
  <2>2. m \in Nat /\ m > n
    BY <1>1
  <2>3. b.mdstart = 0 /\ b.mdend = n - 1
    BY <1>1, <1>3 DEF Used
  <2> HIDE DEF m
  <2>4. \A i \in 0 .. n - 1 : Entry(b, i) = b.md[i] /\ Entry(b, i) \in Marks
    <3>1. ASSUME NEW i \in 0 .. n - 1
          PROVE  Entry(b, i) = b.md[i]
      BY <1>1, <2>3, CountIs
    <3>. QED BY <3>1 DEF RingOf
  <2>5. md \in [0 .. m - 1 -> Marks]
    BY <1>1, <2>2, <2>4 DEF Marks
  <2>6. \A i \in 0 .. n - 1 : md[i] = Entry(b, i)
    BY <1>1, <2>2
  <2> HIDE DEF md
  <2>7. /\ RingOf(g, m) /\ ~g.empty /\ g.data = b.data /\ g.dend = b.dend
        /\ g.md = md /\ g.mdstart = 0 /\ g.mdend = n - 1
    <3>1. m \in Nat \ {0} /\ 0 \in 0 .. m - 1 /\ n - 1 \in 0 .. m - 1
      BY <1>1, <2>2
    <3>. QED BY <2>1, <2>5, <3>1 DEF RingOf
  <2> HIDE DEF g
  <2>8. Count(b) = n /\ Count(g) = n
    BY <1>1, <2>2, <2>3, <2>7, CountIs
  <2>9. ASSUME NEW k \in 0 .. n - 1
        PROVE  Entry(g, k) = Entry(b, k)
    <3>1. k \in 0 .. m - 1
      BY <1>1, <2>2
    <3>2. Entry(g, k) = md[k]
      BY <1>1, <2>2, <2>7, <3>1, CountIs
    <3>. QED BY <2>6, <3>2
  <2>. QED BY <2>2, <2>7, <2>8, <2>9 DEF g
<1>. QED BY <1>2, <1>3

\* A chunk is noted after the others, or, in a full ring that has wrapped, alone.
LEMMA Notes ==
  ASSUME NEW b, NEW n, RingOf(b, n), ~b.empty, NEW e \in Marks
  PROVE  /\ RingOf(Note(b, e), n) /\ ~Note(b, e).empty
         /\ Note(b, e).data = b.data /\ Note(b, e).dend = b.dend
         /\ \/ /\ Count(Note(b, e)) = Count(b) + 1
               /\ \A k \in 0 .. Count(b) - 1 : Entry(Note(b, e), k) = Entry(b, k)
               /\ Entry(Note(b, e), Count(b)) = e
            \/ Count(Note(b, e)) = 1 /\ Entry(Note(b, e), 0) = e
<1> DEFINE o == Note(b, e)
           i == Around(b, b.mdend + 1)
<1>1. /\ Cardinality(Slots(b)) = n /\ n \in Nat \ {0} /\ Count(b) \in 1 .. n
      /\ b.mdstart \in 0 .. n - 1 /\ b.mdend \in 0 .. n - 1
  BY CountIs DEF RingOf
<1>2. i = IF b.mdend + 1 < n THEN b.mdend + 1 ELSE 0
  <2>1. b.mdend + 1 \in Int /\ 0 <= b.mdend + 1 /\ b.mdend + 1 < 2 * n
    BY <1>1
  <2>. QED BY <1>1, <2>1, AroundIs
<1>3. i \in 0 .. n - 1
  BY <1>1, <1>2
<1>4. o = [b EXCEPT !.md[i] = e, !.mdend = i, !.mdstart = b.mdstart, !.empty = FALSE]
  BY DEF Note
<1> HIDE DEF i
<1>5. /\ RingOf(o, n) /\ ~o.empty /\ o.data = b.data /\ o.dend = b.dend
      /\ o.md = [b.md EXCEPT ![i] = e] /\ o.mdend = i /\ o.mdstart = b.mdstart
  <2>1. [b.md EXCEPT ![i] = e] \in [0 .. n - 1 -> Marks]
    BY <1>3 DEF RingOf
  <2>2. o = [b EXCEPT !.md = [b.md EXCEPT ![i] = e], !.mdend = i, !.mdstart = b.mdstart,
                      !.empty = FALSE]
    BY <1>4 DEF RingOf
  <2>. QED BY <1>1, <1>3, <2>1, <2>2 DEF RingOf
<1>6. /\ o.md[i] = e
      /\ \A j \in 0 .. n - 1 : j # i => o.md[j] = b.md[j]
  BY <1>3, <1>5 DEF RingOf
<1> HIDE DEF o
<1>7. CASE Count(b) = n
  <2>1. i = b.mdstart
    BY <1>1, <1>2, <1>7, CountIs
  <2>2. Count(o) = 1
    BY <1>1, <1>5, <2>1, CountIs
  <2>3. Entry(o, 0) = o.md[o.mdstart]
    <3>1. o.mdstart + 0 = o.mdstart /\ o.mdstart < n /\ 0 \in 0 .. n - 1
      BY <1>1, <1>5
    <3>2. Entry(o, 0) = o.md[IF o.mdstart + 0 < n THEN o.mdstart + 0 ELSE o.mdstart + 0 - n]
      BY <1>5, <3>1, CountIs
    <3>. QED BY <3>1, <3>2
  <2>. QED BY <1>5, <1>6, <2>1, <2>2, <2>3 DEF o
<1>8. CASE Count(b) < n
  <2>1. Count(o) = Count(b) + 1
    BY <1>1, <1>2, <1>5, <1>8, CountIs
  <2> DEFINE at(k) == IF b.mdstart + k < n THEN b.mdstart + k ELSE b.mdstart + k - n
  <2>2. ASSUME NEW k \in 0 .. n - 1
        PROVE  Entry(o, k) = o.md[at(k)] /\ Entry(b, k) = b.md[at(k)]
    <3>1. Entry(o, k) = o.md[IF o.mdstart + k < n THEN o.mdstart + k ELSE o.mdstart + k - n]
      BY ZenonT(40), <1>5, CountIs
    <3>2. Entry(b, k) = b.md[at(k)]
      BY CountIs
    <3>. QED BY <1>5, <3>1, <3>2
  <2>3. at(Count(b)) = i /\ Count(b) \in 0 .. n - 1
    BY <1>1, <1>2, <1>8, CountIs
  <2>4. \A k \in 0 .. Count(b) - 1 : at(k) \in 0 .. n - 1 /\ at(k) # i
    BY <1>1, <1>2, <1>8, CountIs
  <2> HIDE DEF at
  <2>5. Entry(o, Count(b)) = e
    BY <1>6, <2>2, <2>3
  <2>6. ASSUME NEW k \in 0 .. Count(b) - 1
        PROVE  Entry(o, k) = Entry(b, k)
    <3>1. k \in 0 .. n - 1
      BY <1>1
    <3>. QED BY <1>6, <2>2, <2>4, <3>1
  <2>. QED BY <1>5, <2>1, <2>5, <2>6 DEF o
<1>. QED BY <1>1, <1>7, <1>8

-----------------------------------------------------------------------------
(* append_chunk.                                                           *)

\* The least of some numbers is one of them.
LEMMA MinIn ==
  ASSUME NEW S \in SUBSET Nat, S # {}
  PROVE  Min(S) \in S /\ \A x \in S : Min(S) <= x
<1>1. IsWellFoundedOn(OpToRel(<, Nat), Nat)
  BY NatLessThanWellFounded
<1>2. PICK t \in S : \A u \in S : ~(<<u, t>> \in OpToRel(<, Nat))
  BY <1>1, WFMin
<1>3. \A u \in S : ~(u < t)
  BY <1>2 DEF OpToRel
<1>4. t \in Nat /\ \A u \in S : u \in Nat
  BY <1>2
<1>5. \A u \in S : t <= u
  BY <1>3, <1>4
<1>. QED BY <1>2, <1>5 DEF Min

\* A place before the end is as much farther from it as the end has moved.
LEMMA Farther ==
  ASSUME NEW n \in Nat \ {0}, NEW d \in 0 .. n - 1, NEW p \in 0 .. n - 1, NEW l \in 0 .. n - 1,
         ((d - p) % n) + l < n
  PROVE  (((d + l) % n) - p) % n = ((d - p) % n) + l
<1>1. (d - p) % n = IF d < p THEN d - p + n ELSE d - p
  OBVIOUS
<1>2. (d + l) % n = IF d + l < n THEN d + l ELSE d + l - n
  OBVIOUS
<1> DEFINE e == IF d + l < n THEN d + l ELSE d + l - n
<1>3. e \in 0 .. n - 1
  OBVIOUS
<1> HIDE DEF e
<1>5. (e - p) % n = IF e - p < 0 THEN e - p + n ELSE e - p
  BY <1>3
<1>6. (IF e - p < 0 THEN e - p + n ELSE e - p) = (IF d < p THEN d - p + n ELSE d - p) + l
  BY <1>1 DEF e
<1>. QED BY <1>1, <1>2, <1>5, <1>6 DEF e

\* The jth place before the new end is that much after the old end, or before it.
LEMMA BeforeEnd ==
  ASSUME NEW n \in Nat \ {0}, NEW d \in 0 .. n - 1, NEW l \in 0 .. n - 1, NEW j \in 1 .. n - 1,
         NEW e, e = (d + l) % n, NEW i, i = (e - j) % n, NEW y, y = j - l
  PROVE  /\ i \in 0 .. n - 1
         /\ j <= l => (i - d) % n = l - j
         /\ j > l => (i - d) % n = n - y /\ i = (d - y) % n
<1>2. e = IF d + l < n THEN d + l ELSE d + l - n
  OBVIOUS
<1>3. e \in 0 .. n - 1
  BY <1>2
<1>4. i = IF e - j < 0 THEN e - j + n ELSE e - j
  <2>1. (e - j) % n = IF e - j < 0 THEN e - j + n ELSE e - j
    BY <1>3
  <2>. QED BY <2>1
<1>5. i \in 0 .. n - 1
  BY <1>3, <1>4
<1>6. (i - d) % n = IF i - d < 0 THEN i - d + n ELSE i - d
  BY <1>5
<1>7. CASE j <= l
  BY <1>2, <1>4, <1>5, <1>6, <1>7
<1>8. CASE j > l
  <2>1. (d - (j - l)) % n = IF d - (j - l) < 0 THEN d - (j - l) + n ELSE d - (j - l)
    BY <1>8
  <2>2. i = IF d - (j - l) < 0 THEN d - (j - l) + n ELSE d - (j - l)
    BY <1>2, <1>4, <1>8
  <2>. QED BY <1>5, <1>6, <1>8, <2>1, <2>2
<1>. QED BY <1>5, <1>7, <1>8

\* A chunk is as long as it should be, and each of its bytes says which it is.
LEMMA ChunkIs ==
  ASSUME NEW m \in Nat, NEW l \in Nat
  PROVE  /\ Chunk(m, l) \in Seq(Bytes) /\ Len(Chunk(m, l)) = l
         /\ \A j \in 1 .. l : Chunk(m, l)[j] = <<m, j>>
BY DEF Chunk, Bytes

\* Which chunks are left, and what is noted about them.
Kept(b, c, new) ==
  /\ Count(c) \in 1 .. Count(b) + 1
  /\ \A k \in 0 .. Count(c) - 2 : Entry(c, k) = Entry(b, Count(b) + 1 - Count(c) + k)
  /\ Entry(c, Count(c) - 1) = new

\* The metadata after append_chunk.
LEMMA Keeps ==
  ASSUME ConsoleStreamingAssumption, NEW b, Ring(b), ~b.empty, NEW w, NEW s, Holds(b, s, w),
         NEW l \in Nat, 0 < l, 2 * l < Capacity
  PROVE  LET c == AppendChunk(b, l)
             d == MakesSpace(b, l)
         IN  /\ NewMark(b) = w + 1
             /\ d \in 0 .. Count(b) - 1 /\ Size(b, d) + l < Capacity
             /\ Ring(c) /\ ~c.empty
             /\ Count(c) <= Count(b) - d + 1
             /\ Kept(b, c, [mark |-> w + 1, pointer |-> b.dend])
             /\ c.dend = (b.dend + l) % Capacity
             /\ \A i \in 0 .. Capacity - 1 :
                  c.data[i] = IF (i - b.dend) % Capacity < l
                              THEN Chunk(w + 1, l)[((i - b.dend) % Capacity) + 1] ELSE b.data[i]
<1> DEFINE n == Cardinality(Slots(b))
           d == MakesSpace(b, l)
           ch == Chunk(w + 1, l)
           new == [mark |-> w + 1, pointer |-> b.dend]
           b1 == Evict(b, d)
           b2 == Copy(b1, ch)
           b3 == Grow(b2)
           c == AppendChunk(b, l)
<1>1. RingOf(b, n)
  BY DEF Ring
<1>2. /\ n \in Nat \ {0} /\ Count(b) \in 1 .. n /\ b.dend \in 0 .. Capacity - 1
      /\ b.mdend \in 0 .. n - 1 /\ b.mdstart \in 0 .. n - 1
  BY <1>1, CountIs DEF RingOf
<1>3. Capacity \in Nat \ {0}
  BY DEF ConsoleStreamingAssumption
<1>4. w \in Nat
  BY DEF Holds
<1>5. NewMark(b) = w + 1
  <2>1. Entry(b, Count(b) - 1) = b.md[b.mdend]
    <3> DEFINE k == Count(b) - 1
    <3>1. k = IF b.mdstart <= b.mdend THEN b.mdend - b.mdstart ELSE b.mdend - b.mdstart + n
      BY <1>1, <1>2, CountIs
    <3>2. k \in 0 .. n - 1
      BY <1>2
    <3> HIDE DEF k
    <3>3. b.mdend = IF b.mdstart + k < n THEN b.mdstart + k ELSE b.mdstart + k - n
      BY <1>2, <3>1
    <3>4. Entry(b, k) = b.md[b.mdend]
      BY <1>1, <3>2, <3>3, CountIs
    <3>. QED BY <3>4 DEF k
  <2>2. Entry(b, Count(b) - 1).mark = w
    <3>1. Count(b) - 1 \in 0 .. Count(b) - 1 /\ w - Count(b) + 1 + (Count(b) - 1) = w
      BY <1>2, <1>4
    <3>. QED BY <3>1 DEF Holds
  <2>. QED BY <2>1, <2>2 DEF NewMark
<1>6. d \in 0 .. Count(b) - 1 /\ Size(b, d) + l < Capacity
  <2> DEFINE S == {k \in 0 .. Count(b) - 1 : Capacity - Size(b, k) > l}
  <2>1. Count(b) - 1 \in S
    <3>1. 2 * Size(b, Count(b) - 1) < Capacity /\ Size(b, Count(b) - 1) \in 1 .. Capacity - 1
      BY <1>2 DEF Holds
    <3>. QED BY SMTT(30), <1>2, <1>3, <3>1
  <2>2. S \in SUBSET Nat
    OBVIOUS
  <2>3. d = Min(S)
    BY DEF MakesSpace
  <2> HIDE DEF d
  <2>4. d \in S
    BY <2>1, <2>2, <2>3, MinIn
  <2>5. Size(b, d) \in 1 .. Capacity - 1
    BY <2>4 DEF Holds
  <2>. QED BY <1>3, <2>4, <2>5
<1>7. ch \in Seq(Bytes) /\ Len(ch) = l /\ l < Capacity
  <2>1. w + 1 \in Nat /\ l < Capacity
    BY <1>3, <1>4
  <2>2. ch \in Seq(Bytes) /\ Len(ch) = l
    BY <2>1, ChunkIs
  <2>. QED BY <2>1, <2>2
<1>8. new \in Marks
  BY <1>2, <1>3, <1>4 DEF Marks
<1>9. c = Note(b3, new)
  BY <1>5 DEF AppendChunk
<1> HIDE DEF d, ch, new, n
<1>10. /\ RingOf(b1, n) /\ ~b1.empty /\ b1.data = b.data /\ b1.dend = b.dend
       /\ Count(b1) = Count(b) - d
       /\ \A k \in 0 .. Count(b) - d - 1 : Entry(b1, k) = Entry(b, d + k)
  BY <1>1, <1>6, Evicts
<1> HIDE DEF b1
<1>11. /\ RingOf(b2, n) /\ ~b2.empty
       /\ b2.md = b1.md /\ b2.mdstart = b1.mdstart /\ b2.mdend = b1.mdend
       /\ b2.dend = (b.dend + l) % Capacity
       /\ \A i \in 0 .. Capacity - 1 :
            b2.data[i] = IF (i - b.dend) % Capacity < l
                         THEN ch[((i - b.dend) % Capacity) + 1] ELSE b.data[i]
  <2>1. Len(ch) < Capacity
    BY <1>7
  <2>2. /\ RingOf(b2, n)
        /\ b2.md = b1.md /\ b2.mdstart = b1.mdstart /\ b2.mdend = b1.mdend /\ b2.empty = b1.empty
        /\ b2.dend = (b1.dend + Len(ch)) % Capacity
        /\ \A i \in 0 .. Capacity - 1 :
             b2.data[i] = IF (i - b1.dend) % Capacity < Len(ch)
                          THEN ch[((i - b1.dend) % Capacity) + 1] ELSE b1.data[i]
    BY <1>7, <1>10, <2>1, Copies
  <2> HIDE DEF b2
  <2>. QED BY <1>7, <1>10, <2>2
<1> HIDE DEF b2
<1>12. /\ Count(b2) = Count(b1)
       /\ \A k : Entry(b2, k) = Entry(b1, k)
  BY <1>10, <1>11 DEF Count, Entry, Around, Slots
<1>13. PICK m \in Nat :
         /\ RingOf(b3, m) /\ ~b3.empty /\ b3.data = b2.data /\ b3.dend = b2.dend
         /\ Count(b3) = Count(b2)
         /\ \A k \in 0 .. Count(b2) - 1 : Entry(b3, k) = Entry(b2, k)
  BY <1>11, Grows
<1> HIDE DEF b3
<1>14. /\ RingOf(c, m) /\ ~c.empty /\ c.data = b3.data /\ c.dend = b3.dend
       /\ \/ /\ Count(c) = Count(b3) + 1
             /\ \A k \in 0 .. Count(b3) - 1 : Entry(c, k) = Entry(b3, k)
             /\ Entry(c, Count(b3)) = new
          \/ Count(c) = 1 /\ Entry(c, 0) = new
  BY <1>8, <1>9, <1>13, Notes
<1> HIDE DEF c
<1>15. Ring(c)
  BY <1>14, CountIs DEF Ring
<1>16. Count(c) <= Count(b) - d + 1 /\ Kept(b, c, new)
  <2>1. CASE Count(c) = 1 /\ Entry(c, 0) = new
    BY <1>2, <1>6, <2>1 DEF Kept
  <2>2. CASE /\ Count(c) = Count(b3) + 1
             /\ \A k \in 0 .. Count(b3) - 1 : Entry(c, k) = Entry(b3, k)
             /\ Entry(c, Count(b3)) = new
    <3>1. Count(c) = Count(b) - d + 1 /\ Count(b3) = Count(b) - d
      BY <1>10, <1>12, <1>13, <2>2
    <3>2. ASSUME NEW k \in 0 .. Count(c) - 2
          PROVE  Entry(c, k) = Entry(b, Count(b) + 1 - Count(c) + k)
      <4>1. k \in 0 .. Count(b) - d - 1 /\ Count(b) + 1 - Count(c) + k = d + k
        BY SMTT(30), <1>2, <1>6, <3>1
      <4>. QED BY <1>10, <1>12, <1>13, <2>2, <3>1, <4>1
    <3>3. Count(c) - 1 = Count(b3) /\ Count(c) \in 1 .. Count(b) + 1
      BY SMTT(30), <1>2, <1>6, <3>1
    <3>. QED BY <1>2, <1>6, <2>2, <3>1, <3>2, <3>3 DEF Kept
  <2>. QED BY <1>14, <2>1, <2>2
<1>17. /\ c.dend = (b.dend + l) % Capacity
       /\ \A i \in 0 .. Capacity - 1 :
            c.data[i] = IF (i - b.dend) % Capacity < l
                        THEN ch[((i - b.dend) % Capacity) + 1] ELSE b.data[i]
  BY <1>11, <1>13, <1>14
<1>. QED BY <1>5, <1>6, <1>14, <1>15, <1>16, <1>17 DEF c, d, ch, new

\* Where the bytes are when output goes on.
LEMMA ConcatIs ==
  ASSUME NEW s \in Seq(Bytes), NEW t \in Seq(Bytes)
  PROVE  /\ s \o t \in Seq(Bytes) /\ Len(s \o t) = Len(s) + Len(t)
         /\ \A i \in 1 .. Len(s) : (s \o t)[i] = s[i]
         /\ \A i \in 1 .. Len(t) : (s \o t)[Len(s) + i] = t[i]
OBVIOUS

\* What append_chunk leaves in the buffer is the end of the longer output.
LEMMA Appends ==
  ASSUME ConsoleStreamingAssumption, NEW b, Ring(b), ~b.empty, NEW w, NEW s, Holds(b, s, w),
         NEW l \in Nat, 0 < l, 2 * l < Capacity
  PROVE  /\ NewMark(b) = w + 1
         /\ Ring(AppendChunk(b, l))
         /\ Holds(AppendChunk(b, l), s \o Chunk(w + 1, l), w + 1)
<1> DEFINE d == MakesSpace(b, l)
           ch == Chunk(w + 1, l)
           t == s \o ch
           new == [mark |-> w + 1, pointer |-> b.dend]
           c == AppendChunk(b, l)
           off == Count(b) + 1 - Count(c)
<1>1. /\ NewMark(b) = w + 1
      /\ d \in 0 .. Count(b) - 1 /\ Size(b, d) + l < Capacity
      /\ Ring(c) /\ ~c.empty
      /\ Count(c) <= Count(b) - d + 1
      /\ Kept(b, c, new)
      /\ c.dend = (b.dend + l) % Capacity
      /\ \A i \in 0 .. Capacity - 1 :
           c.data[i] = IF (i - b.dend) % Capacity < l
                       THEN ch[((i - b.dend) % Capacity) + 1] ELSE b.data[i]
  BY ZenonT(40), Keeps
<1>2. /\ Capacity \in Nat \ {0} /\ l \in 0 .. Capacity - 1
      /\ b.dend \in 0 .. Capacity - 1 /\ Count(b) \in Nat /\ Count(b) >= 1
  <2>1. Count(b) \in 1 .. Cardinality(Slots(b)) /\ Cardinality(Slots(b)) \in Nat
    BY CountIs DEF Ring, RingOf
  <2>2. Capacity \in Nat \ {0}
    BY DEF ConsoleStreamingAssumption
  <2>3. b.dend \in 0 .. Capacity - 1
    BY DEF Ring, RingOf
  <2>. QED BY <2>1, <2>2, <2>3
<1>3. w \in Nat /\ s \in Seq(Bytes) /\ Count(b) <= w
  BY DEF Holds
<1>4. ch \in Seq(Bytes) /\ Len(ch) = l /\ \A j \in 1 .. l : ch[j] = <<w + 1, j>>
  <2>1. w + 1 \in Nat
    BY <1>3
  <2>. QED BY <1>2, <2>1, ChunkIs
<1>5. /\ t \in Seq(Bytes) /\ Len(t) = Len(s) + l
      /\ \A i \in 1 .. Len(s) : t[i] = s[i]
      /\ \A i \in 1 .. l : t[Len(s) + i] = ch[i]
  BY ZenonT(40), <1>3, <1>4, ConcatIs
<1> HIDE DEF d, ch, t, c
<1>6. /\ Count(c) \in 1 .. Count(b) + 1
      /\ \A k \in 0 .. Count(c) - 2 : Entry(c, k) = Entry(b, off + k)
      /\ Entry(c, Count(c) - 1) = new
  BY <1>1 DEF Kept
<1>7. off \in Nat /\ d <= off
  <2>1. d \in 0 .. Count(b) - 1 /\ Count(c) <= Count(b) - d + 1 /\ Count(c) \in 1 .. Count(b) + 1
    BY <1>1, <1>6
  <2>. QED BY <1>2, <2>1
<1>8. ASSUME NEW k \in 0 .. Count(c) - 2
      PROVE  off + k \in 0 .. Count(b) - 1 /\ d <= off + k
  <2>1. d \in 0 .. Count(b) - 1 /\ Count(c) <= Count(b) - d + 1 /\ Count(c) \in 1 .. Count(b) + 1
    BY <1>1, <1>6
  <2>. QED BY SMTT(30), <1>2, <2>1
<1> HIDE DEF off
<1>9. ASSUME NEW k \in 0 .. Count(c) - 2
      PROVE  /\ Size(c, k) = Size(b, off + k) + l
             /\ Size(b, off + k) \in 1 .. Capacity - 1
             /\ Size(b, off + k) + l < Capacity
  <2>1. off + k \in 0 .. Count(b) - 1 /\ d <= off + k
    BY <1>8
  <2>2. Size(b, off + k) <= Size(b, d) /\ Size(b, off + k) \in 1 .. Capacity - 1
        /\ Entry(b, off + k).pointer \in 0 .. Capacity - 1 /\ Size(b, d) \in 1 .. Capacity - 1
    BY <1>1, <2>1 DEF Holds
  <2>3. Size(b, off + k) + l < Capacity
    BY SMTT(30), <1>1, <1>2, <2>2
  <2> DEFINE p == Entry(b, off + k).pointer
  <2>4. Size(c, k) = (((b.dend + l) % Capacity) - p) % Capacity
    BY <1>1, <1>6 DEF Size
  <2>5. Size(b, off + k) = (b.dend - p) % Capacity
    BY DEF Size
  <2>6. p \in 0 .. Capacity - 1 /\ ((b.dend - p) % Capacity) + l < Capacity
    BY <2>2, <2>3, <2>5
  <2> HIDE DEF p
  <2>7. (((b.dend + l) % Capacity) - p) % Capacity = ((b.dend - p) % Capacity) + l
    BY <1>2, <2>6, Farther
  <2>. QED BY <2>2, <2>3, <2>4, <2>5, <2>7
<1>10. Size(c, Count(c) - 1) = l
  <2>1. Size(c, Count(c) - 1) = (((b.dend + l) % Capacity) - b.dend) % Capacity
    BY <1>1, <1>6 DEF Size
  <2>2. (b.dend - b.dend) % Capacity = 0
    BY <1>2
  <2>3. ((b.dend - b.dend) % Capacity) + l < Capacity
    BY <1>2, <2>2
  <2>. QED BY <1>2, <2>1, <2>2, <2>3, Farther
<1>11. ASSUME NEW k \in 0 .. Count(c) - 1
       PROVE  /\ Entry(c, k).mark = (w + 1) - Count(c) + 1 + k
              /\ Entry(c, k).pointer \in 0 .. Capacity - 1
              /\ Size(c, k) \in 1 .. Capacity - 1
              /\ Size(c, k) <= Len(t)
              /\ t[Len(t) - Size(c, k) + 1] = <<Entry(c, k).mark, 1>>
  <2>1. CASE k = Count(c) - 1
    <3>1. Entry(c, k).mark = w + 1 /\ Entry(c, k).pointer = b.dend /\ Size(c, k) = l
      BY <1>6, <1>10, <2>1
    <3>2. Entry(c, k).mark = (w + 1) - Count(c) + 1 + k
      BY <1>2, <1>3, <1>6, <2>1, <3>1
    <3>3. Len(t) - l + 1 = Len(s) + 1 /\ l <= Len(t)
      BY <1>3, <1>5
    <3>4. t[Len(s) + 1] = <<w + 1, 1>>
      BY <1>4, <1>5
    <3>5. l \in 1 .. Capacity - 1
      BY <1>2
    <3>. QED BY <1>2, <3>1, <3>2, <3>3, <3>4, <3>5
  <2>2. CASE k # Count(c) - 1
    <3>1. k \in 0 .. Count(c) - 2
      BY <1>6, <2>2
    <3>2. off + k \in 0 .. Count(b) - 1
      BY <1>8, <3>1
    <3>3. /\ Entry(b, off + k).mark = w - Count(b) + 1 + (off + k)
          /\ Entry(b, off + k).pointer \in 0 .. Capacity - 1
          /\ Size(b, off + k) <= Len(s)
          /\ s[Len(s) - Size(b, off + k) + 1] = <<Entry(b, off + k).mark, 1>>
      BY <3>2 DEF Holds
    <3>4. /\ Size(c, k) = Size(b, off + k) + l /\ Size(b, off + k) \in 1 .. Capacity - 1
          /\ Size(b, off + k) + l < Capacity
      BY <1>9, <3>1
    <3>5. Entry(c, k) = Entry(b, off + k)
      BY <1>6, <3>1
    <3>6. w - Count(b) + 1 + (off + k) = (w + 1) - Count(c) + 1 + k
      BY SMTT(30), <1>2, <1>3, <1>6 DEF off
    <3> DEFINE z == Size(b, off + k)
               y == Size(c, k)
    <3>10. /\ z \in 1 .. Capacity - 1 /\ z <= Len(s) /\ y = z + l /\ z + l < Capacity
           /\ Len(s) \in Nat /\ Len(t) = Len(s) + l
      BY <1>3, <1>5, <3>3, <3>4
    <3>7. /\ Len(t) - Size(c, k) + 1 = Len(s) - Size(b, off + k) + 1
          /\ Len(s) - Size(b, off + k) + 1 \in 1 .. Len(s)
      <4> HIDE DEF z, y
      <4>1. Len(t) - y + 1 = Len(s) - z + 1 /\ Len(s) - z + 1 \in 1 .. Len(s)
        BY <1>2, <3>10
      <4>. QED BY <4>1 DEF z, y
    <3>8. t[Len(t) - Size(c, k) + 1] = <<Entry(c, k).mark, 1>>
      BY <1>5, <3>3, <3>5, <3>7
    <3>9. Size(c, k) \in 1 .. Capacity - 1 /\ Size(c, k) <= Len(t)
      <4> HIDE DEF z, y
      <4>1. y \in 1 .. Capacity - 1 /\ y <= Len(t)
        BY <1>2, <3>10
      <4>. QED BY <4>1 DEF z, y
    <3>. QED BY <3>3, <3>5, <3>6, <3>8, <3>9
  <2>. QED BY <2>1, <2>2
<1>12. Count(c) <= w + 1
  BY <1>2, <1>3, <1>6
<1>13. ASSUME NEW i \in 0 .. Count(c) - 1, NEW k \in 0 .. Count(c) - 1, i <= k
       PROVE  Size(c, k) <= Size(c, i)
  <2>1. CASE i = Count(c) - 1
    BY <1>6, <1>11, <1>13, <2>1
  <2>2. CASE i # Count(c) - 1 /\ k = Count(c) - 1
    <3>1. i \in 0 .. Count(c) - 2
      BY <1>6, <2>2
    <3>2. Size(c, i) = Size(b, off + i) + l /\ Size(b, off + i) \in 1 .. Capacity - 1
      BY <1>9, <3>1
    <3>. QED BY <1>2, <1>10, <2>2, <3>2
  <2>3. CASE i # Count(c) - 1 /\ k # Count(c) - 1
    <3>1. i \in 0 .. Count(c) - 2 /\ k \in 0 .. Count(c) - 2
      BY <1>6, <2>3
    <3>2. off + i \in 0 .. Count(b) - 1 /\ off + k \in 0 .. Count(b) - 1 /\ off + i <= off + k
      BY <1>7, <1>8, <1>13, <3>1
    <3>3. Size(b, off + k) <= Size(b, off + i)
      BY <3>2 DEF Holds
    <3>4. /\ Size(c, i) = Size(b, off + i) + l /\ Size(b, off + i) \in 1 .. Capacity - 1
          /\ Size(c, k) = Size(b, off + k) + l /\ Size(b, off + k) \in 1 .. Capacity - 1
      BY <1>9, <3>1
    <3>. QED BY <1>2, <3>3, <3>4
  <2>. QED BY <2>1, <2>2, <2>3
<1>14. ASSUME NEW j \in 1 .. Size(c, 0)
       PROVE  c.data[(c.dend - j) % Capacity] = t[Len(t) + 1 - j]
  <2> DEFINE i == (c.dend - j) % Capacity
  <2>1. Size(c, 0) \in 1 .. Capacity - 1
    BY <1>6, <1>11
  <2>2. j \in 1 .. Capacity - 1
    BY <1>2, <2>1
  <2>3. i = (c.dend - j) % Capacity /\ c.dend = (b.dend + l) % Capacity
    BY <1>1
  <2> HIDE DEF i
  <2> DEFINE y == j - l
  <2>0. y = j - l
    OBVIOUS
  <2> HIDE DEF y
  <2>4. /\ i \in 0 .. Capacity - 1
        /\ j <= l => (i - b.dend) % Capacity = l - j
        /\ j > l => (i - b.dend) % Capacity = Capacity - y /\ i = (b.dend - y) % Capacity
    BY SMTT(30), <1>2, <2>0, <2>2, <2>3, BeforeEnd
  <2>5. CASE j <= l
    <3>1. (i - b.dend) % Capacity = l - j /\ l - j < l /\ l - j + 1 \in 1 .. l
      BY <1>2, <2>4, <2>5
    <3>2. c.data[i] = ch[l - j + 1]
      BY <1>1, <2>4, <3>1
    <3>3. Len(t) + 1 - j = Len(s) + (l - j + 1)
      BY <1>2, <1>3, <1>5
    <3>. QED BY <1>5, <3>1, <3>2, <3>3 DEF i
  <2>6. CASE j > l
    <3>1. Count(c) # 1
      BY <1>2, <1>10, <2>6
    <3>2. 0 \in 0 .. Count(c) - 2
      BY <1>6, <3>1
    <3>3. Size(c, 0) = Size(b, off) + l /\ Size(b, off) + l < Capacity
      <4>1. off + 0 = off
        BY <1>7
      <4>. QED BY <1>9, <3>2, <4>1
    <3>4. off \in 0 .. Count(b) - 1 /\ 0 \in 0 .. Count(b) - 1
      <4>1. off + 0 = off
        BY <1>7
      <4>. QED BY <1>2, <1>8, <3>2, <4>1
    <3>5. Size(b, off) <= Size(b, 0) /\ Size(b, off) \in 1 .. Capacity - 1
          /\ Size(b, 0) \in 1 .. Capacity - 1 /\ Size(b, 0) <= Len(s)
      BY <1>7, <3>4 DEF Holds
    <3>6. y \in 1 .. Size(b, 0)
      BY <1>2, <2>0, <2>6, <3>3, <3>5
    <3>7. b.data[(b.dend - y) % Capacity] = s[Len(s) + 1 - y]
      BY <3>6 DEF Holds
    <3>8. ~((i - b.dend) % Capacity < l)
      BY <1>2, <2>0, <2>2, <2>4, <2>6, <3>3, <3>5
    <3>9. c.data[i] = b.data[i]
      BY <1>1, <2>4, <3>8
    <3>10. Len(t) + 1 - j = Len(s) + 1 - y /\ Len(s) + 1 - y \in 1 .. Len(s)
      <4> DEFINE z == Size(b, 0)
      <4>1. /\ y \in 1 .. z /\ z \in 1 .. Capacity - 1 /\ z <= Len(s) /\ Len(s) \in Nat
            /\ Len(t) = Len(s) + l
        BY <1>3, <1>5, <3>5, <3>6
      <4> HIDE DEF z
      <4>. QED BY <1>2, <2>0, <4>1
    <3>. QED BY <1>5, <2>4, <2>6, <3>7, <3>9, <3>10 DEF i
  <2>. QED BY <1>2, <2>2, <2>5, <2>6
<1>15. Holds(c, t, w + 1)
  BY SMTT(30), <1>1, <1>3, <1>5, <1>10, <1>11, <1>12, <1>13, <1>14 DEF Holds
<1>. QED BY <1>1, <1>15 DEF c, t, ch

\* The first chunk.
LEMMA AppendsFirst ==
  ASSUME ConsoleStreamingAssumption, NEW b, Ring(b), b.empty, NEW w, NEW s, Holds(b, s, w),
         NEW l \in Nat, 0 < l, 2 * l < Capacity
  PROVE  /\ NewMark(b) = w + 1
         /\ Ring(AppendChunk(b, l))
         /\ Holds(AppendChunk(b, l), s \o Chunk(w + 1, l), w + 1)
<1> DEFINE n == Cardinality(Slots(b))
           ch == Chunk(1, l)
           t == s \o ch
           new == [mark |-> 1, pointer |-> b.dend]
           b2 == Copy(b, ch)
           c == AppendChunk(b, l)
<1>1. /\ RingOf(b, n) /\ n \in Nat \ {0} /\ b.dend \in 0 .. Capacity - 1
      /\ Capacity \in Nat \ {0}
  BY DEF Ring, RingOf, ConsoleStreamingAssumption
<1>2. NewMark(b) = 1 /\ w = 0 /\ w \in Nat /\ s \in Seq(Bytes)
  BY DEF NewMark, Holds
<1>3. ch \in Seq(Bytes) /\ Len(ch) = l /\ (\A j \in 1 .. l : ch[j] = <<1, j>>) /\ l < Capacity
  <2>1. 1 \in Nat /\ l < Capacity
    BY <1>1
  <2>. QED BY <2>1, ChunkIs
<1>4. /\ t \in Seq(Bytes) /\ Len(t) = Len(s) + l
      /\ \A i \in 1 .. l : t[Len(s) + i] = ch[i]
  <2> HIDE DEF ch
  <2>. QED BY <1>2, <1>3, ConcatIs
<1>5. Evict(b, MakesSpace(b, l)) = b
  BY DEF Evict, MakesSpace, Ring, RingOf
<1>6. /\ RingOf(b2, n) /\ b2.md = b.md /\ b2.empty
      /\ b2.dend = (b.dend + l) % Capacity
      /\ \A i \in 0 .. Capacity - 1 :
           b2.data[i] = IF (i - b.dend) % Capacity < l
                        THEN ch[((i - b.dend) % Capacity) + 1] ELSE b.data[i]
  <2> HIDE DEF ch, n
  <2>. QED BY <1>1, <1>3, Copies
<1>7. Grow(b2) = b2
  <2> HIDE DEF b2
  <2>1. Cardinality(Slots(b2)) = n
    BY <1>6, CountIs
  <2>2. Used(b2) = 0
    BY <1>6 DEF Used
  <2>. QED BY <1>1, <2>1, <2>2 DEF Grow
<1>8. c = Note(b2, new)
  BY <1>2, <1>5, <1>7 DEF AppendChunk
<1> HIDE DEF b2, n
<1>9. c = [b2 EXCEPT !.md[0] = new, !.mdend = 0, !.mdstart = 0, !.empty = FALSE]
  <2> HIDE DEF new, c
  <2>. QED BY <1>6, <1>8 DEF Note
<1>10. /\ RingOf(c, n) /\ ~c.empty /\ c.data = b2.data /\ c.dend = b2.dend
       /\ c.md[0] = new /\ c.mdend = 0 /\ c.mdstart = 0
  <2>1. new \in Marks
    BY <1>1 DEF Marks
  <2> HIDE DEF new, c
  <2>2. 0 \in 0 .. n - 1
    BY <1>1
  <2>3. [b2.md EXCEPT ![0] = new] \in [0 .. n - 1 -> Marks] /\ [b2.md EXCEPT ![0] = new][0] = new
    BY <1>6, <2>1, <2>2 DEF RingOf
  <2>4. c = [b2 EXCEPT !.md = [b2.md EXCEPT ![0] = new], !.mdend = 0, !.mdstart = 0,
                       !.empty = FALSE]
    BY <1>6, <1>9 DEF RingOf
  <2>. QED BY <1>6, <2>2, <2>3, <2>4 DEF RingOf
<1> HIDE DEF c
<1>11. Ring(c)
  BY <1>10, CountIs DEF Ring
<1>12. Count(c) = 1 /\ Entry(c, 0) = new
  <2>1. 0 \in 0 .. n - 1 /\ 0 + 0 < n
    BY <1>1
  <2>2. Count(c) = 1
    BY <1>1, <1>10, CountIs
  <2>3. Entry(c, 0) = c.md[IF c.mdstart + 0 < n THEN c.mdstart + 0 ELSE c.mdstart + 0 - n]
    BY <1>10, <2>1, CountIs
  <2>. QED BY <1>10, <2>1, <2>2, <2>3
<1>13. Size(c, 0) = l
  <2>1. Size(c, 0) = (((b.dend + l) % Capacity) - b.dend) % Capacity
    BY <1>6, <1>10, <1>12 DEF Size
  <2>2. (b.dend - b.dend) % Capacity = 0
    BY <1>1
  <2>3. ((b.dend - b.dend) % Capacity) + l < Capacity /\ l \in 0 .. Capacity - 1
    BY <1>1, <2>2
  <2>. QED BY <1>1, <2>1, <2>2, <2>3, Farther
<1>14. ASSUME NEW j \in 1 .. l
       PROVE  c.data[(c.dend - j) % Capacity] = t[Len(t) + 1 - j]
  <2> DEFINE i == (c.dend - j) % Capacity
  <2>1. j \in 1 .. Capacity - 1 /\ l \in 0 .. Capacity - 1
    BY <1>1
  <2>2. i = (c.dend - j) % Capacity /\ c.dend = (b.dend + l) % Capacity
    BY <1>6, <1>10
  <2> HIDE DEF i
  <2> DEFINE y == j - l
  <2>7. y = j - l
    OBVIOUS
  <2> HIDE DEF y
  <2>3. i \in 0 .. Capacity - 1 /\ (i - b.dend) % Capacity = l - j
    BY <1>1, <2>1, <2>2, <2>7, BeforeEnd
  <2>4. l - j < l /\ l - j + 1 \in 1 .. l
    BY <1>1
  <2>5. c.data[i] = ch[l - j + 1]
    BY <1>6, <1>10, <2>3, <2>4
  <2>6. Len(t) + 1 - j = Len(s) + (l - j + 1)
    BY <1>2, <1>4
  <2>. QED BY <1>4, <2>4, <2>5, <2>6 DEF i
<1>15. t[Len(t) - l + 1] = <<1, 1>> /\ l <= Len(t)
  <2>1. Len(t) - l + 1 = Len(s) + 1 /\ 1 \in 1 .. l /\ l <= Len(t)
    <3>1. Len(s) \in Nat /\ Len(t) = Len(s) + l
      BY <1>2, <1>4
    <3> HIDE DEF t
    <3>. QED BY <3>1
  <2>. QED BY <1>3, <1>4, <2>1
<1>16. Holds(c, t, 1)
  <2> HIDE DEF t, ch
  <2>1. \A k \in 0 .. Count(c) - 1 : k = 0
    BY <1>12
  <2>2. Entry(c, 0).mark = 1 /\ Entry(c, 0).pointer = b.dend /\ l \in 1 .. Capacity - 1
    BY <1>1, <1>12
  <2>3. 1 = 1 - Count(c) + 1 + 0 /\ Count(c) - 1 = 0 /\ Count(c) <= 1 /\ l <= l
    BY <1>12
  <2>4. \A k \in 0 .. Count(c) - 1 :
            /\ Entry(c, k).mark = 1 - Count(c) + 1 + k
            /\ Entry(c, k).pointer \in 0 .. Capacity - 1
            /\ Size(c, k) \in 1 .. Capacity - 1
            /\ Size(c, k) <= Len(t)
            /\ t[Len(t) - Size(c, k) + 1] = <<Entry(c, k).mark, 1>>
    BY <1>1, <1>13, <1>15, <2>1, <2>2, <2>3
  <2>5. /\ \A i, k \in 0 .. Count(c) - 1 : i <= k => Size(c, k) <= Size(c, i)
        /\ 2 * Size(c, Count(c) - 1) < Capacity
    BY <1>13, <2>1, <2>3
  <2>6. \A j \in 1 .. Size(c, 0) : c.data[(c.dend - j) % Capacity] = t[Len(t) + 1 - j]
    BY <1>13, <1>14
  <2>. QED BY <1>4, <1>10, <2>3, <2>4, <2>5, <2>6 DEF Holds
<1>17. w + 1 = 1
  BY <1>2
<1>. QED BY <1>2, <1>11, <1>16, <1>17 DEF c, t, ch

-----------------------------------------------------------------------------
(* Suffixes.                                                               *)

\* Byte for byte from the end.
LEMMA SuffixByBytes ==
  ASSUME NEW s \in Seq(Bytes), NEW t \in Seq(Bytes)
  PROVE  IsSuffix(s, t) <=> /\ Len(s) <= Len(t)
                            /\ \A j \in 1 .. Len(s) : s[Len(s) + 1 - j] = t[Len(t) + 1 - j]
<1> DEFINE r == Reverse(s)
           u == Reverse(t)
<1>1. /\ r \in Seq(Bytes) /\ Len(r) = Len(s) /\ u \in Seq(Bytes) /\ Len(u) = Len(t)
      /\ \A j \in 1 .. Len(s) : r[j] = s[Len(s) + 1 - j]
      /\ \A j \in 1 .. Len(t) : u[j] = t[Len(t) + 1 - j]
  BY DEF Reverse
<1> HIDE DEF r, u
<1>2. IsSuffix(s, t) <=> Len(r) <= Len(u) /\ SubSeq(r, 1, Len(r)) = SubSeq(u, 1, Len(r))
  BY DEF IsSuffix, IsPrefix, r, u
<1>3. ASSUME Len(r) <= Len(u)
      PROVE  /\ SubSeq(r, 1, Len(r)) \in Seq(Bytes) /\ Len(SubSeq(r, 1, Len(r))) = Len(r)
             /\ SubSeq(u, 1, Len(r)) \in Seq(Bytes) /\ Len(SubSeq(u, 1, Len(r))) = Len(r)
             /\ \A j \in 1 .. Len(r) : SubSeq(r, 1, Len(r))[j] = r[j]
             /\ \A j \in 1 .. Len(r) : SubSeq(u, 1, Len(r))[j] = u[j]
  BY <1>1, <1>3
<1>4. Len(r) <= Len(u) => (SubSeq(r, 1, Len(r)) = SubSeq(u, 1, Len(r))
                             <=> \A j \in 1 .. Len(r) : r[j] = u[j])
  BY <1>3
<1>5. Len(s) <= Len(t) => \A j \in 1 .. Len(s) : j \in 1 .. Len(t)
  OBVIOUS
<1>. QED BY <1>1, <1>2, <1>4, <1>5

\* Nothing is the end of anything.
LEMMA EmptyIsSuffix ==
  ASSUME NEW t \in Seq(Bytes)
  PROVE  IsSuffix(<<>>, t)
<1>1. <<>> \in Seq(Bytes) /\ Len(<<>>) = 0 /\ Len(t) \in Nat
  OBVIOUS
<1>2. Len(<<>>) <= Len(t) /\ \A j \in 1 .. Len(<<>>) : FALSE
  BY <1>1
<1>. QED BY <1>1, <1>2, SuffixByBytes

\* The same is appended to both.
LEMMA SuffixConcat ==
  ASSUME NEW s \in Seq(Bytes), NEW t \in Seq(Bytes), NEW x \in Seq(Bytes), IsSuffix(s, t)
  PROVE  IsSuffix(s \o x, t \o x)
<1>1. /\ Len(s) <= Len(t)
      /\ \A j \in 1 .. Len(s) : s[Len(s) + 1 - j] = t[Len(t) + 1 - j]
  BY SuffixByBytes
<1>2. /\ s \o x \in Seq(Bytes) /\ Len(s \o x) = Len(s) + Len(x)
      /\ \A i \in 1 .. Len(s) : (s \o x)[i] = s[i]
      /\ \A i \in 1 .. Len(x) : (s \o x)[Len(s) + i] = x[i]
  BY ConcatIs
<1>3. /\ t \o x \in Seq(Bytes) /\ Len(t \o x) = Len(t) + Len(x)
      /\ \A i \in 1 .. Len(t) : (t \o x)[i] = t[i]
      /\ \A i \in 1 .. Len(x) : (t \o x)[Len(t) + i] = x[i]
  BY ConcatIs
<1> DEFINE a == s \o x
           b == t \o x
<1> HIDE DEF a, b
<1>4. Len(s) \in Nat /\ Len(t) \in Nat /\ Len(x) \in Nat
  OBVIOUS
<1>5. ASSUME NEW j \in 1 .. Len(a)
      PROVE  a[Len(a) + 1 - j] = b[Len(b) + 1 - j]
  <2>1. CASE j <= Len(x)
    <3>1. /\ Len(a) + 1 - j = Len(s) + (Len(x) + 1 - j)
          /\ Len(b) + 1 - j = Len(t) + (Len(x) + 1 - j)
          /\ Len(x) + 1 - j \in 1 .. Len(x)
      BY <1>2, <1>3, <1>4, <2>1 DEF a, b
    <3>. QED BY <1>2, <1>3, <3>1 DEF a, b
  <2>2. CASE j > Len(x)
    <3> DEFINE k == j - Len(x)
    <3>1. /\ Len(a) + 1 - j = Len(s) + 1 - k /\ Len(b) + 1 - j = Len(t) + 1 - k
          /\ k \in 1 .. Len(s) /\ Len(s) + 1 - k \in 1 .. Len(s) /\ Len(t) + 1 - k \in 1 .. Len(t)
      BY <1>1, <1>2, <1>3, <1>4, <2>2 DEF a, b
    <3> HIDE DEF k
    <3>. QED BY SMTT(30), <1>1, <1>2, <1>3, <3>1 DEF a, b
  <2>. QED BY <1>2, <1>4, <2>1, <2>2 DEF a
<1>6. Len(a) <= Len(b)
  BY <1>1, <1>2, <1>3, <1>4 DEF a, b
<1>. QED BY <1>2, <1>3, <1>5, <1>6, SuffixByBytes DEF a, b

\* What was appended is the end.
LEMMA ConcatSuffix ==
  ASSUME NEW t \in Seq(Bytes), NEW x \in Seq(Bytes)
  PROVE  IsSuffix(x, t \o x)
<1>1. IsSuffix(<<>> \o x, t \o x)
  <2>1. <<>> \in Seq(Bytes)
    OBVIOUS
  <2>. QED BY <2>1, EmptyIsSuffix, SuffixConcat
<1>2. <<>> \o x = x
  OBVIOUS
<1>. QED BY <1>1, <1>2

-----------------------------------------------------------------------------
(* get_chunks.                                                             *)

\* The ith of z places from p to the end d is at x, and y before the end.
Between(n, d, p, z, i, y, x) ==
  /\ n \in Nat \ {0} /\ d \in 0 .. n - 1 /\ p \in 0 .. n - 1 /\ z = (d - p) % n
  /\ i \in 1 .. z /\ y = z + 1 - i /\ x = p + i - 1

\* From the start of a chunk forwards is from the end backwards.
LEMMA FromStart ==
  ASSUME NEW n, NEW d, NEW p, NEW z, NEW i, NEW y, NEW x, Between(n, d, p, z, i, y, x)
  PROVE  /\ x % n = (d - y) % n
         /\ x % n \in 0 .. n - 1
         /\ y \in 1 .. z
<1> USE DEF Between
<1>1. z = IF d < p THEN d - p + n ELSE d - p
  OBVIOUS
<1>2. i - 1 \in 0 .. n - 1 /\ i - 1 < z
  BY <1>1
<1>3. x % n = IF p + i - 1 < n THEN p + i - 1 ELSE p + i - 1 - n
  BY <1>1, <1>2
<1>4. (d - y) % n = IF d - y < 0 THEN d - y + n ELSE d - y
  BY <1>1, <1>2
<1>5. y \in 1 .. z
  BY <1>1
<1>6. (IF p + i - 1 < n THEN p + i - 1 ELSE p + i - 1 - n)
        = (IF d - y < 0 THEN d - y + n ELSE d - y)
  BY <1>1, <1>2
<1>7. (IF p + i - 1 < n THEN p + i - 1 ELSE p + i - 1 - n) \in 0 .. n - 1
  BY <1>1, <1>2
<1>. QED BY <1>3, <1>4, <1>5, <1>6, <1>7

\* What is read is the end of the output, from the start of the chunk on.
LEMMA Reads ==
  ASSUME ConsoleStreamingAssumption, NEW b, Ring(b), ~b.empty, NEW w, NEW s, Holds(b, s, w),
         NEW k \in 0 .. Count(b) - 1
  PROVE  /\ ChunksFrom(b, k).mdata \in Places
         /\ ChunksFrom(b, k).data \in Seq(Bytes)
         /\ IsSuffix(ChunksFrom(b, k).data, s)
         /\ ChunksFrom(b, k).data # <<>>
         /\ ChunksFrom(b, k).data[1] = <<Entry(b, k).mark, 1>>
         /\ Len(ChunksFrom(b, k).mdata) \in Nat /\ Len(ChunksFrom(b, k).mdata) >= 1
         /\ ChunksFrom(b, k).mdata[1][1] = Entry(b, k).mark
         /\ ChunksFrom(b, k).mdata[Len(ChunksFrom(b, k).mdata)][1] = w
         /\ Entry(b, k).mark \in 1 .. w
<1> DEFINE p == Entry(b, k).pointer
           z == Size(b, k)
           d == [i \in 1 .. z |-> b.data[(p + i - 1) % Capacity]]
           l == Count(b) - k
           q == [i \in 1 .. l |->
                  <<Entry(b, k + i - 1).mark, (Entry(b, k + i - 1).pointer - p) % Capacity>>]
<1>1. ChunksFrom(b, k) = [mdata |-> q, data |-> d]
  BY DEF ChunksFrom, Size
<1>2. /\ Capacity \in Nat \ {0} /\ b.dend \in 0 .. Capacity - 1
      /\ b.data \in [0 .. Capacity - 1 -> Bytes] /\ Count(b) \in Nat /\ Count(b) >= 1
  <2>1. Count(b) \in 1 .. Cardinality(Slots(b)) /\ Cardinality(Slots(b)) \in Nat
    BY CountIs DEF Ring, RingOf
  <2>2. Capacity \in Nat \ {0}
    BY DEF ConsoleStreamingAssumption
  <2>3. b.dend \in 0 .. Capacity - 1 /\ b.data \in [0 .. Capacity - 1 -> Bytes]
    BY DEF Ring, RingOf
  <2>. QED BY <2>1, <2>2, <2>3
<1>3. /\ w \in Nat /\ s \in Seq(Bytes) /\ Count(b) <= w
      /\ \A i \in 0 .. Count(b) - 1 : /\ Entry(b, i).mark = w - Count(b) + 1 + i
                                      /\ Entry(b, i).pointer \in 0 .. Capacity - 1
      /\ p \in 0 .. Capacity - 1 /\ z \in 1 .. Capacity - 1 /\ z <= Len(s)
      /\ s[Len(s) - z + 1] = <<Entry(b, k).mark, 1>>
  BY DEF Holds
<1>4. z <= Size(b, 0) /\ \A j \in 1 .. Size(b, 0) :
                            b.data[(b.dend - j) % Capacity] = s[Len(s) + 1 - j]
  <2>1. 0 \in 0 .. Count(b) - 1 /\ 0 <= k
    BY <1>2
  <2>. QED BY <2>1 DEF Holds
<1>5. Size(b, 0) \in 1 .. Capacity - 1
  <2>1. 0 \in 0 .. Count(b) - 1
    BY <1>2
  <2>. QED BY <2>1 DEF Holds
<1>6. z = (b.dend - p) % Capacity
  BY DEF Size
<1> HIDE DEF p, z
<1>7. ASSUME NEW i \in 1 .. z
      PROVE  /\ (p + i - 1) % Capacity \in 0 .. Capacity - 1
             /\ b.data[(p + i - 1) % Capacity] = s[Len(s) + 1 - (z + 1 - i)]
  <2> DEFINE y == z + 1 - i
  <2>1. y = z + 1 - i
    OBVIOUS
  <2> HIDE DEF y
  <2>2. /\ (p + i - 1) % Capacity = (b.dend - y) % Capacity
        /\ (p + i - 1) % Capacity \in 0 .. Capacity - 1
        /\ y \in 1 .. z
    <3> DEFINE x == p + i - 1
    <3>1. Between(Capacity, b.dend, p, z, i, y, x)
      BY <1>2, <1>3, <1>6, <2>1 DEF Between
    <3> HIDE DEF x
    <3>3. /\ x % Capacity = (b.dend - y) % Capacity
          /\ x % Capacity \in 0 .. Capacity - 1
          /\ y \in 1 .. z
      BY <3>1, FromStart
    <3>. QED BY <3>3 DEF x
  <2>3. y \in 1 .. Size(b, 0)
    BY <1>3, <1>4, <1>5, <2>2
  <2>. QED BY <1>4, <2>2, <2>3 DEF y
<1>8. d \in Seq(Bytes) /\ Len(d) = z /\ \A i \in 1 .. z : d[i] = s[Len(s) + 1 - (z + 1 - i)]
  <2>1. z \in Nat
    BY <1>3
  <2>2. \A i \in 1 .. z : b.data[(p + i - 1) % Capacity] \in Bytes
    BY <1>2, <1>7
  <2>3. d \in [1 .. z -> Bytes]
    BY <2>2
  <2>4. \A i \in 1 .. z : d[i] = s[Len(s) + 1 - (z + 1 - i)]
    BY <1>7
  <2> HIDE DEF d
  <2>. QED BY <2>1, <2>3, <2>4
<1> HIDE DEF d
<1>9. IsSuffix(d, s)
  <2>1. ASSUME NEW j \in 1 .. z
        PROVE  d[z + 1 - j] = s[Len(s) + 1 - j]
    <3>1. z + 1 - j \in 1 .. z /\ z + 1 - (z + 1 - j) = j
      BY <1>3
    <3>. QED BY <1>8, <3>1
  <2>. QED BY <1>3, <1>8, <2>1, SuffixByBytes
<1>10. d # <<>> /\ d[1] = <<Entry(b, k).mark, 1>>
  <2>1. 1 \in 1 .. z /\ Len(s) + 1 - (z + 1 - 1) = Len(s) - z + 1
    BY <1>3
  <2>. QED BY <1>3, <1>8, <2>1
<1>11. l \in Nat /\ l >= 1 /\ \A i \in 1 .. l : k + i - 1 \in 0 .. Count(b) - 1
  BY <1>2
<1>12. q \in Places /\ Len(q) = l
  <2> DEFINE e(i) == <<Entry(b, k + i - 1).mark, (Entry(b, k + i - 1).pointer - p) % Capacity>>
  <2>1. ASSUME NEW i \in 1 .. l
        PROVE  e(i) \in Nat \X Nat
    <3> DEFINE o == Entry(b, k + i - 1).pointer
               m == k + i - 1
    <3>1. m \in 0 .. Count(b) - 1
      BY <1>11
    <3>2. o \in 0 .. Capacity - 1 /\ Entry(b, m).mark = w - Count(b) + 1 + m
      <4> HIDE DEF m
      <4>1. Entry(b, m).pointer \in 0 .. Capacity - 1 /\ Entry(b, m).mark = w - Count(b) + 1 + m
        BY <1>3, <3>1
      <4>. QED BY <4>1 DEF m
    <3> HIDE DEF o
    <3>3. o - p \in Int /\ Capacity \in Nat \ {0}
      BY <1>2, <1>3, <3>2
    <3>4. (o - p) % Capacity \in 0 .. Capacity - 1
      BY <3>3, Within
    <3>5. (o - p) % Capacity \in Nat
      BY <1>2, <3>4
    <3> HIDE DEF m
    <3>6. w - Count(b) + 1 + m \in Nat
      <4>1. w \in Nat /\ Count(b) \in Nat /\ Count(b) <= w /\ m \in 0 .. Count(b) - 1
        BY <1>2, <1>3, <3>1
      <4>. QED BY <4>1
    <3>. QED BY <3>2, <3>5, <3>6 DEF o, m
  <2>2. q = [i \in 1 .. l |-> e(i)] /\ l \in Nat
    BY <1>11
  <2> HIDE DEF l, e, q
  <2>. QED BY <2>1, <2>2 DEF Places
<1>13. q[1][1] = Entry(b, k).mark /\ q[l][1] = w
  <2>1. 1 \in 1 .. l /\ l \in 1 .. l /\ k + 1 - 1 = k /\ k + l - 1 = Count(b) - 1
    BY <1>2, <1>11
  <2>2. q[1][1] = Entry(b, k).mark /\ q[l][1] = Entry(b, Count(b) - 1).mark
    BY <2>1
  <2>3. Count(b) - 1 \in 0 .. Count(b) - 1 /\ w - Count(b) + 1 + (Count(b) - 1) = w
    BY SMTT(30), <1>2, <1>3
  <2>. QED BY <1>3, <2>2, <2>3
<1>14. Entry(b, k).mark \in 1 .. w
  BY SMTT(30), <1>2, <1>3
<1> HIDE DEF q, l
<1>. QED BY <1>1, <1>8, <1>9, <1>10, <1>11, <1>12, <1>13, <1>14

\* How much is read.
LEMMA ReadsAll ==
  ASSUME NEW b, NEW k, Size(b, k) \in Nat, Count(b) - k \in Nat
  PROVE  /\ Len(ChunksFrom(b, k).data) = Size(b, k)
         /\ Len(ChunksFrom(b, k).mdata) = Count(b) - k
<1> DEFINE p == Entry(b, k).pointer
           z == Size(b, k)
           l == Count(b) - k
           d == [i \in 1 .. z |-> b.data[(p + i - 1) % Capacity]]
           q == [i \in 1 .. l |->
                  <<Entry(b, k + i - 1).mark, (Entry(b, k + i - 1).pointer - p) % Capacity>>]
<1>1. ChunksFrom(b, k) = [mdata |-> q, data |-> d]
  BY DEF ChunksFrom, Size
<1>2. Len(d) = z
  <2> HIDE DEF z, p
  <2>1. z \in Nat
    BY DEF z
  <2>. QED BY <2>1
<1>3. Len(q) = l
  <2> HIDE DEF l, p
  <2>1. l \in Nat
    BY DEF l
  <2>. QED BY <2>1
<1> HIDE DEF d, q
<1>. QED BY <1>1, <1>2, <1>3

\* How far a place is after another that is farther from the end.
LEMMA Apart ==
  ASSUME NEW n \in Nat \ {0}, NEW d \in 0 .. n - 1, NEW p \in 0 .. n - 1, NEW q \in 0 .. n - 1,
         (d - q) % n <= (d - p) % n
  PROVE  (q - p) % n = ((d - p) % n) - ((d - q) % n)
<1>1. (d - p) % n = IF d < p THEN d - p + n ELSE d - p
  OBVIOUS
<1>2. (d - q) % n = IF d < q THEN d - q + n ELSE d - q
  OBVIOUS
<1>3. (q - p) % n = IF q < p THEN q - p + n ELSE q - p
  OBVIOUS
<1>4. (IF d < q THEN d - q + n ELSE d - q) <= (IF d < p THEN d - p + n ELSE d - p)
  BY <1>1, <1>2
<1>5. (IF q < p THEN q - p + n ELSE q - p)
        = (IF d < p THEN d - p + n ELSE d - p) - (IF d < q THEN d - q + n ELSE d - q)
  BY <1>4
<1>. QED BY <1>1, <1>2, <1>3, <1>5

Leads(q, t) == \A j \in 1 .. Len(q) : t[j] = q[j]

\* What is cut off the front of an end, and what there is before it.
LEMMA Rest ==
  ASSUME NEW t \in Seq(Bytes), NEW q \in Seq(Bytes), NEW d \in Seq(Bytes),
         NEW o \in 0 .. Len(d), IsSuffix(d, t), Len(q) = Len(t) - (Len(d) - o), Leads(q, t)
  PROVE  t = q \o SubSeq(d, o + 1, Len(d))
<1> DEFINE r == SubSeq(d, o + 1, Len(d))
<1>1. /\ Len(d) \in Nat /\ Len(t) \in Nat /\ Len(q) \in Nat /\ o \in Nat /\ o <= Len(d)
      /\ Len(d) <= Len(t)
      /\ \A j \in 1 .. Len(d) : d[Len(d) + 1 - j] = t[Len(t) + 1 - j]
  BY SuffixByBytes
<1>10. \A j \in 1 .. Len(q) : t[j] = q[j]
  BY DEF Leads
<1>2. /\ r \in Seq(Bytes) /\ Len(r) = Len(d) - o
      /\ \A i \in 1 .. Len(d) - o : r[i] = d[o + i]
  BY <1>1
<1> HIDE DEF r
<1>3. /\ q \o r \in Seq(Bytes) /\ Len(q \o r) = Len(q) + Len(r)
      /\ \A i \in 1 .. Len(q) : (q \o r)[i] = q[i]
      /\ \A i \in 1 .. Len(r) : (q \o r)[Len(q) + i] = r[i]
  BY <1>2, ConcatIs
<1>4. Len(q \o r) = Len(t)
  BY <1>1, <1>2, <1>3
<1>5. PICK a \in Nat, b \in Nat, e \in Nat : a = Len(q) /\ b = Len(t) /\ e = Len(d)
  BY <1>1
<1>6. /\ a = b - (e - o) /\ o <= e /\ e <= b /\ o \in Nat
      /\ Len(r) = e - o /\ Len(q \o r) = b
  BY <1>1, <1>2, <1>4, <1>5
<1>7. ASSUME NEW i \in 1 .. b
      PROVE  (q \o r)[i] = t[i]
  <2>1. CASE i <= a
    BY <1>3, <1>5, <1>10, <2>1
  <2>2. CASE i > a
    <3>1. i - a \in 1 .. e - o /\ a + (i - a) = i
      BY <1>6, <2>2
    <3>2. /\ e + 1 - (o + (i - a)) \in 1 .. e
          /\ e + 1 - (e + 1 - (o + (i - a))) = o + (i - a)
          /\ b + 1 - (e + 1 - (o + (i - a))) = i
      BY <1>6, <3>1
    <3>3. (q \o r)[a + (i - a)] = r[i - a] /\ r[i - a] = d[o + (i - a)]
      BY <1>2, <1>3, <1>5, <1>6, <3>1
    <3>4. d[o + (i - a)] = t[i]
      BY <1>1, <1>5, <3>2
    <3>. QED BY <3>1, <3>3, <3>4
  <2>3. i <= a \/ i > a
    OBVIOUS
  <2>. QED BY Zenon, <2>1, <2>2, <2>3
<1> DEFINE x == q \o r
<1> HIDE DEF x
<1>8. x \in Seq(Bytes) /\ Len(x) = b /\ \A i \in 1 .. b : x[i] = t[i]
  BY <1>3, <1>6, <1>7 DEF x
<1>9. x = t
  <2>1. Len(t) = b /\ t \in Seq(Bytes)
    BY <1>5
  <2>. QED BY SMTT(30), <1>8, <2>1
<1>. QED BY <1>9 DEF x, r

\* What a buffer that holds the end of the output promises.
LEMMA HeldIsTail ==
  ASSUME ConsoleStreamingAssumption, BufferOK
  PROVE  BufferHoldsTail
<1> SUFFICES ASSUME ~buffer.empty
             PROVE  /\ IsSuffix(Buffered, printed[written])
                    /\ \A k \in 0 .. Count(buffer) - 1 :
                         /\ Entry(buffer, k).mark = written - Count(buffer) + 1 + k
                         /\ IsPrefix(<<<<Entry(buffer, k).mark, 1>>>>, ChunksFrom(buffer, k).data)
  BY DEF BufferHoldsTail
<1>1. Ring(buffer) /\ Holds(buffer, printed[written], written)
  BY DEF BufferOK
<1>2. 0 \in 0 .. Count(buffer) - 1
  <2>1. Count(buffer) \in 1 .. Cardinality(Slots(buffer)) /\ Cardinality(Slots(buffer)) \in Nat
    BY <1>1, CountIs DEF Ring, RingOf
  <2>. QED BY <2>1
<1>3. IsSuffix(Buffered, printed[written])
  BY <1>1, <1>2, Reads DEF Buffered
<1>4. ASSUME NEW k \in 0 .. Count(buffer) - 1
      PROVE  /\ Entry(buffer, k).mark = written - Count(buffer) + 1 + k
             /\ IsPrefix(<<<<Entry(buffer, k).mark, 1>>>>, ChunksFrom(buffer, k).data)
  <2> DEFINE d == ChunksFrom(buffer, k).data
             e == <<Entry(buffer, k).mark, 1>>
  <2>1. d \in Seq(Bytes) /\ d # <<>> /\ d[1] = e
    BY <1>1, Reads
  <2>2. Entry(buffer, k).mark = written - Count(buffer) + 1 + k
    BY <1>1 DEF Holds
  <2> HIDE DEF d, e
  <2>3. Len(<<e>>) = 1 /\ 1 <= Len(d)
    BY <2>1
  <2>4. SubSeq(<<e>>, 1, 1) = <<e>> /\ SubSeq(d, 1, 1) = <<e>>
    <3>1. e \in Bytes /\ <<e>> \in Seq(Bytes)
      BY <2>1, <2>3
    <3>2. ASSUME NEW x \in Seq(Bytes), 1 <= Len(x), x[1] = e
          PROVE  SubSeq(x, 1, 1) = <<e>>
      <4>1. SubSeq(x, 1, 1) \in Seq(Bytes) /\ Len(SubSeq(x, 1, 1)) = 1 /\ SubSeq(x, 1, 1)[1] = e
        BY <3>2
      <4>2. SubSeq(x, 1, 1) = [j \in 1 .. 1 |-> e]
        BY <4>1
      <4>3. <<e>> = [j \in 1 .. 1 |-> e]
        BY <3>1
      <4>. QED BY <4>2, <4>3
    <3>3. <<e>>[1] = e /\ 1 <= Len(<<e>>)
      BY <2>3
    <3>. QED BY <2>1, <2>3, <3>1, <3>2, <3>3
  <2>5. IsPrefix(<<e>>, d)
    BY <2>1, <2>3, <2>4 DEF IsPrefix
  <2>. QED BY <2>2, <2>5 DEF d, e
<1>. QED BY <1>3, <1>4

-----------------------------------------------------------------------------
(* Messages.                                                               *)

\* Every output is of chunks that fit.
LEMMA LengthsFit ==
  ASSUME ConsoleStreamingAssumption, TypeOK
  PROVE  /\ written \in Nat /\ Len(output) \in Nat /\ written <= Len(output)
         /\ Len(output) < MaxMark /\ MaxMark \in Nat
         /\ written < Len(output) => /\ output[written + 1] \in Nat /\ 0 < output[written + 1]
                                     /\ 2 * output[written + 1] < Capacity
<1>1. output \in Seq(Lengths) /\ Len(output) < MaxMark /\ MaxMark \in Nat
  BY DEF ConsoleStreamingAssumption, TypeOK, Lengths
<1>2. Len(output) \in Nat /\ written \in 0 .. Len(output)
  BY <1>1 DEF TypeOK
<1>3. written < Len(output) => output[written + 1] \in Lengths
  <2>1. written < Len(output) => written + 1 \in 1 .. Len(output)
    BY <1>2
  <2>. QED BY <1>1, <2>1
<1>. QED BY <1>1, <1>2, <1>3 DEF Lengths

\* An update carries one chunk.
Update(m, l) == Message("update", [mdata |-> <<<<m, 0>>>>, data |-> Chunk(m, l)])

\* An update is about one chunk, the one just written.
LEMMA UpdateIs ==
  ASSUME NEW m \in Nat, NEW l \in Nat
  PROVE  /\ Update(m, l) \in DownMessages
         /\ Update(m, l).type = "update" /\ Update(m, l).data = Chunk(m, l)
         /\ Update(m, l).mdata # <<>> /\ Len(Update(m, l).mdata) = 1
         /\ First(Update(m, l)) = m /\ Newest(Update(m, l)) = m
         /\ Update(m, l).mdata[1] = <<m, 0>>
<1> DEFINE q == <<<<m, 0>>>>
<1>1. Update(m, l) = [type |-> "update", mdata |-> q, data |-> Chunk(m, l)]
  BY DEF Update, Message
<1>2. q \in Places /\ Len(q) = 1 /\ q # <<>> /\ q[1] = <<m, 0>> /\ q[1][1] = m
  BY DEF Places
<1>3. Chunk(m, l) \in Seq(Bytes)
  BY ChunkIs
<1> HIDE DEF q
<1>4. Update(m, l) \in DownMessages
  BY <1>1, <1>2, <1>3 DEF DownMessages
<1>5. /\ Update(m, l).type = "update" /\ Update(m, l).data = Chunk(m, l)
      /\ Update(m, l).mdata = q
  BY <1>1
<1>. QED BY <1>2, <1>4, <1>5 DEF First, Newest

\* What the process writes.
LEMMA Writes ==
  ASSUME ConsoleStreamingAssumption, TypeOK, BufferOK, Write
  PROVE  LET l == output[written + 1]
         IN  /\ l \in Nat /\ NewMark(buffer) = written + 1
             /\ written \in Nat /\ written' = written + 1 /\ written' \in 0 .. Len(output)
             /\ printed' \in [0 .. written' -> Seq(Bytes)]
             /\ \A m \in 0 .. written : printed'[m] = printed[m]
             /\ printed'[written'] = printed[written] \o Chunk(written + 1, l)
             /\ Ring(buffer') /\ Holds(buffer', printed'[written'], written')
<1> DEFINE l == output[written + 1]
           ch == Chunk(written + 1, l)
<1>1. /\ written \in Nat /\ written' = written + 1 /\ written < Len(output) /\ Len(output) \in Nat
      /\ l \in Nat /\ 0 < l /\ 2 * l < Capacity
  BY LengthsFit DEF Write
<1>2. Ring(buffer) /\ Holds(buffer, printed[written], written)
  BY DEF BufferOK
<1>3. buffer' = AppendChunk(buffer, l)
  BY DEF Write
<1>4. /\ printed \in [0 .. written -> Seq(Bytes)] /\ written \in 0 .. written
  BY <1>1 DEF TypeOK
<1>5. printed[written] \in Seq(Bytes)
  BY <1>4
<1>6. ch \in Seq(Bytes)
  <2>1. written + 1 \in Nat
    BY <1>1
  <2> HIDE DEF l
  <2>. QED BY <1>1, <2>1, ChunkIs
<1> HIDE DEF l
<1>7. /\ NewMark(buffer) = written + 1 /\ Ring(buffer')
      /\ Holds(buffer', printed[written] \o ch, written + 1)
  <2>1. CASE buffer.empty
    BY <1>1, <1>2, <1>3, <2>1, AppendsFirst
  <2>2. CASE ~buffer.empty
    BY <1>1, <1>2, <1>3, <2>2, Appends
  <2>. QED BY <2>1, <2>2
<1> DEFINE x(m) == IF m <= written THEN printed[m] ELSE printed[written] \o Chunk(m, output[m])
<1>8. printed' = [m \in 0 .. written + 1 |-> x(m)]
  BY DEF Write
<1>9. x(written + 1) = printed[written] \o ch
  <2>1. ~(written + 1 <= written)
    BY <1>1
  <2>. QED BY <2>1 DEF l
<1>10. \A m \in 0 .. written : x(m) = printed[m]
  BY <1>1
<1>11. \A m \in 0 .. written + 1 : m = written + 1 \/ m \in 0 .. written
  BY <1>1
<1> HIDE DEF x, ch
<1>12. printed[written] \o ch \in Seq(Bytes)
  BY <1>5, <1>6, ConcatIs
<1>13. printed' \in [0 .. written' -> Seq(Bytes)]
  <2>1. \A m \in 0 .. written + 1 : x(m) \in Seq(Bytes)
    BY <1>4, <1>9, <1>10, <1>11, <1>12
  <2>. QED BY <1>1, <1>8, <2>1
<1>14. /\ \A m \in 0 .. written : printed'[m] = printed[m]
       /\ printed'[written'] = printed[written] \o ch
  <2>1. written + 1 \in 0 .. written + 1 /\ \A m \in 0 .. written : m \in 0 .. written + 1
    BY <1>1
  <2>. QED BY <1>1, <1>8, <1>9, <1>10, <2>1
<1>15. written' \in 0 .. Len(output)
  BY <1>1
<1>. QED BY <1>1, <1>7, <1>13, <1>14, <1>15 DEF l, ch

\* Each chunk that is handed out begins where it says.
LEMMA Offsets ==
  ASSUME ConsoleStreamingAssumption, TypeOK, BufferOK, PrintedOK, ~buffer.empty,
         NEW k \in 0 .. Count(buffer) - 1, NEW i \in 1 .. Count(buffer) - k
  PROVE  LET c == ChunksFrom(buffer, k)
         IN  /\ c.mdata[i][1] = Entry(buffer, k).mark + i - 1 /\ c.mdata[i][1] \in 1 .. written
             /\ c.mdata[i][2] \in 0 .. Len(c.data)
             /\ printed[written]
                  = printed[c.mdata[i][1] - 1] \o SubSeq(c.data, c.mdata[i][2] + 1, Len(c.data))
<1> DEFINE t == printed[written]
           p == Entry(buffer, k).pointer
           a == k + i - 1
           m == Entry(buffer, a).mark
           x == Entry(buffer, a).pointer
           o == (x - p) % Capacity
           z == Size(buffer, k)
           y == Size(buffer, a)
           d == ChunksFrom(buffer, k).data
           mdata == ChunksFrom(buffer, k).mdata
<1>1. Ring(buffer) /\ Holds(buffer, t, written)
  BY DEF BufferOK
<1>2. /\ Count(buffer) \in Nat /\ Count(buffer) >= 1 /\ Capacity \in Nat \ {0}
      /\ buffer.dend \in 0 .. Capacity - 1
  <2>1. Count(buffer) \in 1 .. Cardinality(Slots(buffer)) /\ Cardinality(Slots(buffer)) \in Nat
    BY <1>1, CountIs DEF Ring, RingOf
  <2>. QED BY <1>1, <2>1 DEF Ring, RingOf, ConsoleStreamingAssumption
<1>3. a \in 0 .. Count(buffer) - 1 /\ k <= a /\ k \in Int /\ i \in Int
  BY <1>2
<1>4. mdata[i] = <<m, o>>
  BY DEF ChunksFrom
<1>5. /\ written \in Nat /\ t \in Seq(Bytes) /\ Count(buffer) <= written
      /\ Entry(buffer, k).mark = written - Count(buffer) + 1 + k
      /\ m = written - Count(buffer) + 1 + a
      /\ p \in 0 .. Capacity - 1 /\ x \in 0 .. Capacity - 1
      /\ z \in 1 .. Capacity - 1 /\ y \in 1 .. Capacity - 1 /\ y <= z /\ y <= Len(t)
      /\ t[Len(t) - y + 1] = <<m, 1>>
  <2> HIDE DEF a, t
  <2>. QED BY <1>1, <1>3 DEF Holds
<1>6. m = Entry(buffer, k).mark + i - 1 /\ m \in 1 .. written
  <2> HIDE DEF m
  <2>1. a = k + i - 1
    OBVIOUS
  <2> HIDE DEF a
  <2>2. PICK f \in Int : f = Entry(buffer, k).mark /\ f = written - Count(buffer) + 1 + k
    BY <1>2, <1>3, <1>5
  <2>3. /\ m = written - Count(buffer) + 1 + a /\ written \in Nat
        /\ Count(buffer) <= written
    BY <1>5
  <2>6. PICK n \in Nat : n = Count(buffer)
    BY <1>2
  <2>7. /\ m = written - n + 1 + a /\ f = written - n + 1 + k /\ n <= written
        /\ a \in 0 .. n - 1 /\ k \in Int /\ i \in Int
    BY <1>3, <2>2, <2>3, <2>6
  <2>4. m = f + i - 1
    BY <2>1, <2>3, <2>7
  <2>5. m \in 1 .. written
    BY <2>3, <2>7
  <2>. QED BY <2>2, <2>4, <2>5
<1>7. d \in Seq(Bytes) /\ IsSuffix(d, t) /\ Len(d) = z
  <2> HIDE DEF t, d, z
  <2>1. ChunksFrom(buffer, k).data \in Seq(Bytes) /\ IsSuffix(ChunksFrom(buffer, k).data, t)
    BY <1>1, Reads
  <2>2. Len(ChunksFrom(buffer, k).data) = Size(buffer, k)
    <3>1. Size(buffer, k) \in Nat
      BY <1>2, <1>5 DEF z
    <3>2. Count(buffer) - k \in Nat
      BY <1>2
    <3>. QED BY <3>1, <3>2, ReadsAll
  <2>. QED BY <2>1, <2>2 DEF d, z
<1>8. o = z - y
  <2>1. z = (buffer.dend - p) % Capacity /\ y = (buffer.dend - x) % Capacity
    BY DEF Size
  <2> HIDE DEF p, x, z, y
  <2>2. (x - p) % Capacity = ((buffer.dend - p) % Capacity) - ((buffer.dend - x) % Capacity)
    BY <1>2, <1>5, <2>1, Apart
  <2>. QED BY <2>1, <2>2
<1>9. printed[m - 1] \in Seq(Bytes)
  <2> HIDE DEF m
  <2>1. m \in 1 .. written /\ written \in Nat
    BY <1>5, <1>6
  <2>2. m - 1 \in 0 .. written
    BY <2>1
  <2>. QED BY <2>2 DEF TypeOK
<1>10. /\ Len(t) - y + 1 = Len(printed[m - 1]) + 1
       /\ \A j \in 1 .. Len(printed[m - 1]) : t[j] = printed[m - 1][j]
  <2>1. Laid(m)
    BY <1>6 DEF PrintedOK
  <2>2. Len(t) - y + 1 \in 1 .. Len(t)
    <3> HIDE DEF t, y
    <3>1. Len(t) \in Nat
      BY <1>5
    <3>. QED BY <1>5, <3>1
  <2> HIDE DEF m, y
  <2>. QED BY <1>5, <2>1, <2>2 DEF Laid
<1> HIDE DEF t, m, o, z, y, d, p, x, a, mdata
<1>11. o \in 0 .. Len(d)
  BY <1>5, <1>7, <1>8
<1>12. Len(printed[m - 1]) = Len(t) - (Len(d) - o)
  <2>1. PICK lt \in Nat : lt = Len(t)
    BY <1>5
  <2>2. PICK lp \in Nat : lp = Len(printed[m - 1])
    BY <1>9
  <2>3. lt - y + 1 = lp + 1 /\ y \in Nat /\ z \in Nat /\ o = z - y /\ Len(d) = z
    BY <1>2, <1>5, <1>7, <1>8, <1>10, <2>1, <2>2
  <2>4. lp = lt - (z - o)
    BY <2>3
  <2>. QED BY <1>7, <2>1, <2>2, <2>4
<1>13. t = printed[m - 1] \o SubSeq(d, o + 1, Len(d))
  <2>1. PICK q \in Seq(Bytes) : q = printed[m - 1]
    BY <1>9
  <2>2. \A j \in 1 .. Len(q) : t[j] = q[j]
    BY <1>10, <2>1
  <2>3. Len(q) = Len(t) - (Len(d) - o)
    BY <1>12, <2>1
  <2>4. t \in Seq(Bytes) /\ d \in Seq(Bytes) /\ IsSuffix(d, t)
    BY <1>5, <1>7
  <2>6. PICK u \in Seq(Bytes) : u = t
    BY <2>4
  <2>7. PICK e \in Seq(Bytes) : e = d
    BY <2>4
  <2>8. PICK n \in 0 .. Len(e) : n = o
    BY <1>11, <2>7
  <2>9. IsSuffix(e, u)
    BY <2>4, <2>6, <2>7
  <2>10. /\ Len(q) = Len(u) - (Len(e) - n)
         /\ Leads(q, u)
    BY <2>2, <2>3, <2>6, <2>7, <2>8 DEF Leads
  <2>11. u = q \o SubSeq(e, n + 1, Len(e))
    BY <2>9, <2>10, Rest
  <2>5. t = q \o SubSeq(d, o + 1, Len(d))
    BY <2>6, <2>7, <2>8, <2>11
  <2>. QED BY <2>1, <2>5
<1>14. mdata[i][1] = m /\ mdata[i][2] = o
  BY <1>4
<1>15. /\ mdata[i][1] = Entry(buffer, k).mark + i - 1 /\ mdata[i][1] \in 1 .. written
       /\ mdata[i][2] \in 0 .. Len(d)
       /\ t = printed[mdata[i][1] - 1] \o SubSeq(d, mdata[i][2] + 1, Len(d))
  BY <1>6, <1>11, <1>13, <1>14
<1>. QED BY <1>15 DEF mdata, d, t

\* What the streamer answers is what it has.
LEMMA Answers ==
  ASSUME ConsoleStreamingAssumption, TypeOK, BufferOK, PrintedOK, NEW mark \in Nat
  PROVE  LET m == Message("data", ChunksSince(buffer, mark))
         IN  /\ m \in DownMessages /\ m.type = "data" /\ Fits(m) /\ After(m) = written
<1> DEFINE m == Message("data", ChunksSince(buffer, mark))
<1>1. Ring(buffer) /\ Holds(buffer, printed[written], written)
  BY DEF BufferOK
<1>2. CASE buffer.empty
  <2>1. m = [type |-> "data", mdata |-> <<>>, data |-> <<>>] /\ written = 0
    BY <1>1, <1>2 DEF Message, ChunksSince, Holds
  <2>2. <<>> \in Places /\ <<>> \in Seq(Bytes)
    BY DEF Places
  <2> HIDE DEF m
  <2>3. m \in DownMessages
    BY <2>1, <2>2 DEF DownMessages
  <2>4. m.type = "data" /\ m.mdata = <<>>
    BY <2>1
  <2>. QED BY <2>1, <2>3, <2>4 DEF Fits, After, m
<1>3. CASE ~buffer.empty
  <2>1. Count(buffer) \in Nat /\ Count(buffer) >= 1
    <3>1. Count(buffer) \in 1 .. Cardinality(Slots(buffer)) /\ Cardinality(Slots(buffer)) \in Nat
      BY <1>1, <1>3, CountIs DEF Ring, RingOf
    <3>. QED BY <3>1
  <2>2. PICK k \in 0 .. Count(buffer) - 1 : ChunksSince(buffer, mark) = ChunksFrom(buffer, k)
    <3>1. CASE mark = 0
      BY <1>3, <2>1, <3>1 DEF ChunksSince
    <3>2. CASE mark # 0
      <4> DEFINE first == Entry(buffer, 0).mark
                 newest == Entry(buffer, Count(buffer) - 1).mark
                 wanted == Min({Max({mark, first}), newest})
                 K == {k \in 0 .. Count(buffer) - 1 : Entry(buffer, k).mark = wanted}
      <4>1. /\ written \in Nat /\ Count(buffer) <= written
            /\ \A k \in 0 .. Count(buffer) - 1 :
                 Entry(buffer, k).mark = written - Count(buffer) + 1 + k
        BY <1>1, <1>3 DEF Holds
      <4>2. first = written - Count(buffer) + 1 /\ newest = written
        <5>1. 0 \in 0 .. Count(buffer) - 1 /\ Count(buffer) - 1 \in 0 .. Count(buffer) - 1
          BY <2>1
        <5>2. /\ written - Count(buffer) + 1 + 0 = written - Count(buffer) + 1
              /\ written - Count(buffer) + 1 + (Count(buffer) - 1) = written
          BY <2>1, <4>1
        <5>. QED BY <4>1, <5>1, <5>2
      <4>3. ChunksSince(buffer, mark)
              = ChunksFrom(buffer, CHOOSE k \in 0 .. Count(buffer) - 1 :
                                     Entry(buffer, k).mark = wanted)
        BY <1>3, <3>2 DEF ChunksSince
      <4> HIDE DEF first, newest
      <4>4. Max({mark, first}) \in {mark, first} /\ Max({mark, first}) >= first
        <5>1. first \in Nat
          BY <2>1, <4>1, <4>2
        <5>2. \E x \in {mark, first} : \A y \in {mark, first} : x >= y
          BY <5>1
        <5>. QED BY <5>1, <5>2 DEF Max
      <4>5. wanted \in {Max({mark, first}), newest} /\ wanted <= newest /\ wanted >= first
        <5>1. {Max({mark, first}), newest} \in SUBSET Nat /\ {Max({mark, first}), newest} # {}
          BY <2>1, <4>1, <4>2, <4>4
        <5>2. first <= newest
          BY <2>1, <4>1, <4>2
        <5> HIDE DEF wanted
        <5>3. wanted \in {Max({mark, first}), newest} /\ wanted <= newest
          BY <5>1, MinIn DEF wanted
        <5>. QED BY <4>4, <5>2, <5>3
      <4>6. wanted \in Nat
        BY <2>1, <4>1, <4>2, <4>4, <4>5
      <4> HIDE DEF wanted
      <4>7. wanted - first \in 0 .. Count(buffer) - 1
        BY <2>1, <4>1, <4>2, <4>5, <4>6
      <4>8. Entry(buffer, wanted - first).mark = wanted
        <5>1. written - Count(buffer) + 1 + (wanted - first) = wanted
          BY <2>1, <4>1, <4>2, <4>6
        <5>. QED BY <4>1, <4>7, <5>1
      <4>9. (CHOOSE k \in 0 .. Count(buffer) - 1 : Entry(buffer, k).mark = wanted)
              \in 0 .. Count(buffer) - 1
        BY <4>7, <4>8
      <4>. QED BY <4>3, <4>9
    <3>. QED BY <3>1, <3>2
  <2> DEFINE c == ChunksFrom(buffer, k)
  <2>3. /\ c.mdata \in Places /\ c.data \in Seq(Bytes)
        /\ IsSuffix(c.data, printed[written])
        /\ Len(c.mdata) \in Nat /\ Len(c.mdata) >= 1
        /\ c.mdata[1][1] = Entry(buffer, k).mark /\ c.mdata[Len(c.mdata)][1] = written
        /\ Entry(buffer, k).mark \in 1 .. written
    <3> DEFINE s == printed[written]
    <3>1. Holds(buffer, s, written) /\ k \in 0 .. Count(buffer) - 1
      BY <1>1, <2>2
    <3> HIDE DEF s
    <3>2. c.mdata \in Places /\ c.data \in Seq(Bytes) /\ IsSuffix(c.data, s)
      BY <1>1, <1>3, <3>1, Reads
    <3>3. Len(c.mdata) \in Nat /\ Len(c.mdata) >= 1 /\ c.mdata[1][1] = Entry(buffer, k).mark
      BY <1>1, <1>3, <3>1, Reads
    <3>4. c.mdata[Len(c.mdata)][1] = written /\ Entry(buffer, k).mark \in 1 .. written
      BY <1>1, <1>3, <3>1, Reads
    <3>. QED BY <3>2, <3>3, <3>4 DEF s
  <2>10. /\ Len(c.mdata) = Count(buffer) - k
         /\ \A i \in 1 .. Count(buffer) - k :
              /\ c.mdata[i][1] = Entry(buffer, k).mark + i - 1 /\ c.mdata[i][1] \in 1 .. written
              /\ c.mdata[i][2] \in 0 .. Len(c.data)
              /\ printed[written]
                   = printed[c.mdata[i][1] - 1] \o SubSeq(c.data, c.mdata[i][2] + 1, Len(c.data))
    <3>1. Len(c.mdata) = Count(buffer) - k
      <4>1. k \in 0 .. Count(buffer) - 1 /\ Count(buffer) - k \in Nat
        BY <2>1, <2>2
      <4>2. Size(buffer, k) \in Nat
        <5>1. Size(buffer, k) \in 1 .. Capacity - 1 /\ Capacity \in Nat
          BY <1>1, <1>3, <4>1 DEF Holds, ConsoleStreamingAssumption
        <5>. QED BY <5>1
      <4>. QED BY <4>1, <4>2, ReadsAll
    <3>2. k \in 0 .. Count(buffer) - 1
      BY <2>2
    <3>. QED BY <1>3, <3>1, <3>2, Offsets
  <2> HIDE DEF c
  <2>4. m = [type |-> "data", mdata |-> c.mdata, data |-> c.data]
    BY <2>2 DEF Message, c
  <2>5. m \in DownMessages /\ m.type = "data" /\ m.mdata = c.mdata /\ m.data = c.data
    BY <2>3, <2>4 DEF DownMessages
  <2> HIDE DEF m
  <2>6. m.mdata # <<>>
    BY <2>3, <2>5
  <2>7. Newest(m) = written /\ First(m) = Entry(buffer, k).mark
    BY <2>3, <2>5 DEF Newest, First
  <2>8. written \in Nat
    BY <1>1 DEF Holds
  <2>9. written \in 1 .. written
    BY <2>3, <2>8
  <2>11. \A i \in 1 .. Len(m.mdata) : Begins(m, i)
    <3>1. \A j \in 1 .. written : j <= written
      BY <2>8
    <3>. QED BY <2>5, <2>7, <2>10, <3>1 DEF Begins
  <2>. QED BY <2>3, <2>5, <2>6, <2>7, <2>9, <2>11 DEF Fits, After, m
<1>. QED BY <1>2, <1>3

-----------------------------------------------------------------------------
(* Channels.                                                               *)

\* What is left of a queue.
LEMMA TailIs ==
  ASSUME NEW S, NEW q \in Seq(S), q # <<>>
  PROVE  /\ q[1] \in S /\ Head(q) = q[1] /\ Len(q) \in Nat /\ Len(q) >= 1
         /\ Tail(q) \in Seq(S) /\ Len(Tail(q)) = Len(q) - 1
         /\ \A i \in 1 .. Len(q) - 1 : Tail(q)[i] = q[i + 1]
OBVIOUS

\* What is appended to a queue comes last.
LEMMA AppendIs ==
  ASSUME NEW S, NEW q \in Seq(S), NEW m \in S
  PROVE  /\ Append(q, m) \in Seq(S) /\ Len(q) \in Nat /\ Len(Append(q, m)) = Len(q) + 1
         /\ \A i \in 1 .. Len(q) : Append(q, m)[i] = q[i]
         /\ Append(q, m)[Len(q) + 1] = m
         /\ Append(q, m) # <<>>
OBVIOUS

\* Where the messages are when two queues are joined.
LEMMA JoinIs ==
  ASSUME NEW S, NEW q \in Seq(S), NEW r \in Seq(S)
  PROVE  /\ q \o r \in Seq(S) /\ Len(q) \in Nat /\ Len(r) \in Nat
         /\ Len(q \o r) = Len(q) + Len(r)
         /\ \A i \in 1 .. Len(q) : (q \o r)[i] = q[i]
         /\ \A i \in 1 .. Len(r) : (q \o r)[Len(q) + i] = r[i]
OBVIOUS

\* Only Write changes what the streamer has.
LEMMA OnlyWrite ==
  ASSUME [Next]_vars
  PROVE  Write \/ UNCHANGED <<buffer, output, written, printed>>
<1>1. CASE StreamerReceives \/ Clk \/ ClientReceives \/ ClientDies \/ Reconnect \/ Lose
  BY <1>1 DEF StreamerReceives, Clk, ClientReceives, ClientDies, Reconnect, Lose, streamer
<1>2. ASSUME NEW c \in Consoles, Open(c) \/ Close(c)
      PROVE  UNCHANGED <<buffer, output, written, printed>>
  BY <1>2 DEF Open, Close, streamer
<1>3. CASE UNCHANGED vars
  BY <1>3 DEF vars, streamer
<1>. QED BY <1>1, <1>2, <1>3 DEF Next

\* What is asked when a console is opened.
LEMMA AskIs ==
  ASSUME TypeOK, AskForAll
  PROVE  /\ up' \in Seq(UpMessages) /\ Len(up) \in Nat /\ Len(up') = Len(up) + 2
         /\ \A i \in 1 .. Len(up) : up'[i] = up[i]
         /\ up'[Len(up) + 1] = [type |-> "request_updates"]
         /\ up'[Len(up) + 2] = Request(0)
<1> DEFINE r == <<[type |-> "request_updates"], Request(0)>>
<1>1. up \in Seq(UpMessages) /\ up' = up \o r
  BY DEF TypeOK, AskForAll
<1>2. [type |-> "request_updates"] \in UpMessages /\ Request(0) \in UpMessages
  BY DEF UpMessages, Requests, Request
<1>3. r \in Seq(UpMessages) /\ Len(r) = 2
      /\ r[1] = [type |-> "request_updates"] /\ r[2] = Request(0)
  BY <1>2
<1> HIDE DEF r
<1>4. /\ up' \in Seq(UpMessages) /\ Len(up) \in Nat
      /\ Len(up') = Len(up) + 2
      /\ \A i \in 1 .. Len(up) : up'[i] = up[i]
      /\ \A i \in 1 .. 2 : up'[Len(up) + i] = r[i]
  <2>1. /\ up \o r \in Seq(UpMessages) /\ Len(up) \in Nat /\ Len(up \o r) = Len(up) + Len(r)
        /\ \A i \in 1 .. Len(up) : (up \o r)[i] = up[i]
        /\ \A i \in 1 .. Len(r) : (up \o r)[Len(up) + i] = r[i]
    <3>1. up \in Seq(UpMessages) /\ r \in Seq(UpMessages)
      BY <1>1, <1>3
    <3>. QED BY <3>1, JoinIs
  <2>. QED BY <1>1, <1>3, <2>1
<1>. QED BY <1>3, <1>4

\* What is added up for no chunks.
LEMMA NothingToSkip ==
  ASSUME NEW m
  PROVE  Starts(m, {}) = 0
<1> DEFINE x(s) == CHOOSE y \in s : TRUE
           sum == CHOOSE f : f = [s \in SUBSET {} |->
                                    IF s = {} THEN 0 ELSE m.mdata[x(s)][2] + f[s \ {x(s)}]]
           none == [s \in {{}} |-> 0]
<1>1. SUBSET {} = {{}}
  OBVIOUS
<1>2. none = [s \in SUBSET {} |->
                IF s = {} THEN 0 ELSE m.mdata[x(s)][2] + none[s \ {x(s)}]]
  BY <1>1
<1> HIDE DEF none
<1>3. sum = [s \in SUBSET {} |-> IF s = {} THEN 0 ELSE m.mdata[x(s)][2] + sum[s \ {x(s)}]]
  BY <1>2
<1>4. Starts(m, {}) = sum[{}]
  BY DEF Starts, MapThenSumSet, MapThenFoldSet
<1> HIDE DEF sum
<1>5. sum[{}] = 0
  BY <1>1, <1>3
<1>. QED BY <1>4, <1>5

\* Whatever is skipped, bytes are given.
LEMMA GivenIs ==
  ASSUME NEW m, NEW c, m.data \in Seq(Bytes)
  PROVE  Given(m, c) \in Seq(Bytes)
<1>1. CASE last[c] = 0
  BY <1>1 DEF Given
<1>2. CASE last[c] # 0 /\ ~Overruns(m, last[c])
  <2>1. Given(m, c) = SubSeq(m.data, Skipped(m, last[c]) + 1, Len(m.data))
    BY <1>2 DEF Given
  <2>2. PICK k \in 0 .. Len(m.data) : k = Skipped(m, last[c])
    BY <1>2 DEF Overruns
  <2>3. SubSeq(m.data, k + 1, Len(m.data)) \in Seq(Bytes)
    OBVIOUS
  <2>. QED BY <2>1, <2>2, <2>3
<1>3. CASE last[c] # 0 /\ Overruns(m, last[c])
  <2>1. Given(m, c) = Beyond
    BY <1>3 DEF Given
  <2>. QED BY <2>1 DEF Beyond, Bytes
<1>. QED BY <1>1, <1>2, <1>3

\* What the client does with a message.
LEMMA Received ==
  ASSUME ConsoleStreamingAssumption, TypeOK, MessagesFit, ClientReceives
  PROVE  LET m == down[1]
         IN  /\ m \in DownMessages /\ Fits(m) /\ Len(down) \in Nat /\ Len(down) >= 1
             /\ down' \in Seq(DownMessages) /\ Len(down') = Len(down) - 1
             /\ \A i \in 1 .. Len(down') : down'[i] = down[i + 1]
             /\ m.mdata = <<>> => UNCHANGED <<last, given, disturbed, up>>
             /\ m.mdata # <<>> =>
                  /\ Newest(m) \in 1 .. written
                  /\ last' \in [Consoles -> 0 .. written]
                  /\ disturbed' \in [Consoles -> 0 .. written]
                  /\ given' \in [Consoles -> Seq(Bytes)]
                  /\ up' \in Seq(UpMessages) /\ Len(up) \in Nat
                  /\ \E r \in Seq(UpMessages) : up' = (up \o r) \o Acks(m)
                  /\ Misses(m) = {} => up' = up \o Acks(m)
                  /\ \A c \in Consoles :
                       /\ last'[c] = IF c \in open /\ Takes(m, c) THEN Newest(m) ELSE last[c]
                       /\ given'[c] = IF c \in open /\ Takes(m, c) THEN given[c] \o Given(m, c)
                                      ELSE given[c]
                       /\ disturbed'[c] = IF (c \in open /\ Takes(m, c)) /\ Disturbs(m, c)
                                          THEN Newest(m) ELSE disturbed[c]
<1> DEFINE m == down[1]
           takers == {c \in open : Takes(m, c)}
           missing == Misses(m)
           requests == IF missing = {} THEN <<>> ELSE <<Request(Min({last[c] : c \in missing}))>>
<1>1. down # <<>> /\ down' = Tail(down) /\ down \in Seq(DownMessages)
  BY DEF ClientReceives, TypeOK
<1>2. /\ m \in DownMessages /\ Head(down) = m /\ Len(down) \in Nat /\ Len(down) >= 1
      /\ down' \in Seq(DownMessages) /\ Len(down') = Len(down) - 1
      /\ \A i \in 1 .. Len(down) - 1 : down'[i] = down[i + 1]
  BY <1>1, TailIs
<1>3. Fits(m)
  <2>1. 1 \in 1 .. Len(down)
    BY <1>2
  <2>. QED BY <2>1 DEF MessagesFit
<1>4. m.mdata = <<>> => UNCHANGED <<last, given, disturbed, up>>
  BY <1>2 DEF ClientReceives
<1>5. m.mdata # <<>> =>
        /\ last' = [c \in Consoles |-> IF c \in takers THEN Newest(m) ELSE last[c]]
        /\ given' = [c \in Consoles |->
                       IF c \in takers THEN given[c] \o Given(m, c) ELSE given[c]]
        /\ disturbed' = [c \in Consoles |-> IF c \in takers /\ Disturbs(m, c)
                                            THEN Newest(m) ELSE disturbed[c]]
        /\ up' = up \o requests \o Acks(m)
  <2>1. Head(down) = m
    BY <1>2
  <2> HIDE DEF m, takers, missing, requests
  <2>2. SUFFICES ASSUME m.mdata # <<>>
                 PROVE  /\ last' = [c \in Consoles |-> IF c \in takers THEN Newest(m) ELSE last[c]]
                        /\ given' = [c \in Consoles |->
                                       IF c \in takers THEN given[c] \o Given(m, c) ELSE given[c]]
                        /\ disturbed' = [c \in Consoles |->
                                           IF c \in takers /\ Disturbs(m, c)
                                           THEN Newest(m) ELSE disturbed[c]]
                        /\ up' = up \o requests \o Acks(m)
    OBVIOUS
  <2>3. last' = [c \in Consoles |-> IF c \in takers THEN Newest(m) ELSE last[c]]
    BY <2>1, <2>2 DEF ClientReceives, takers
  <2>4. given' = [c \in Consoles |-> IF c \in takers THEN given[c] \o Given(m, c) ELSE given[c]]
    BY <2>1, <2>2 DEF ClientReceives, takers
  <2>5. disturbed' = [c \in Consoles |->
                       IF c \in takers /\ Disturbs(m, c) THEN Newest(m) ELSE disturbed[c]]
    BY <2>1, <2>2 DEF ClientReceives, takers
  <2>6. up' = up \o requests \o Acks(m)
    BY <2>1, <2>2 DEF ClientReceives, requests, missing
  <2>. QED BY <2>3, <2>4, <2>5, <2>6
<1> HIDE DEF m
<1>6. ASSUME m.mdata # <<>>
      PROVE  /\ Newest(m) \in 1 .. written
             /\ last' \in [Consoles -> 0 .. written]
             /\ disturbed' \in [Consoles -> 0 .. written]
             /\ given' \in [Consoles -> Seq(Bytes)]
             /\ up' \in Seq(UpMessages) /\ Len(up) \in Nat
             /\ \E r \in Seq(UpMessages) : up' = (up \o r) \o Acks(m)
             /\ Misses(m) = {} => up' = up \o Acks(m)
             /\ \A c \in Consoles :
                  /\ last'[c] = IF c \in open /\ Takes(m, c) THEN Newest(m) ELSE last[c]
                  /\ given'[c] = IF c \in open /\ Takes(m, c) THEN given[c] \o Given(m, c)
                                 ELSE given[c]
                  /\ disturbed'[c] = IF (c \in open /\ Takes(m, c)) /\ Disturbs(m, c)
                                     THEN Newest(m) ELSE disturbed[c]
  <2>1. Newest(m) \in 1 .. written
    BY <1>3, <1>6 DEF Fits
  <2>2. written \in Nat
    BY LengthsFit
  <2>3. last' \in [Consoles -> 0 .. written] /\ disturbed' \in [Consoles -> 0 .. written]
    <3>1. Newest(m) \in 0 .. written
      BY <2>1, <2>2
    <3>. QED BY <1>5, <1>6, <3>1 DEF TypeOK
  <2>13. given' \in [Consoles -> Seq(Bytes)]
    <3>1. m.data \in Seq(Bytes)
      BY <1>2 DEF DownMessages
    <3>2. \A c \in Consoles : Given(m, c) \in Seq(Bytes) /\ given[c] \in Seq(Bytes)
      BY <3>1, GivenIs DEF TypeOK
    <3>3. \A c \in Consoles : given[c] \o Given(m, c) \in Seq(Bytes)
      BY <3>2, ConcatIs
    <3>. QED BY <1>5, <1>6, <3>2, <3>3
  <2>4. up \in Seq(UpMessages) /\ Len(up) \in Nat
    BY DEF TypeOK
  <2>5. Acks(m) \in Seq(UpMessages)
    <3>1. [type |-> "ack"] \in UpMessages
      BY DEF UpMessages
    <3>. QED BY <3>1 DEF Acks
  <2>6. requests \in Seq(UpMessages)
    <3>1. CASE missing = {}
      BY <3>1
    <3>2. CASE missing # {}
      <4> DEFINE L == {last[c] : c \in missing}
      <4>1. L \in SUBSET Nat /\ L # {}
        <5>1. missing # {} /\ missing \subseteq Consoles
          BY <3>2 DEF TypeOK, Misses
        <5>2. \A c \in Consoles : last[c] \in Nat
          BY <2>2 DEF TypeOK
        <5> HIDE DEF missing
        <5>. QED BY <5>1, <5>2
      <4> HIDE DEF L
      <4>2. Min(L) \in Nat
        BY <4>1, MinIn
      <4>3. Request(Min(L)) \in UpMessages
        BY <4>2 DEF Request, UpMessages, Requests
      <4>4. requests = <<Request(Min(L))>>
        BY <3>2 DEF L
      <4> HIDE DEF requests
      <4>. QED BY <4>3, <4>4
    <3>. QED BY <3>1, <3>2
  <2> HIDE DEF requests
  <2>7. up' \in Seq(UpMessages)
    <3>1. up \o requests \in Seq(UpMessages)
      BY <2>4, <2>6
    <3>2. (up \o requests) \o Acks(m) \in Seq(UpMessages)
      <4> DEFINE q == up \o requests
      <4> HIDE DEF q
      <4>1. q \o Acks(m) \in Seq(UpMessages)
        BY <2>5, <3>1 DEF q
      <4>. QED BY <4>1 DEF q
    <3>. QED BY <1>5, <1>6, <3>2
  <2>8. Misses(m) = {} => up' = up \o Acks(m)
    <3>1. Misses(m) = {} => requests = <<>>
      BY DEF requests
    <3>2. up \o <<>> = up
      BY <2>4
    <3>. QED BY <1>5, <1>6, <3>1, <3>2
  <2>9. \A c \in Consoles : c \in takers <=> c \in open /\ Takes(m, c)
    OBVIOUS
  <2> HIDE DEF takers
  <2>10. \A c \in Consoles :
           /\ last'[c] = IF c \in open /\ Takes(m, c) THEN Newest(m) ELSE last[c]
           /\ given'[c] = IF c \in open /\ Takes(m, c) THEN given[c] \o Given(m, c)
                          ELSE given[c]
           /\ disturbed'[c] = IF (c \in open /\ Takes(m, c)) /\ Disturbs(m, c)
                              THEN Newest(m) ELSE disturbed[c]
    BY <1>5, <1>6, <2>9
  <2>12. \E r \in Seq(UpMessages) : up' = (up \o r) \o Acks(m)
    BY <1>5, <1>6, <2>6
  <2>. QED BY <2>1, <2>3, <2>4, <2>7, <2>8, <2>10, <2>12, <2>13
<1>. QED BY <1>2, <1>3, <1>4, <1>6 DEF m

-----------------------------------------------------------------------------
(* The steps.                                                              *)

\* A console that has not got anything.
LEMMA BlankIsOK ==
  ASSUME NEW c, last[c] = 0, disturbed[c] = 0, given[c] = <<>>, printed[0] = <<>>
  PROVE  ConsoleOK(c)
<1>1. <<>> \in Seq(Bytes) /\ <<>> \o <<>> = <<>>
  OBVIOUS
<1>2. IsSuffix(<<>>, <<>>)
  BY <1>1, EmptyIsSuffix
<1>3. Got(c, <<>>)
  BY <1>1, <1>2 DEF Got
<1>. QED BY <1>1, <1>3 DEF ConsoleOK

\* An empty buffer, and nobody who listens.
LEMMA InitInvariant ==
  ASSUME ConsoleStreamingAssumption, Init
  PROVE  IInv
<1>1. TypeOK
  <2>1. output \in Seq(Lengths) /\ Len(output) \in Nat
    BY DEF Init, ConsoleStreamingAssumption, Lengths
  <2>2. <<>> \in Seq(UpMessages) /\ <<>> \in Seq(DownMessages) /\ <<>> \in Seq(Bytes)
    OBVIOUS
  <2>3. 0 .. 0 = {0} /\ written = 0 /\ written \in 0 .. Len(output)
    BY <2>1 DEF Init
  <2>4. printed \in [0 .. written -> Seq(Bytes)] /\ printed[0] = <<>>
    BY <2>2, <2>3 DEF Init
  <2>5. /\ last \in [Consoles -> 0 .. written] /\ disturbed \in [Consoles -> 0 .. written]
        /\ given \in [Consoles -> Seq(Bytes)]
    BY <2>2, <2>3 DEF Init
  <2>. QED BY <2>2, <2>3, <2>4, <2>5 DEF Init, TypeOK
<1>2. BufferOK
  <2>1. /\ buffer.md = [i \in {0} |-> [mark |-> 0, pointer |-> 0]] /\ buffer.empty
        /\ buffer = [data |-> [i \in 0 .. Capacity - 1 |-> <<0, 0>>], dend |-> 0,
                     md |-> [i \in {0} |-> [mark |-> 0, pointer |-> 0]],
                     mdstart |-> 0, mdend |-> 0, empty |-> TRUE]
    BY DEF Init
  <2>2. Capacity \in Nat \ {0} /\ 0 \in 0 .. Capacity - 1
    BY DEF ConsoleStreamingAssumption
  <2>3. 0 .. 1 - 1 = {0}
    OBVIOUS
  <2>4. buffer.md \in [0 .. 1 - 1 -> Marks]
    BY <2>1, <2>3 DEF Marks
  <2>5. RingOf(buffer, 1)
    <3>1. [i \in 0 .. Capacity - 1 |-> <<0, 0>>] \in [0 .. Capacity - 1 -> Bytes]
      BY DEF Bytes
    <3>2. 0 \in 0 .. 1 - 1 /\ 1 \in Nat \ {0}
      BY <2>3
    <3>. QED BY <2>1, <2>2, <2>4, <3>1, <3>2 DEF RingOf
  <2>6. Ring(buffer)
    BY <2>5, CountIs DEF Ring
  <2>7. written = 0 /\ printed[written] = <<>>
    BY DEF Init
  <2>. QED BY <2>1, <2>6, <2>7 DEF BufferOK, Holds
<1>3. MessagesFit
  BY DEF Init, MessagesFit
<1>4. WithoutTrouble
  BY DEF Init, WithoutTrouble, InTurn, NothingMissed, Subscribed, AsksAfter, Undisturbed
<1>5. PrintedOK
  <2>1. written = 0 /\ printed[0] = <<>>
    BY DEF Init
  <2>2. 1 .. 0 = {} /\ Len(<<>>) = 0
    OBVIOUS
  <2>. QED BY <2>1, <2>2 DEF PrintedOK
<1>6. Shown
  <2>1. ASSUME NEW c \in Consoles
        PROVE  ConsoleOK(c)
    <3>1. last[c] = 0 /\ disturbed[c] = 0 /\ given[c] = <<>> /\ printed[0] = <<>>
      BY DEF Init
    <3>. QED BY <3>1, BlankIsOK
  <2>. QED BY <2>1 DEF Shown
<1>. QED BY <1>1, <1>2, <1>3, <1>4, <1>5, <1>6 DEF IInv

\* The types are kept.
LEMMA TypeStep ==
  ASSUME ConsoleStreamingAssumption, TypeOK, BufferOK, PrintedOK, MessagesFit, [Next]_vars
  PROVE  TypeOK'
<1>1. CASE Write
  <2> DEFINE l == output[written + 1]
  <2>1. /\ l \in Nat /\ written \in Nat /\ written' = written + 1 /\ written' \in 0 .. Len(output)
        /\ printed' \in [0 .. written' -> Seq(Bytes)]
        /\ \A m \in 0 .. written : printed'[m] = printed[m]
        /\ NewMark(buffer) = written + 1
    BY <1>1, Writes
  <2> HIDE DEF l
  <2>2. printed'[0] = <<>>
    BY <2>1 DEF TypeOK
  <2>3. down' \in Seq(DownMessages) /\ subscriber' \in {"absent", "acked", "sent", "late"}
    <3>1. \/ UNCHANGED <<subscriber, down>>
          \/ /\ down' = Append(down, Update(written + 1, l))
             /\ subscriber' = IF subscriber = "acked" THEN "sent" ELSE subscriber
      BY <1>1, <2>1 DEF Write, Update, l
    <3>2. Update(written + 1, l) \in DownMessages
      <4>1. written + 1 \in Nat
        BY <2>1
      <4>. QED BY <2>1, <4>1, UpdateIs
    <3>3. down \in Seq(DownMessages) /\ subscriber \in {"absent", "acked", "sent", "late"}
      BY DEF TypeOK
    <3>4. Append(down, Update(written + 1, l)) \in Seq(DownMessages)
      BY <3>2, <3>3, AppendIs
    <3>. QED BY <3>1, <3>3, <3>4
  <2>4. last' \in [Consoles -> 0 .. written'] /\ disturbed' \in [Consoles -> 0 .. written']
        /\ UNCHANGED given
    <3>1. \A i \in 0 .. written : i \in 0 .. written + 1
      BY <2>1
    <3>. QED BY <1>1, <2>1, <3>1 DEF Write, client, TypeOK
  <2>5. UNCHANGED <<output, up, open, opens, trouble>> /\ lost' = FALSE
    BY <1>1 DEF Write, client
  <2>. QED BY <2>1, <2>2, <2>3, <2>4, <2>5 DEF TypeOK
<1>2. CASE StreamerReceives
  <2>1. up # <<>> /\ up' = Tail(up) /\ up \in Seq(UpMessages)
    BY <1>2 DEF StreamerReceives, TypeOK
  <2>2. up' \in Seq(UpMessages) /\ Head(up) \in UpMessages
    BY <2>1, TailIs
  <2>3. UNCHANGED <<buffer, output, written, printed, open, last, given, disturbed, opens, trouble,
                    lost>>
    BY <1>2 DEF StreamerReceives, client
  <2>4. down' \in Seq(DownMessages) /\ subscriber' \in {"absent", "acked", "sent", "late"}
    <3>1. CASE UNCHANGED down
      BY <1>2, <3>1 DEF StreamerReceives, UpdatesRequested, UpdateAcknowledged, Requested, TypeOK
    <3>2. CASE Head(up).type = "request" /\ Requested(Head(up).start)
      <4>1. Head(up).start \in Nat
        BY <2>2, <3>2 DEF UpMessages, Requests
      <4>2. Message("data", ChunksSince(buffer, Head(up).start)) \in DownMessages
        BY <4>1, Answers
      <4>. QED BY <3>2, <4>2, AppendIs DEF Requested, TypeOK
    <3>. QED BY <1>2, <3>1, <3>2 DEF StreamerReceives, UpdatesRequested, UpdateAcknowledged
  <2>. QED BY <2>2, <2>3, <2>4 DEF TypeOK
<1>3. CASE Clk
  <2>1. subscriber' \in {"absent", "acked", "sent", "late"}
    BY <1>3 DEF Clk, Later
  <2>2. trouble' \in Nat /\ lost' \in BOOLEAN
    <3>1. UNCHANGED <<trouble, lost>> \/ (trouble' = trouble + 1 /\ lost' = TRUE)
      BY <1>3 DEF Clk
    <3>2. trouble \in Nat /\ lost \in BOOLEAN
      BY DEF TypeOK
    <3>3. trouble' \in Nat
      BY <3>1, <3>2
    <3>4. lost' \in BOOLEAN
      BY <3>1, <3>2
    <3>. QED BY <3>3, <3>4
  <2>3. UNCHANGED <<buffer, output, written, printed, up, down, open, last, given, disturbed,
                    opens>>
    BY <1>3 DEF Clk, channels, client
  <2>. QED BY <2>1, <2>2, <2>3 DEF TypeOK
<1>4. CASE ClientReceives
  <2>1. /\ down' \in Seq(DownMessages)
        /\ last' \in [Consoles -> 0 .. written] /\ up' \in Seq(UpMessages)
        /\ given' \in [Consoles -> Seq(Bytes)] /\ disturbed' \in [Consoles -> 0 .. written]
    BY <1>4, Received DEF TypeOK
  <2>2. UNCHANGED <<streamer, open, opens, trouble, lost>>
    BY <1>4 DEF ClientReceives
  <2>. QED BY <2>1, <2>2 DEF TypeOK, streamer
<1>5. ASSUME NEW c \in Consoles, Open(c)
      PROVE  TypeOK'
  <2>1. up' \in Seq(UpMessages)
    BY <1>5, AskIs DEF Open
  <2>2. 0 \in 0 .. written /\ <<>> \in Seq(Bytes)
    <3>1. written \in Nat
      BY LengthsFit
    <3>. QED BY <3>1
  <2>3. /\ last' = [last EXCEPT ![c] = 0] /\ open' = open \cup {c} /\ opens' = opens + 1
        /\ given' = [given EXCEPT ![c] = <<>>] /\ disturbed' = [disturbed EXCEPT ![c] = 0]
        /\ UNCHANGED <<streamer, down, trouble, lost>>
    BY <1>5 DEF Open
  <2>. QED BY SMTT(30), <2>1, <2>2, <2>3 DEF TypeOK, streamer
<1>6. ASSUME NEW c \in Consoles, Close(c)
      PROVE  TypeOK'
  <2>1. 0 \in 0 .. written /\ <<>> \in Seq(Bytes)
    <3>1. written \in Nat
      BY LengthsFit
    <3>. QED BY <3>1
  <2>. QED BY <1>6, <2>1 DEF Close, TypeOK, streamer, channels
<1>7. CASE Reconnect
  <2>1. up' \in Seq(UpMessages)
    BY <1>7, AskIs DEF Reconnect
  <2>2. 0 \in 0 .. written /\ <<>> \in Seq(Bytes)
    <3>1. written \in Nat
      BY LengthsFit
    <3>. QED BY <3>1
  <2>. QED BY <1>7, <2>1, <2>2 DEF Reconnect, TypeOK, streamer
<1>8. CASE Lose
  <2>1. up' \in Seq(UpMessages) /\ down' \in Seq(DownMessages)
    <3>1. up \in Seq(UpMessages) /\ down \in Seq(DownMessages)
      BY DEF TypeOK
    <3>2. \/ up # <<>> /\ up' = Tail(up) /\ UNCHANGED down
          \/ down # <<>> /\ down' = Tail(down) /\ UNCHANGED up
      BY <1>8 DEF Lose
    <3>3. up # <<>> => Tail(up) \in Seq(UpMessages)
      BY <3>1, TailIs
    <3>4. down # <<>> => Tail(down) \in Seq(DownMessages)
      BY <3>1, TailIs
    <3>. QED BY <3>1, <3>2, <3>3, <3>4
  <2>. QED BY SMTT(30), <1>8, <2>1 DEF Lose, TypeOK, streamer, client
<1>9. CASE UNCHANGED vars
  BY <1>9 DEF vars, streamer, channels, client, TypeOK
<1>10. CASE ClientDies
  <2>1. 0 \in 0 .. written /\ <<>> \in Seq(Bytes) /\ MaxOpens \in Nat
    BY LengthsFit DEF ConsoleStreamingAssumption
  <2>2. <<>> \in Seq(UpMessages) /\ <<>> \in Seq(DownMessages)
    OBVIOUS
  <2>. QED BY SMTT(30), <1>10, <2>1, <2>2 DEF ClientDies, TypeOK
<1>. QED BY <1>1, <1>2, <1>3, <1>4, <1>5, <1>6, <1>7, <1>8, <1>9, <1>10 DEF Next

\* The buffer goes on to hold the end of the output.
LEMMA BufferStep ==
  ASSUME ConsoleStreamingAssumption, TypeOK, BufferOK, [Next]_vars
  PROVE  BufferOK'
<1>1. CASE Write
  BY <1>1, Writes DEF BufferOK
<1>2. CASE UNCHANGED <<buffer, output, written, printed>>
  BY <1>2 DEF BufferOK
<1>. QED BY <1>1, <1>2, OnlyWrite

\* What is printed is what was printed, and a chunk with a mark of its own.
LEMMA PrintedStep ==
  ASSUME ConsoleStreamingAssumption, TypeOK, BufferOK, PrintedOK, [Next]_vars
  PROVE  PrintedOK'
<1>1. CASE Write
  <2>1. PICK l \in Nat : l = output[written + 1]
    BY <1>1, LengthsFit DEF Write
  <2>2. /\ written \in Nat /\ written' = written + 1
        /\ \A k \in 0 .. written : printed'[k] = printed[k]
        /\ printed'[written'] = printed[written] \o Chunk(written + 1, l)
    BY <1>1, <2>1, Writes
  <2>3. l > 0
    BY <1>1, <2>1, LengthsFit DEF Write
  <2>4. PICK all \in Seq(Bytes) : all = printed[written]
    <3>1. written \in 0 .. written
      BY <2>2
    <3>. QED BY <3>1 DEF TypeOK
  <2>5. PICK n \in Nat : n = written + 1
    BY <2>2
  <2>6. PICK ch \in Seq(Bytes) :
           ch = Chunk(n, l) /\ Len(ch) = l /\ \A j \in 1 .. l : ch[j] = <<n, j>>
    BY ChunkIs
  <2>7. PICK new : new = all \o ch /\ new = printed'[written']
    BY <2>2, <2>4, <2>5, <2>6
  <2>8. /\ Len(all) \in Nat /\ Len(new) = Len(all) + l
        /\ \A j \in 1 .. Len(all) : new[j] = all[j]
        /\ \A j \in 1 .. l : new[Len(all) + j] = <<n, j>>
    <3>1. /\ Len(all \o ch) = Len(all) + Len(ch)
          /\ \A j \in 1 .. Len(all) : (all \o ch)[j] = all[j]
          /\ \A j \in 1 .. Len(ch) : (all \o ch)[Len(all) + j] = ch[j]
      BY <2>4, <2>6, ConcatIs
    <3>2. Len(all) \in Nat
      BY <2>4
    <3>. QED BY <2>6, <2>7, <3>1, <3>2
  <2>9. ASSUME NEW j \in 1 .. Len(new)
        PROVE  \/ j \in 1 .. Len(all) /\ new[j] = all[j]
               \/ j > Len(all) /\ new[j] = <<n, j - Len(all)>>
    <3>1. CASE j <= Len(all)
      BY <2>8, <3>1
    <3>2. CASE j > Len(all)
      <4>1. j - Len(all) \in 1 .. l /\ Len(all) + (j - Len(all)) = j
        BY <2>8, <3>2
      <4>2. new[Len(all) + (j - Len(all))] = <<n, j - Len(all)>>
        BY <2>8, <4>1
      <4>. QED BY <3>2, <4>1, <4>2
    <3>. QED BY <2>8, <3>1, <3>2
  <2>10. \A j \in 1 .. Len(all) : all[j][1] <= written /\ all[j] \in Bytes
    BY <2>4 DEF PrintedOK
  <2>11. ASSUME NEW j \in 1 .. Len(new)
         PROVE  new[j][1] <= written'
    <3>1. CASE j \in 1 .. Len(all) /\ new[j] = all[j]
      <4>1. all[j][1] <= written /\ all[j][1] \in Nat
        BY <2>10, <3>1 DEF Bytes
      <4>. QED BY <2>2, <3>1, <4>1
    <3>2. CASE new[j] = <<n, j - Len(all)>>
      BY <2>2, <2>5, <3>2
    <3>. QED BY <2>9, <3>1, <3>2
  <2>12. ASSUME NEW m \in 1 .. written'
         PROVE  Laid(m)'
    <3>1. m - 1 \in 0 .. written
      BY <2>2
    <3>2. PICK before : before = printed[m - 1] /\ before = printed'[m - 1]
      BY <2>2, <3>1
    <3>3. CASE m = n
      <4>1. before = all
        <5>1. m - 1 = written
          BY <2>2, <2>5, <3>3
        <5>. QED BY <2>4, <3>2, <5>1
      <4>2. Len(before) < Len(new) /\ \A j \in 1 .. Len(before) : new[j] = before[j]
        BY <2>3, <2>8, <4>1
      <4>3. ASSUME NEW j \in 1 .. Len(new), new[j] = <<m, 1>>
            PROVE  j = Len(before) + 1
        <5>1. CASE j \in 1 .. Len(all) /\ new[j] = all[j]
          <6>1. all[j][1] <= written /\ all[j] = <<m, 1>>
            BY <2>10, <4>3, <5>1
          <6>. QED BY <2>2, <2>5, <3>3, <6>1
        <5>2. CASE j > Len(all) /\ new[j] = <<n, j - Len(all)>>
          <6>1. j - Len(all) = 1
            BY <4>3, <5>2
          <6>. QED BY <2>8, <4>1, <6>1
        <5>. QED BY <2>9, <5>1, <5>2
      <4>. QED BY <2>7, <3>2, <4>2, <4>3 DEF Laid
    <3>4. CASE m # n
      <4>1. m \in 1 .. written
        BY <2>2, <2>5, <3>4
      <4>2. /\ Len(before) < Len(all)
            /\ \A j \in 1 .. Len(before) : all[j] = before[j]
            /\ \A j \in 1 .. Len(all) : all[j] = <<m, 1>> => j = Len(before) + 1
        BY <2>4, <3>2, <4>1 DEF PrintedOK, Laid
      <4>3. Len(before) \in Nat
        <5>1. before \in Seq(Bytes)
          BY <3>1, <3>2 DEF TypeOK
        <5>. QED BY <5>1
      <4>4. Len(before) < Len(new) /\ \A j \in 1 .. Len(before) : new[j] = before[j]
        BY <2>8, <4>2, <4>3
      <4>5. ASSUME NEW j \in 1 .. Len(new), new[j] = <<m, 1>>
            PROVE  j = Len(before) + 1
        <5>1. ~(new[j] = <<n, j - Len(all)>>)
          BY <3>4, <4>5
        <5>. QED BY <2>9, <4>2, <4>5, <5>1
      <4>. QED BY <2>7, <3>2, <4>4, <4>5 DEF Laid
    <3>. QED BY <3>3, <3>4
  <2>. QED BY <2>7, <2>11, <2>12 DEF PrintedOK
<1>2. CASE UNCHANGED <<buffer, output, written, printed>>
  BY <1>2 DEF PrintedOK, Laid
<1>. QED BY <1>1, <1>2, OnlyWrite

\* A message that fits stays one.
LEMMA FitsStays ==
  ASSUME ConsoleStreamingAssumption, TypeOK, BufferOK, [Next]_vars, NEW m, Fits(m)
  PROVE  Fits(m)'
<1>1. CASE Write
  <2>1. /\ written \in Nat /\ written' = written + 1
        /\ \A k \in 0 .. written : printed'[k] = printed[k]
    BY <1>1, Writes
  <2>2. ASSUME m.mdata # <<>>
        PROVE  /\ Newest(m) \in 1 .. written' /\ printed'[Newest(m)] = printed[Newest(m)]
               /\ printed'[Newest(m) - 1] = printed[Newest(m) - 1]
    <3>1. Newest(m) \in 1 .. written
      BY <2>2 DEF Fits
    <3>2. /\ Newest(m) \in 1 .. written' /\ Newest(m) \in 0 .. written
          /\ Newest(m) - 1 \in 0 .. written
      BY <2>1, <3>1
    <3>. QED BY <2>1, <3>2
  <2>3. Newest(m)' = Newest(m) /\ First(m)' = First(m)
    BY DEF Newest, First
  <2>4. ASSUME m.mdata # <<>>, NEW i \in 1 .. Len(m.mdata)
        PROVE  Begins(m, i)'
    <3>1. Begins(m, i) /\ First(m) \in 1 .. Newest(m) /\ Newest(m) \in 1 .. written
      BY <2>4 DEF Fits
    <3>2. PICK x \in Int : x = m.mdata[i][1] /\ x <= Newest(m) /\ x >= 1
      <4>1. First(m) \in Int /\ First(m) >= 1 /\ i \in Int /\ i >= 1
        BY <2>1, <2>4, <3>1 DEF Fits
      <4>2. m.mdata[i][1] = First(m) + i - 1 /\ m.mdata[i][1] <= Newest(m)
        BY <3>1 DEF Begins
      <4>. QED BY <4>1, <4>2
    <3>3. x - 1 \in 0 .. written
      BY <2>1, <3>1, <3>2
    <3>4. printed'[x - 1] = printed[x - 1]
      BY <2>1, <3>3
    <3>. QED BY <2>2, <2>3, <2>4, <3>1, <3>2, <3>4 DEF Begins
  <2>. QED BY <2>2, <2>3, <2>4 DEF Fits
<1>2. CASE UNCHANGED <<buffer, output, written, printed>>
  BY <1>2 DEF Fits, Newest, First, Begins
<1>. QED BY <1>1, <1>2, OnlyWrite

\* How the messages to the client change.
LEMMA DownStep ==
  ASSUME ConsoleStreamingAssumption, TypeOK, BufferOK, PrintedOK, [Next]_vars
  PROVE  \/ UNCHANGED down /\ (UNCHANGED <<written, printed>> \/ subscriber = "absent")
         \/ ClientDies /\ down' = <<>>
         \/ /\ down # <<>> /\ down' = Tail(down) /\ UNCHANGED <<written, printed>>
            /\ ClientReceives \/ trouble' # 0
         \/ \E m \in DownMessages :
              /\ down' = Append(down, m) /\ m.type = "data"
              /\ Fits(m)' /\ After(m) = written'
              /\ StreamerReceives /\ Head(up).type = "request" /\ UNCHANGED <<written, printed>>
         \/ \E m \in DownMessages :
              /\ down' = Append(down, m) /\ m.type = "update"
              /\ Fits(m)' /\ m.mdata # <<>> /\ After(m) = written'
              /\ Write /\ written' = written + 1 /\ subscriber # "absent"
<1>1. CASE Write
  <2>1. PICK l \in Nat : l = output[written + 1]
    BY <1>1, LengthsFit DEF Write
  <2>2. /\ written \in Nat /\ written' = written + 1
        /\ printed' \in [0 .. written' -> Seq(Bytes)]
        /\ \A k \in 0 .. written : printed'[k] = printed[k]
        /\ printed'[written'] = printed[written] \o Chunk(written + 1, l)
        /\ NewMark(buffer) = written + 1
    BY <1>1, <2>1, Writes
  <2>3. PICK n \in Nat : n = written + 1
    BY <2>2
  <2>4. \/ UNCHANGED down /\ subscriber = "absent"
        \/ down' = Append(down, Update(n, l)) /\ subscriber # "absent"
    BY <1>1, <2>1, <2>2, <2>3 DEF Write, Update
  <2>5. PICK m \in DownMessages : m = Update(n, l)
    BY UpdateIs
  <2>6. PICK ch \in Seq(Bytes) : ch = Chunk(n, l)
    BY ChunkIs
  <2>7. /\ m.type = "update" /\ m.data = ch
        /\ m.mdata # <<>> /\ Len(m.mdata) = 1 /\ First(m) = n /\ Newest(m) = n
        /\ m.mdata[1] = <<n, 0>>
    BY <2>5, <2>6, UpdateIs
  <2>8. IsSuffix(ch, printed[written] \o ch)
    <3>1. printed[written] \in Seq(Bytes)
      <4>1. written \in 0 .. written
        BY <2>2
      <4>. QED BY <4>1 DEF TypeOK
    <3>. QED BY <3>1, ConcatSuffix
  <2>9. Fits(m)'
    <3>1. /\ n = written' /\ n - 1 = written /\ n \in 1 .. n /\ written \in 0 .. written
      BY <2>2, <2>3
    <3>2. printed'[n - 1] = printed[written]
      BY <2>2, <3>1
    <3>3. printed'[n] = printed'[n - 1] \o m.data
      BY <2>2, <2>3, <2>6, <2>7, <3>1, <3>2
    <3>4. IsSuffix(m.data, printed'[n])
      BY <2>7, <2>8, <3>2, <3>3
    <3>5. Newest(m)' = n /\ First(m)' = n
      BY <2>7 DEF Newest, First
    <3>6. ASSUME NEW i \in 1 .. Len(m.mdata)
          PROVE  Begins(m, i)'
      <4>1. /\ i = 1 /\ m.mdata[i][1] = n /\ m.mdata[i][2] = 0 /\ n = n + i - 1 /\ n <= n
        BY <2>3, <2>7
      <4>2. SubSeq(m.data, 0 + 1, Len(m.data)) = m.data /\ 0 \in 0 .. Len(m.data)
        BY <2>6, <2>7
      <4>. QED BY <3>3, <3>5, <4>1, <4>2 DEF Begins
    <3>7. m.mdata[1][2] = 0
      BY <2>7
    <3>. QED BY <2>7, <3>1, <3>3, <3>4, <3>5, <3>6, <3>7 DEF Fits
  <2>10. After(m) = written'
    BY <2>2, <2>3, <2>7 DEF After
  <2>. QED BY <1>1, <2>2, <2>4, <2>5, <2>7, <2>9, <2>10
<1>2. CASE StreamerReceives
  <2>1. UNCHANGED <<buffer, output, written, printed>>
    BY <1>2 DEF StreamerReceives
  <2>2. CASE UNCHANGED down
    BY <2>1, <2>2
  <2>3. CASE Head(up).type = "request" /\ Requested(Head(up).start)
    <3>1. Head(up) \in UpMessages
      BY <1>2, TailIs DEF StreamerReceives, TypeOK
    <3>2. Head(up).start \in Nat
      BY <2>3, <3>1 DEF UpMessages, Requests
    <3>3. PICK m \in DownMessages :
            /\ m = Message("data", ChunksSince(buffer, Head(up).start))
            /\ m.type = "data" /\ Fits(m) /\ After(m) = written
      BY <3>2, Answers
    <3>4. down' = Append(down, m)
      BY <2>3, <3>3 DEF Requested
    <3>5. Fits(m)'
      BY <2>1, <3>3, FitsStays
    <3>. QED BY <1>2, <2>1, <2>3, <3>3, <3>4, <3>5
  <2>. QED BY <1>2, <2>2, <2>3 DEF StreamerReceives, UpdatesRequested, UpdateAcknowledged
<1>3. CASE ClientReceives
  BY <1>3 DEF ClientReceives, streamer
<1>4. CASE Clk \/ Reconnect
  BY <1>4 DEF Clk, Reconnect, channels, streamer
<1>5. ASSUME NEW c \in Consoles, Open(c) \/ Close(c)
      PROVE  UNCHANGED <<down, written, printed>>
  BY <1>5 DEF Open, Close, channels, streamer
<1>6. CASE Lose
  <2>1. trouble' # 0 /\ UNCHANGED <<written, printed>>
    <3>1. trouble \in Nat /\ trouble' = trouble + 1 /\ UNCHANGED <<written, printed>>
      BY <1>6 DEF Lose, TypeOK, streamer
    <3>. QED BY <3>1
  <2>. QED BY <1>6, <2>1 DEF Lose
<1>7. CASE UNCHANGED vars
  BY <1>7 DEF vars, channels, streamer
<1>8. CASE ClientDies
  BY <1>8 DEF ClientDies
<1>. QED BY <1>1, <1>2, <1>3, <1>4, <1>5, <1>6, <1>7, <1>8 DEF Next

Fine(m) == Fits(m) /\ (m.type = "update" => m.mdata # <<>>)

\* Every message under way is about what was written.
LEMMA FitsStep ==
  ASSUME ConsoleStreamingAssumption, TypeOK, BufferOK, PrintedOK, MessagesFit, [Next]_vars
  PROVE  MessagesFit'
<1>1. ASSUME NEW m, Fine(m)
      PROVE  Fine(m)'
  BY <1>1, FitsStays DEF Fine
<1>2. \A i \in 1 .. Len(down) : Fine(down[i])
  BY DEF MessagesFit, Fine
<1>3. down \in Seq(DownMessages)
  BY DEF TypeOK
<1>4. SUFFICES ASSUME NEW i \in 1 .. Len(down'), NEW d, d = down'[i]
               PROVE  Fine(d)'
  BY DEF MessagesFit, Fine
<1>5. CASE UNCHANGED down
  BY <1>1, <1>2, <1>4, <1>5
<1>6. CASE down # <<>> /\ down' = Tail(down)
  <2>1. i \in 1 .. Len(down) - 1 /\ Len(down) \in Nat /\ down'[i] = down[i + 1]
    BY <1>3, <1>6, TailIs
  <2>2. i + 1 \in 1 .. Len(down)
    BY <2>1
  <2>. QED BY <1>1, <1>2, <1>4, <2>1, <2>2
<1>7. ASSUME NEW m \in DownMessages, down' = Append(down, m), Fits(m)',
             m.type = "data" \/ m.mdata # <<>>
      PROVE  Fine(d)'
  <2>1. /\ Len(down) \in Nat /\ Len(down') = Len(down) + 1
        /\ \A k \in 1 .. Len(down) : down'[k] = down[k]
        /\ down'[Len(down) + 1] = m
    BY <1>3, <1>7, AppendIs
  <2>2. Fine(m)'
    BY <1>7 DEF Fine
  <2>3. i \in 1 .. Len(down) \/ i = Len(down) + 1
    BY <2>1
  <2>. QED BY <1>1, <1>2, <1>4, <2>1, <2>2, <2>3
<1>8. CASE down' = <<>>
  <2>1. Len(down') = 0
    BY <1>8
  <2>2. 1 .. Len(down') = {}
    BY <2>1
  <2>. QED BY <1>4, <2>2
<1>. QED BY <1>5, <1>6, <1>7, <1>8, DownStep

-----------------------------------------------------------------------------
(* Without trouble.                                                        *)

\* What was lost stays lost.
LEMMA TroubleGrows ==
  ASSUME TypeOK, [Next]_vars, trouble' = 0
  PROVE  trouble = 0 /\ ~Lose
<1>1. trouble \in Nat
  BY DEF TypeOK
<1>2. trouble' = trouble \/ trouble' = trouble + 1
  <2>1. CASE Write \/ StreamerReceives \/ Clk \/ ClientReceives \/ ClientDies \/ Reconnect \/ Lose
    BY <2>1 DEF Write, StreamerReceives, Clk, ClientReceives, ClientDies, Reconnect, Lose
  <2>2. ASSUME NEW c \in Consoles, Open(c) \/ Close(c)
        PROVE  trouble' = trouble
    BY <2>2 DEF Open, Close
  <2>3. CASE UNCHANGED vars
    BY <2>3 DEF vars
  <2>. QED BY <2>1, <2>2, <2>3 DEF Next
<1>3. Lose => trouble' = trouble + 1
  BY DEF Lose
<1>. QED BY <1>1, <1>2, <1>3

\* A subscription expires only with an update or its acknowledgement lost or late.
LEMMA ClkIsTrouble ==
  ASSUME TypeOK, Subscribed, Clk
  PROVE  trouble' # 0
<1>1. subscriber \in {"sent", "late"}
  BY DEF Clk
<1>2. up # <<>> \/ down # <<>>
  BY <1>1 DEF Subscribed
<1>3. trouble' = trouble + 1 /\ trouble \in Nat
  BY <1>2 DEF Clk, TypeOK
<1>. QED BY <1>3

\* What was chained stays chained.
LEMMA TurnStep ==
  ASSUME ConsoleStreamingAssumption, TypeOK, BufferOK, PrintedOK, [Next]_vars, InTurn, Subscribed,
         trouble' = 0, ~ClientDies
  PROVE  InTurn'
<1>1. down \in Seq(DownMessages) /\ Len(down) \in Nat
  BY DEF TypeOK
<1>2. CASE UNCHANGED down /\ (UNCHANGED <<written, printed>> \/ subscriber = "absent")
  <2>1. CASE UNCHANGED written
    BY <1>2, <2>1 DEF InTurn
  <2>2. CASE subscriber = "absent"
    <3>1. down = <<>> /\ down' = <<>>
      BY <1>2, <2>2 DEF Subscribed
    <3>2. Len(<<>>) = 0
      OBVIOUS
    <3>3. 1 .. Len(down') - 1 = {}
      BY <3>1, <3>2
    <3>. QED BY <3>1, <3>3 DEF InTurn
  <2>. QED BY <1>2, <2>1, <2>2
<1>3. CASE down # <<>> /\ down' = Tail(down) /\ UNCHANGED <<written, printed>>
  <2>1. /\ Len(down) >= 1 /\ Len(down') = Len(down) - 1
        /\ \A i \in 1 .. Len(down) - 1 : down'[i] = down[i + 1]
        /\ down' \in Seq(DownMessages)
    BY <1>1, <1>3, TailIs
  <2>2. ASSUME NEW i \in 1 .. Len(down') - 1
        PROVE  Prior(down'[i + 1]) = After(down'[i])
    <3>1. /\ i \in 1 .. Len(down) - 1 /\ i + 1 \in 1 .. Len(down) - 1
          /\ down'[i] = down[i + 1] /\ down'[i + 1] = down[(i + 1) + 1]
      BY SMTT(30), <1>1, <2>1
    <3>. QED BY <3>1 DEF InTurn
  <2>3. down' # <<>> => After(down'[Len(down')]) = written'
    <3>1. ASSUME down' # <<>>
          PROVE  down'[Len(down')] = down[Len(down)]
      <4>1. Len(down') # 0
        BY <2>1, <3>1
      <4>2. Len(down) - 1 \in 1 .. Len(down) - 1 /\ (Len(down) - 1) + 1 = Len(down)
        BY <1>1, <2>1, <4>1
      <4>. QED BY <2>1, <4>2
    <3>. QED BY <1>3, <3>1 DEF InTurn
  <2>. QED BY <2>2, <2>3 DEF InTurn
<1>4. ASSUME NEW m \in DownMessages, down' = Append(down, m),
             After(m) = written', Prior(m) = written
      PROVE  InTurn'
  <2>1. /\ Len(down') = Len(down) + 1 /\ \A i \in 1 .. Len(down) : down'[i] = down[i]
        /\ down'[Len(down) + 1] = m
    BY <1>1, <1>4, AppendIs
  <2>2. ASSUME NEW i \in 1 .. Len(down') - 1
        PROVE  Prior(down'[i + 1]) = After(down'[i])
    <3>1. CASE i = Len(down)
      <4>1. i \in 1 .. Len(down) /\ down # <<>>
        BY <1>1, <2>1, <3>1
      <4>. QED BY <1>4, <2>1, <3>1, <4>1 DEF InTurn
    <3>2. CASE i # Len(down)
      <4>1. i \in 1 .. Len(down) - 1 /\ i \in 1 .. Len(down) /\ i + 1 \in 1 .. Len(down)
        BY <1>1, <2>1, <3>2
      <4>. QED BY <2>1, <4>1 DEF InTurn
    <3>. QED BY <3>1, <3>2
  <2>. QED BY <1>4, <2>1, <2>2 DEF InTurn
<1>5. ASSUME NEW m \in DownMessages, down' = Append(down, m), m.type = "data",
             After(m) = written', UNCHANGED <<written, printed>>
      PROVE  InTurn'
  BY <1>4, <1>5 DEF Prior
<1>6. ASSUME NEW m \in DownMessages, down' = Append(down, m), m.type = "update",
             After(m) = written', written' = written + 1
      PROVE  InTurn'
  <2>1. written \in Nat
    BY LengthsFit
  <2>2. Prior(m) = written
    BY <1>6, <2>1 DEF Prior
  <2>. QED BY <1>4, <1>6, <2>2
<1>. QED BY <1>2, <1>3, <1>5, <1>6, DownStep

\* Only a subscriber is sent anything, and its acknowledgement is on its way.
LEMMA SubscribedStep ==
  ASSUME ConsoleStreamingAssumption, TypeOK, BufferOK, PrintedOK, MessagesFit, [Next]_vars,
         Subscribed, NothingMissed, AsksAfter, trouble' = 0, ~ClientDies
  PROVE  Subscribed'
<1> DEFINE Shows(q) == \E i \in 1 .. Len(q) : q[i].type = "update"
           Acked(q) == \E i \in 1 .. Len(q) : q[i].type = "ack"
<1>1. /\ down \in Seq(DownMessages) /\ Len(down) \in Nat
      /\ up \in Seq(UpMessages) /\ Len(up) \in Nat
      /\ subscriber \in {"absent", "acked", "sent", "late"}
  BY DEF TypeOK
<1>2. /\ subscriber = "absent" => down = <<>> /\ \A c \in Consoles : last[c] = 0
      /\ subscriber \in {"sent", "late"} => Shows(down) \/ Acked(up)
  BY DEF Subscribed
<1> DEFINE Still == /\ subscriber' = "absent" => down' = <<>> /\ \A c \in Consoles : last'[c] = 0
                    /\ subscriber' \in {"sent", "late"} => Shows(down') \/ Acked(up')
<1>3. SUFFICES Still
  BY DEF Subscribed
<1>4. ~Shows(<<>>) /\ ~Acked(<<>>)
  OBVIOUS
<1>5. \A q \in Seq(DownMessages), m \in DownMessages :
        m.type = "update" \/ Shows(q) => Shows(Append(q, m))
  <2>1. ASSUME NEW q \in Seq(DownMessages), NEW m \in DownMessages, m.type = "update"
        PROVE  Shows(Append(q, m))
    <3>1. Len(q) + 1 \in 1 .. Len(Append(q, m)) /\ Append(q, m)[Len(q) + 1] = m
      BY <2>1
    <3>. QED BY <2>1, <3>1
  <2>2. ASSUME NEW q \in Seq(DownMessages), NEW m \in DownMessages, Shows(q)
        PROVE  Shows(Append(q, m))
    <3>1. PICK i \in 1 .. Len(q) : q[i].type = "update"
      BY <2>2
    <3>2. i \in 1 .. Len(Append(q, m)) /\ Append(q, m)[i] = q[i]
      BY <2>2
    <3>. QED BY <3>1, <3>2
  <2>. QED BY <2>1, <2>2
<1>6. ASSUME NEW q \in Seq(UpMessages), NEW r \in Seq(UpMessages), Acked(q) \/ Acked(r)
      PROVE  Acked(q \o r)
  <2>1. CASE Acked(q)
    <3>1. PICK i \in 1 .. Len(q) : q[i].type = "ack"
      BY <2>1
    <3>2. i \in 1 .. Len(q \o r) /\ (q \o r)[i] = q[i]
      OBVIOUS
    <3>. QED BY <3>1, <3>2
  <2>2. CASE Acked(r)
    <3>1. PICK i \in 1 .. Len(r) : r[i].type = "ack"
      BY <2>2
    <3>2. Len(q) + i \in 1 .. Len(q \o r) /\ (q \o r)[Len(q) + i] = r[i]
      OBVIOUS
    <3>. QED BY <3>1, <3>2
  <2>. QED BY <1>6, <2>1, <2>2
<1> HIDE DEF Shows, Acked
<1>7. CASE Write
  <2>1. UNCHANGED <<last, up>>
    BY <1>7 DEF Write, client
  <2>2. CASE subscriber = "absent"
    <3>1. UNCHANGED <<subscriber, down>>
      BY <1>7, <2>2 DEF Write
    <3>. QED BY <1>2, <2>1, <2>2, <3>1
  <2>3. CASE subscriber # "absent"
    <3>1. subscriber' # "absent"
      BY <1>7, <2>3 DEF Write
    <3>2. PICK l \in Nat : l = output[written + 1]
      BY <1>7, LengthsFit DEF Write
    <3>3. PICK n \in Nat : n = written + 1 /\ n = NewMark(buffer)
      <4>1. written \in Nat /\ NewMark(buffer) = written + 1
        BY <1>7, Writes
      <4>. QED BY <4>1
    <3>4. down' = Append(down, Update(n, l))
      BY <1>7, <2>3, <3>2, <3>3 DEF Write, Update
    <3>5. Shows(down')
      BY <1>1, <1>5, <3>4, UpdateIs
    <3>. QED BY <3>1, <3>5
  <2>. QED BY <2>2, <2>3
<1>8. CASE StreamerReceives
  <2>1. up # <<>> /\ up' = Tail(up) /\ UNCHANGED last
    BY <1>8 DEF StreamerReceives, client
  <2>2. /\ up[1] \in UpMessages /\ Head(up) = up[1] /\ Len(up) >= 1 /\ Len(up') = Len(up) - 1
        /\ \A i \in 1 .. Len(up) - 1 : up'[i] = up[i + 1]
    BY <1>1, <2>1, TailIs
  <2>3. CASE Head(up).type = "request_updates" /\ UpdatesRequested
    <3>1. subscriber' # "absent" /\ UNCHANGED down
      BY <2>3 DEF UpdatesRequested
    <3>2. ASSUME subscriber' \in {"sent", "late"}
          PROVE  Shows(down') \/ Acked(up')
      <4>1. subscriber \in {"sent", "late"}
        BY <2>3, <3>2 DEF UpdatesRequested
      <4>2. CASE Shows(down)
        BY <3>1, <4>2
      <4>3. CASE Acked(up)
        <5>1. PICK i \in 1 .. Len(up) : up[i].type = "ack"
          BY <4>3 DEF Acked
        <5>2. i # 1
          BY <2>2, <2>3, <5>1
        <5>3. i - 1 \in 1 .. Len(up') /\ up'[i - 1] = up[i]
          BY <1>1, <2>2, <5>2
        <5>. QED BY <5>1, <5>3 DEF Acked
      <4>. QED BY <1>2, <4>1, <4>2, <4>3
    <3>. QED BY <3>1, <3>2
  <2>4. CASE Head(up).type = "ack" /\ UpdateAcknowledged
    BY <1>2, <2>1, <2>4 DEF UpdateAcknowledged
  <2>5. CASE Head(up).type = "request" /\ Requested(Head(up).start)
    <3>1. subscriber # "absent" /\ UNCHANGED subscriber
      <4>1. 1 \in 1 .. Len(up) /\ 1 .. 1 - 1 = {}
        BY <1>1, <2>2
      <4>. QED BY <2>2, <2>5, <4>1 DEF AsksAfter, Requested
    <3>2. ASSUME subscriber \in {"sent", "late"}
          PROVE  Shows(down') \/ Acked(up')
      <4>1. CASE Shows(down)
        <5>1. PICK m \in DownMessages : m = Message("data", ChunksSince(buffer, Head(up).start))
          <6>1. Head(up).start \in Nat
            BY <2>2, <2>5 DEF UpMessages, Requests
          <6>. QED BY <6>1, Answers
        <5>2. down' = Append(down, m)
          BY <2>5, <5>1 DEF Requested
        <5>. QED BY <1>1, <1>5, <4>1, <5>2
      <4>2. CASE Acked(up)
        <5>1. PICK i \in 1 .. Len(up) : up[i].type = "ack"
          BY <4>2 DEF Acked
        <5>2. i # 1
          BY <2>2, <2>5, <5>1
        <5>3. i - 1 \in 1 .. Len(up') /\ up'[i - 1] = up[i]
          BY <1>1, <2>2, <5>2
        <5>. QED BY <5>1, <5>3 DEF Acked
      <4>. QED BY <1>2, <3>2, <4>1, <4>2
    <3>. QED BY <3>1, <3>2
  <2>. QED BY <1>8, <2>3, <2>4, <2>5 DEF StreamerReceives
<1>9. CASE Clk
  BY <1>9, ClkIsTrouble
<1>10. CASE ClientReceives
  <2>1. /\ down # <<>> /\ UNCHANGED <<subscriber, open>>
    BY <1>10 DEF ClientReceives, streamer
  <2>2. subscriber' # "absent"
    BY <1>2, <2>1
  <2>3. PICK m : m = down[1]
    OBVIOUS
  <2>4. /\ m \in DownMessages /\ Len(down) >= 1 /\ Len(down') = Len(down) - 1
        /\ \A i \in 1 .. Len(down') : down'[i] = down[i + 1]
        /\ m.mdata = <<>> => UNCHANGED up
        /\ down' \in Seq(DownMessages)
    BY <1>10, <2>3, Received
  <2>5. m.mdata # <<>> => \E r \in Seq(UpMessages) : up' = (up \o r) \o Acks(m)
    BY <1>10, <2>3, Received
  <2>6. Acks(m) \in Seq(UpMessages) /\ (m.type = "update" => Acked(Acks(m)))
    <3>1. [type |-> "ack"] \in UpMessages
      BY DEF UpMessages
    <3>2. m.type = "update" => Len(Acks(m)) = 1 /\ Acks(m)[1].type = "ack"
      BY DEF Acks
    <3>. QED BY <3>1, <3>2 DEF Acks, Acked
  <2>7. Acked(up) => Acked(up')
    <3>1. CASE m.mdata = <<>>
      BY <2>4, <3>1
    <3>2. CASE m.mdata # <<>>
      <4>1. PICK q \in Seq(UpMessages) : up' = (up \o q) \o Acks(m)
        BY <2>5, <3>2
      <4>2. up \o q \in Seq(UpMessages)
        BY <1>1, <4>1
      <4>. QED BY <1>1, <1>6, <2>6, <4>1, <4>2
    <3>. QED BY <3>1, <3>2
  <2>8. Shows(down) => Shows(down') \/ Acked(up')
    <3>1. SUFFICES ASSUME Shows(down) PROVE Shows(down') \/ Acked(up')
      OBVIOUS
    <3>2. PICK i \in 1 .. Len(down) : down[i].type = "update"
      BY <3>1 DEF Shows
    <3>3. CASE i = 1
      <4>1. m.type = "update"
        BY <2>3, <3>2, <3>3
      <4>2. m.mdata # <<>>
        BY <2>3, <3>2, <3>3 DEF MessagesFit
      <4>3. PICK q \in Seq(UpMessages) : up' = (up \o q) \o Acks(m)
        BY <2>5, <4>2
      <4>4. up \o q \in Seq(UpMessages)
        BY <1>1, <4>3
      <4>. QED BY <1>1, <1>6, <2>6, <4>1, <4>3, <4>4
    <3>4. CASE i # 1
      <4>1. i - 1 \in 1 .. Len(down') /\ down'[i - 1] = down[i]
        BY <1>1, <2>4, <3>4
      <4>. QED BY <3>2, <4>1 DEF Shows
    <3>. QED BY <3>3, <3>4
  <2>. QED BY <1>2, <2>1, <2>2, <2>7, <2>8
<1>11. ASSUME AskForAll, UNCHANGED <<subscriber, down>>,
              \A c \in Consoles : last'[c] \in {0, last[c]}
       PROVE  Still
  <2>1. Acked(up) => Acked(up')
    <3>1. /\ Len(up') = Len(up) + 2 /\ \A i \in 1 .. Len(up) : up'[i] = up[i]
      BY <1>11, AskIs
    <3>2. ASSUME NEW i \in 1 .. Len(up)
          PROVE  i \in 1 .. Len(up')
      BY <1>1, <3>1
    <3>. QED BY <3>1, <3>2 DEF Acked
  <2>. QED BY <1>2, <1>11, <2>1
<1>12. ASSUME NEW c \in Consoles, Open(c)
       PROVE  Still
  <2>1. last \in [Consoles -> 0 .. written] /\ last' = [last EXCEPT ![c] = 0]
    BY <1>12 DEF Open, TypeOK
  <2>2. \A e \in Consoles : last'[e] \in {0, last[e]}
    BY <2>1
  <2>. QED BY <1>11, <1>12, <2>2 DEF Open, streamer
<1>13. CASE Reconnect
  BY <1>11, <1>13 DEF Reconnect, streamer
<1>14. ASSUME NEW c \in Consoles, Close(c)
       PROVE  Still
  <2>1. last \in [Consoles -> 0 .. written] /\ last' = [last EXCEPT ![c] = 0]
        /\ UNCHANGED <<subscriber, up, down>>
    BY <1>14 DEF Close, TypeOK, streamer, channels
  <2>2. \A e \in Consoles : last'[e] \in {0, last[e]}
    BY <2>1
  <2>. QED BY <1>2, <2>1, <2>2
<1>15. CASE UNCHANGED vars
  BY <1>2, <1>15 DEF vars, streamer, channels, client
<1>. QED
  <2>1. ~Lose
    BY TroubleGrows
  <2>. QED BY <1>7, <1>8, <1>9, <1>10, <1>12, <1>13, <1>14, <1>15, <2>1 DEF Next

\* The output was asked for from the start, and after the updates.
LEMMA AsksStep ==
  ASSUME ConsoleStreamingAssumption, TypeOK, BufferOK, PrintedOK, MessagesFit, [Next]_vars,
         AsksAfter, Subscribed, trouble' = 0, ~ClientDies,
         ClientReceives => (down[1].mdata # <<>> => Misses(down[1]) = {})
  PROVE  AsksAfter'
<1> DEFINE Updates(q, i) == \E j \in 1 .. i - 1 : q[j].type = "request_updates"
<1>1. up \in Seq(UpMessages) /\ Len(up) \in Nat
  BY DEF TypeOK
<1>2. \A i \in 1 .. Len(up) : up[i].type = "request" =>
        up[i].start = 0 /\ (subscriber # "absent" \/ Updates(up, i))
  BY DEF AsksAfter
<1>3. SUFFICES ASSUME NEW i \in 1 .. Len(up'), up'[i].type = "request"
               PROVE  up'[i].start = 0 /\ (subscriber' # "absent" \/ Updates(up', i))
  BY DEF AsksAfter
<1>4. CASE UNCHANGED up /\ (subscriber # "absent" => subscriber' # "absent")
  BY <1>2, <1>3, <1>4
<1>5. CASE StreamerReceives
  <2>1. up # <<>> /\ up' = Tail(up)
    BY <1>5 DEF StreamerReceives
  <2>2. /\ Head(up) = up[1] /\ Len(up) >= 1 /\ Len(up') = Len(up) - 1
        /\ \A k \in 1 .. Len(up) - 1 : up'[k] = up[k + 1]
    BY <1>1, <2>1, TailIs
  <2>3. i + 1 \in 1 .. Len(up) /\ up'[i] = up[i + 1]
    BY <1>1, <2>2
  <2>4. up'[i].start = 0 /\ (subscriber # "absent" \/ Updates(up, i + 1))
    BY <1>2, <1>3, <2>3
  <2>5. subscriber # "absent" => subscriber' # "absent"
    BY <1>5 DEF StreamerReceives, UpdatesRequested, UpdateAcknowledged, Requested
  <2>6. ASSUME subscriber = "absent", subscriber' = "absent"
        PROVE  Updates(up', i)
    <3>1. PICK j \in 1 .. (i + 1) - 1 : up[j].type = "request_updates"
      BY <2>4, <2>6
    <3>2. j # 1
      <4>1. up[1].type # "request_updates"
        BY <1>5, <2>2, <2>6 DEF StreamerReceives, UpdatesRequested
      <4>. QED BY <3>1, <4>1
    <3>3. j - 1 \in 1 .. i - 1 /\ up'[j - 1] = up[j]
      BY <1>1, <2>2, <2>3, <3>2
    <3>. QED BY <3>1, <3>3
  <2>. QED BY <2>4, <2>5, <2>6
<1>6. ASSUME AskForAll, UNCHANGED subscriber
      PROVE  up'[i].start = 0 /\ (subscriber' # "absent" \/ Updates(up', i))
  <2>1. /\ Len(up') = Len(up) + 2
        /\ \A k \in 1 .. Len(up) : up'[k] = up[k]
        /\ up'[Len(up) + 1] = [type |-> "request_updates"]
        /\ up'[Len(up) + 2] = Request(0)
    BY <1>6, AskIs
  <2>2. i \in 1 .. Len(up) \/ i = Len(up) + 1 \/ i = Len(up) + 2
    BY <1>1, <2>1
  <2>3. CASE i \in 1 .. Len(up)
    <3>1. \A j \in 1 .. i - 1 : up'[j] = up[j]
      BY <1>1, <2>1, <2>3
    <3>. QED BY <1>2, <1>3, <1>6, <2>1, <2>3, <3>1
  <2>4. CASE i = Len(up) + 1
    BY <1>3, <2>1, <2>4
  <2>5. CASE i = Len(up) + 2
    <3>1. Len(up) + 1 \in 1 .. i - 1
      BY <1>1, <2>5
    <3>2. Request(0).start = 0
      BY DEF Request
    <3>. QED BY <2>1, <2>5, <3>1, <3>2
  <2>. QED BY <2>2, <2>3, <2>4, <2>5
<1>7. CASE ClientReceives
  <2>1. UNCHANGED subscriber
    BY <1>7 DEF ClientReceives, streamer
  <2>2. down[1].mdata # <<>> => up' = up \o Acks(down[1])
    BY <1>7, Received
  <2>3. down[1].mdata = <<>> => UNCHANGED up
    BY <1>7, Received
  <2>4. CASE down[1].mdata = <<>>
    BY <1>4, <2>1, <2>3, <2>4
  <2>5. CASE down[1].mdata # <<>>
    <3>1. PICK a : a = Acks(down[1])
      OBVIOUS
    <3>7. a \in Seq(UpMessages)
      <4>1. [type |-> "ack"] \in UpMessages
        BY DEF UpMessages
      <4>2. Acks(down[1]) \in Seq(UpMessages)
        BY <4>1 DEF Acks
      <4>. QED BY <3>1, <4>2
    <3>2. \A k \in 1 .. Len(a) : a[k].type = "ack"
      BY <3>1 DEF Acks
    <3>3. up' = up \o a
      BY <2>2, <2>5, <3>1
    <3>4. /\ Len(up') = Len(up) + Len(a) /\ Len(a) \in Nat
          /\ \A k \in 1 .. Len(up) : up'[k] = up[k]
          /\ \A k \in 1 .. Len(a) : up'[Len(up) + k] = a[k]
      BY <1>1, <3>3, <3>7, JoinIs
    <3>5. i \in 1 .. Len(up)
      <4>1. SUFFICES ASSUME i > Len(up) PROVE FALSE
        BY <1>1, <3>4
      <4>2. i - Len(up) \in 1 .. Len(a) /\ Len(up) + (i - Len(up)) = i
        BY <1>1, <3>4, <4>1
      <4>. QED BY <1>3, <3>2, <3>4, <4>2
    <3>6. \A j \in 1 .. i - 1 : up'[j] = up[j]
      BY <1>1, <3>4, <3>5
    <3>. QED BY <1>2, <1>3, <2>1, <3>4, <3>5, <3>6
  <2>. QED BY <2>4, <2>5
<1>8. CASE Write
  <2>1. UNCHANGED up
    BY <1>8 DEF Write
  <2>2. subscriber # "absent" => subscriber' # "absent"
    BY <1>8 DEF Write
  <2>. QED BY <1>4, <2>1, <2>2
<1>9. CASE Reconnect
  BY <1>6, <1>9 DEF Reconnect, streamer
<1>10. ASSUME NEW c \in Consoles, Open(c)
       PROVE  up'[i].start = 0 /\ (subscriber' # "absent" \/ Updates(up', i))
  BY <1>6, <1>10 DEF Open, streamer
<1>11. ASSUME NEW c \in Consoles, Close(c)
       PROVE  up'[i].start = 0 /\ (subscriber' # "absent" \/ Updates(up', i))
  BY <1>4, <1>11 DEF Close, streamer, channels
<1>12. CASE UNCHANGED vars
  BY <1>4, <1>12 DEF vars, streamer, channels
<1>. QED
  <2>1. ~Lose
    BY TroubleGrows
  <2>2. ~Clk
    BY ClkIsTrouble
  <2>. QED BY <1>5, <1>7, <1>8, <1>9, <1>10, <1>11, <1>12, <2>1, <2>2 DEF Next

\* The message that comes next.
LEMMA HeadIs ==
  ASSUME TypeOK, MessagesFit, down # <<>>
  PROVE  down[1] \in DownMessages /\ Fits(down[1]) /\ Head(down) = down[1]
<1>1. /\ down \in Seq(DownMessages) /\ down[1] \in DownMessages /\ Head(down) = down[1]
      /\ Len(down) \in Nat /\ Len(down) >= 1
  BY TailIs DEF TypeOK
<1>2. 1 \in 1 .. Len(down)
  BY <1>1
<1>. QED BY <1>1, <1>2 DEF MessagesFit

\* What a console gets of a message.
LEMMA Gets ==
  ASSUME ConsoleStreamingAssumption, TypeOK, MessagesFit, NothingMissed, down # <<>>,
         NEW m, m = down[1], m.mdata # <<>>, NEW c \in open
  PROVE  /\ last[c] = 0 => Takes(m, c) /\ Given(m, c) = m.data
         /\ last[c] # 0 /\ m.type = "update" =>
              /\ last[c] = Newest(m) - 1 /\ Takes(m, c) /\ Given(m, c) = m.data
         /\ last[c] # 0 /\ m.type = "data" => last[c] = Newest(m) /\ ~Takes(m, c)
         /\ ~Takes(m, c) => last[c] = Newest(m)
         /\ Takes(m, c) => ~Disturbs(m, c) /\ (last[c] = 0 \/ ~Overruns(m, last[c]))
<1>1. /\ m \in DownMessages /\ Fits(m) /\ down # <<>>
  BY HeadIs
<1>2. m.type \in {"update", "data"} /\ m.data \in Seq(Bytes) /\ m.mdata \in Places
  BY <1>1 DEF DownMessages
<1>3. /\ Newest(m) \in 1 .. written /\ First(m) \in 1 .. Newest(m)
      /\ m.type = "update" => Len(m.mdata) = 1 /\ m.mdata[1][2] = 0
  BY <1>1 DEF Fits
<1>4. written \in Nat /\ MaxMark \in Nat /\ written < MaxMark
  BY LengthsFit
<1>5. PICK n \in Nat : n = Newest(m) /\ 1 <= n /\ n < MaxMark
  BY <1>3, <1>4
<1>6. PICK f \in Nat : f = First(m) /\ 1 <= f /\ f <= n
  BY <1>3, <1>5
<1>7. last[c] \in Nat /\ (last[c] # 0 => last[c] = Prior(m)) /\ After(m) = n
  BY <1>1, <1>4, <1>5 DEF TypeOK, NothingMissed, Seen, After
<1>8. CASE last[c] = 0
  BY <1>8 DEF Takes, Given, Disturbs
<1>9. CASE last[c] # 0 /\ m.type = "update"
  <2>1. last[c] = n - 1 /\ n >= 2
    BY <1>5, <1>7, <1>9 DEF Prior
  <2>2. f = n /\ m.mdata[1][1] = n
    BY <1>3, <1>5, <1>6, <1>9 DEF First, Newest
  <2>3. Before(n) = n - 1 /\ InMarkRange(n - 1, n - 1, n - 1) /\ ~InMarkRange(n, n, n - 1)
    BY <1>5, <2>1 DEF Before, InMarkRange
  <2>4. Takes(m, c)
    BY <1>5, <1>6, <2>1, <2>2, <2>3 DEF Takes, Helps
  <2>5. Old(m, last[c]) = {}
    BY <1>3, <1>5, <1>9, <2>1, <2>2, <2>3 DEF Old
  <2>6. Skipped(m, last[c]) = 0
    <3>1. Skipped(m, last[c]) = Starts(m, {})
      BY <2>5 DEF Skipped
    <3>. QED BY <3>1, NothingToSkip
  <2>9. ~Overruns(m, last[c])
    BY <1>2, <2>6 DEF Overruns
  <2>10. Known(m, last[c]) = 0
    <3> DEFINE new == {i \in 1 .. Len(m.mdata) : last[c] < m.mdata[i][1]}
    <3>1. 1 .. Len(m.mdata) = {1}
      <4>1. Len(m.mdata) = 1
        BY <1>3, <1>9
      <4>. QED BY <4>1
    <3>2. last[c] < m.mdata[1][1]
      BY <1>5, <2>1, <2>2
    <3>3. new = {1}
      BY <3>1, <3>2
    <3> HIDE DEF new
    <3>4. Min(new) = 1
      <4>1. new \in SUBSET Nat /\ new # {}
        BY <3>3
      <4>2. Min(new) \in new
        BY <4>1, MinIn
      <4>. QED BY <3>3, <4>2
    <3>. QED BY <1>3, <1>9, <3>3, <3>4 DEF Known, new
  <2>7. Given(m, c) = SubSeq(m.data, 0 + 1, Len(m.data))
    BY <1>9, <2>6, <2>9 DEF Given
  <2>8. SubSeq(m.data, 0 + 1, Len(m.data)) = m.data
    BY <1>2
  <2>. QED BY <1>5, <1>9, <2>1, <2>4, <2>6, <2>7, <2>8, <2>9, <2>10 DEF Disturbs
<1>10. CASE last[c] # 0 /\ m.type = "data"
  <2>1. last[c] = n
    BY <1>7, <1>10 DEF Prior
  <2>2. ~InMarkRange(Before(f), Before(n), n)
    BY <1>4, <1>5, <1>6 DEF InMarkRange, Before
  <2>3. ~Takes(m, c)
    BY <1>5, <1>6, <1>10, <2>1, <2>2 DEF Takes, Helps
  <2>. QED BY <1>5, <1>10, <2>1, <2>3
<1>. QED BY <1>2, <1>8, <1>9, <1>10

\* A console that does not take a message is past it, and nothing is requested again.
LEMMA NothingIsMissing ==
  ASSUME ConsoleStreamingAssumption, TypeOK, MessagesFit, NothingMissed, ClientReceives,
         down[1].mdata # <<>>
  PROVE  Misses(down[1]) = {}
<1>1. \A c \in open : ~Takes(down[1], c) => last[c] = Newest(down[1])
  BY Gets DEF ClientReceives
<1>. QED BY <1>1 DEF Misses

\* Nothing is read beyond the end of a message.
LEMMA NobodyDies ==
  ASSUME ConsoleStreamingAssumption, TypeOK, MessagesFit, NothingMissed
  PROVE  ~ClientDies
<1> SUFFICES ASSUME ClientDies PROVE FALSE
  OBVIOUS
<1>1. /\ down # <<>> /\ Head(down).mdata # <<>>
      /\ \E c \in open : last[c] # 0 /\ Takes(Head(down), c) /\ Overruns(Head(down), last[c])
  BY DEF ClientDies
<1>2. Head(down) = down[1]
  BY <1>1, HeadIs
<1>3. PICK c \in open : last[c] # 0 /\ Takes(down[1], c) /\ Overruns(down[1], last[c])
  BY <1>1, <1>2
<1>. QED BY <1>1, <1>2, <1>3, Gets

\* No console is disturbed.
LEMMA UndisturbedStep ==
  ASSUME ConsoleStreamingAssumption, TypeOK, MessagesFit, [Next]_vars, NothingMissed, Undisturbed,
         trouble' = 0, ~ClientDies
  PROVE  Undisturbed'
<1>1. CASE ClientReceives
  <2>1. PICK m : m = down[1]
    OBVIOUS
  <2>2. /\ m.mdata = <<>> => UNCHANGED disturbed
        /\ m.mdata # <<>> =>
             \A c \in Consoles :
               disturbed'[c] = IF (c \in open /\ Takes(m, c)) /\ Disturbs(m, c)
                               THEN Newest(m) ELSE disturbed[c]
    BY <1>1, <2>1, Received
  <2>3. m.mdata # <<>> => \A c \in open : Takes(m, c) => ~Disturbs(m, c)
    BY <1>1, <2>1, Gets DEF ClientReceives
  <2>. QED BY <2>2, <2>3 DEF Undisturbed
<1>2. CASE Write \/ StreamerReceives \/ Clk
  BY <1>2 DEF Write, StreamerReceives, Clk, client, Undisturbed
<1>3. ASSUME NEW c \in Consoles, Open(c) \/ Close(c)
      PROVE  Undisturbed'
  BY <1>3 DEF Open, Close, Undisturbed, TypeOK
<1>4. CASE Reconnect
  BY <1>4 DEF Reconnect, Undisturbed
<1>5. CASE UNCHANGED vars
  BY <1>5 DEF vars, client, Undisturbed
<1>. QED
  <2>1. ~Lose
    BY TroubleGrows
  <2>. QED BY <1>1, <1>2, <1>3, <1>4, <1>5, <2>1 DEF Next

\* Every console that has begun is where the messages under way go on.
LEMMA MissedStep ==
  ASSUME ConsoleStreamingAssumption, TypeOK, BufferOK, PrintedOK, MessagesFit, [Next]_vars, InTurn,
         NothingMissed, Subscribed, Shown, trouble' = 0, ~ClientDies
  PROVE  NothingMissed'
<1>1. down \in Seq(DownMessages) /\ Len(down) \in Nat /\ last \in [Consoles -> 0 .. written]
      /\ written \in Nat
  BY LengthsFit DEF TypeOK
<1>2. CASE ClientReceives
  <2>1. PICK m : m = down[1]
    OBVIOUS
  <2>2. /\ m \in DownMessages /\ Len(down) >= 1 /\ Fits(m)
        /\ down' \in Seq(DownMessages) /\ Len(down') = Len(down) - 1
        /\ \A i \in 1 .. Len(down') : down'[i] = down[i + 1]
        /\ m.mdata = <<>> => UNCHANGED last
        /\ m.mdata # <<>> =>
             \A c \in Consoles :
               last'[c] = IF c \in open /\ Takes(m, c) THEN Newest(m) ELSE last[c]
    BY <1>2, <2>1, Received
  <2>3. down # <<>> /\ UNCHANGED written
    BY <1>2 DEF ClientReceives, streamer
  <2>4. Seen' = After(m)
    <3>1. CASE down' = <<>>
      <4>1. Len(down) = 1
        BY <1>1, <2>2, <3>1
      <4>. QED BY <2>1, <2>3, <3>1, <4>1 DEF InTurn, Seen
    <3>2. CASE down' # <<>>
      <4>1. 1 \in 1 .. Len(down') /\ 1 \in 1 .. Len(down) - 1
        BY <1>1, <2>2, <3>2
      <4>2. down'[1] = down[1 + 1] /\ Prior(down[1 + 1]) = After(down[1])
        BY <2>2, <4>1 DEF InTurn
      <4>. QED BY <2>1, <3>2, <4>2 DEF Seen
    <3>. QED BY <3>1, <3>2
  <2>5. Seen = Prior(m)
    BY <2>1, <2>3 DEF Seen
  <2>6. CASE m.mdata = <<>>
    <3>1. m.type = "data"
      <4>1. 1 \in 1 .. Len(down)
        BY <1>1, <2>2
      <4>. QED BY <2>1, <2>2, <2>6, <4>1 DEF MessagesFit, DownMessages
    <3>2. Seen = Seen'
      BY <2>4, <2>5, <3>1 DEF Prior
    <3>. QED BY <2>2, <2>6, <3>2 DEF NothingMissed
  <2>7. CASE m.mdata # <<>>
    <3>1. After(m) = Newest(m)
      BY <2>7 DEF After
    <3>2. ASSUME NEW c \in Consoles, last'[c] # 0
          PROVE  last'[c] = Newest(m)
      <4>1. CASE c \in open
        BY <2>1, <2>2, <2>3, <2>7, <4>1, Gets
      <4>2. CASE c \notin open
        BY <2>2, <2>7, <3>2, <4>2 DEF Shown, ConsoleOK
      <4>. QED BY <4>1, <4>2
    <3>. QED BY <2>4, <3>1, <3>2 DEF NothingMissed
  <2>. QED BY <2>6, <2>7
<1>3. CASE ~ClientReceives
  <2>1. \A c \in Consoles : last'[c] \in {0, last[c]}
    <3>1. CASE Write \/ StreamerReceives \/ Clk
      BY <3>1 DEF Write, StreamerReceives, Clk, client
    <3>2. ASSUME NEW c \in Consoles, Open(c) \/ Close(c)
          PROVE  \A e \in Consoles : last'[e] \in {0, last[e]}
      <4>1. last' = [last EXCEPT ![c] = 0]
        BY <3>2 DEF Open, Close
      <4>. QED BY <1>1, <4>1
    <3>3. CASE Reconnect
      BY <3>3 DEF Reconnect
    <3>4. CASE UNCHANGED vars
      BY <3>4 DEF vars, client
    <3>5. ~Lose
      BY TroubleGrows
    <3>. QED BY <1>3, <3>1, <3>2, <3>3, <3>4, <3>5 DEF Next
  <2>2. Seen' = Seen \/ \A c \in Consoles : last[c] = 0
    <3>1. CASE UNCHANGED down /\ (UNCHANGED <<written, printed>> \/ subscriber = "absent")
      BY <3>1 DEF Seen, Subscribed
    <3>2. ASSUME NEW m \in DownMessages, down' = Append(down, m), Prior(m) = written
          PROVE  Seen' = Seen
      <4>1. /\ Len(down') = Len(down) + 1 /\ \A i \in 1 .. Len(down) : down'[i] = down[i]
            /\ down'[Len(down) + 1] = m /\ down' # <<>>
        BY <1>1, <3>2, AppendIs
      <4>2. CASE down = <<>>
        <5>1. Len(down) + 1 = 1
          BY <4>2
        <5>. QED BY <3>2, <4>1, <4>2, <5>1 DEF Seen
      <4>3. CASE down # <<>>
        <5>1. 1 \in 1 .. Len(down)
          BY <1>1, <4>3
        <5>. QED BY <4>1, <4>3, <5>1 DEF Seen
      <4>. QED BY <4>2, <4>3
    <3>3. ASSUME NEW m \in DownMessages, down' = Append(down, m), m.type = "data",
                 After(m) = written', UNCHANGED <<written, printed>>
          PROVE  Seen' = Seen
      BY <3>2, <3>3 DEF Prior
    <3>4. ASSUME NEW m \in DownMessages, down' = Append(down, m), m.type = "update",
                 After(m) = written', written' = written + 1
          PROVE  Seen' = Seen
      <4>1. Prior(m) = written
        BY <1>1, <3>4 DEF Prior
      <4>. QED BY <3>2, <3>4, <4>1
    <3>. QED BY <1>3, <3>1, <3>3, <3>4, DownStep
  <2>. QED BY <2>1, <2>2 DEF NothingMissed
<1>. QED BY <1>2, <1>3

\* A console that takes a message lacks its last chunk and none before its first.
LEMMA Helped ==
  ASSUME ConsoleStreamingAssumption, TypeOK, NEW m \in DownMessages, Fits(m), m.mdata # <<>>,
         NEW c \in Consoles, last[c] # 0, Takes(m, c)
  PROVE  /\ last[c] \in Nat /\ Newest(m) \in Nat /\ First(m) \in Nat
         /\ First(m) - 1 <= last[c] /\ last[c] < Newest(m)
<1>1. written \in Nat /\ MaxMark \in Nat /\ written < MaxMark
  BY LengthsFit
<1>2. Newest(m) \in 1 .. written /\ First(m) \in 1 .. Newest(m)
  BY DEF Fits
<1>3. last[c] \in 1 .. written
  BY <1>1 DEF TypeOK
<1>4. PICK n \in Nat : n = Newest(m) /\ 1 <= n /\ n < MaxMark
  BY <1>1, <1>2
<1>5. PICK f \in Nat : f = First(m) /\ 1 <= f /\ f <= n
  BY <1>2, <1>4
<1>6. PICK l \in Nat : l = last[c] /\ 1 <= l /\ l < MaxMark
  BY <1>1, <1>3
<1>7. InMarkRange(Before(f), Before(n), l)
  BY <1>4, <1>5, <1>6 DEF Takes, Helps
<1>8. f - 1 <= l /\ l < n
  <2>1. CASE f = 1 /\ n = 1
    BY <1>1, <1>6, <1>7, <2>1 DEF InMarkRange, Before
  <2>2. CASE f = 1 /\ n # 1
    BY <1>1, <1>4, <1>6, <1>7, <2>2 DEF InMarkRange, Before
  <2>3. CASE f # 1
    <3>1. Before(f) = f - 1 /\ Before(n) = n - 1 /\ f - 1 <= n - 1
      BY <1>4, <1>5, <2>3 DEF Before
    <3>2. l \in f - 1 .. n - 1
      BY <1>7, <3>1 DEF InMarkRange
    <3>. QED BY <1>4, <1>5, <1>6, <3>2
  <2>. QED BY <2>1, <2>2, <2>3
<1>. QED BY <1>4, <1>5, <1>6, <1>8

\* When exactly the known chunks are skipped the console gets what it lacks.
LEMMA GetsRest ==
  ASSUME ConsoleStreamingAssumption, TypeOK, NEW m \in DownMessages, Fits(m), m.mdata # <<>>,
         NEW c \in Consoles, last[c] # 0, Takes(m, c), ~Disturbs(m, c)
  PROVE  printed[Newest(m)] = printed[last[c]] \o Given(m, c)
<1> DEFINE new == {i \in 1 .. Len(m.mdata) : last[c] < m.mdata[i][1]}
<1>1. PICK l \in Nat : l = last[c]
  BY Helped
<1>2. PICK n \in Nat : n = Newest(m)
  BY Helped
<1>3. PICK f \in Nat : f = First(m)
  BY Helped
<1>4. f - 1 <= l /\ l < n
  BY <1>1, <1>2, <1>3, Helped
<1>5. \A i \in 1 .. Len(m.mdata) : Begins(m, i)
  BY DEF Fits
<1>6. PICK k \in Nat : k = Len(m.mdata) /\ k >= 1
  <2>1. m.mdata \in Places
    BY DEF DownMessages
  <2>. QED BY <2>1 DEF Places
<1>7. \A i \in 1 .. k : m.mdata[i][1] = f + i - 1
  BY <1>3, <1>5, <1>6 DEF Begins
<1>8. n = f + k - 1
  <2>1. k \in 1 .. k
    BY <1>6
  <2>2. m.mdata[k][1] = n
    BY <1>2, <1>6 DEF Newest
  <2>. QED BY <1>7, <2>1, <2>2
<1>9. l - f + 2 \in 1 .. k
  BY <1>4, <1>6, <1>8
<1>10. l - f + 2 \in new
  <2>1. m.mdata[l - f + 2][1] = f + (l - f + 2) - 1
    BY <1>7, <1>9
  <2>2. l < f + (l - f + 2) - 1
    OBVIOUS
  <2>3. last[c] < m.mdata[l - f + 2][1]
    BY <1>1, <2>1, <2>2
  <2>. QED BY <1>6, <1>9, <2>3
<1>11. \A i \in new : i \in 1 .. k /\ i >= l - f + 2
  <2>1. ASSUME NEW i \in new
        PROVE  i \in 1 .. k /\ i >= l - f + 2
    <3>1. i \in 1 .. k /\ l < f + i - 1
      BY <1>1, <1>6, <1>7, <2>1
    <3>. QED BY <3>1
  <2>. QED BY <2>1
<1> HIDE DEF new
<1>12. PICK i \in 1 .. k : i = Min(new) /\ i = l - f + 2
  <2>1. new \in SUBSET Nat /\ new # {}
    BY <1>10, <1>11
  <2>2. Min(new) \in new /\ Min(new) <= l - f + 2
    BY <1>10, <2>1, MinIn
  <2>3. Min(new) \in 1 .. k /\ Min(new) >= l - f + 2
    BY <1>11, <2>2
  <2>. QED BY <2>2, <2>3
<1>13. m.mdata[i][1] = l + 1
  BY <1>7, <1>12
<1>14. PICK o \in 0 .. Len(m.data) : o = m.mdata[i][2]
  BY <1>5, <1>6 DEF Begins
<1>15. printed[n] = printed[l] \o SubSeq(m.data, o + 1, Len(m.data))
  <2>1. m.mdata[i][1] - 1 = l
    BY <1>13
  <2>. QED BY <1>2, <1>5, <1>6, <1>14, <2>1 DEF Begins
<1>16. Skipped(m, last[c]) = o
  <2>1. Known(m, last[c]) = o
    <3>1. new # {}
      BY <1>10
    <3>. QED BY <1>12, <1>14, <3>1 DEF Known, new
  <2>. QED BY <2>1 DEF Disturbs
<1>17. Given(m, c) = SubSeq(m.data, o + 1, Len(m.data))
  <2>1. ~Overruns(m, last[c])
    BY <1>16 DEF Overruns
  <2>. QED BY <1>16, <2>1 DEF Given
<1>. QED BY <1>1, <1>2, <1>15, <1>17

\* One after the other.
LEMMA ConcatAssociates ==
  ASSUME NEW a \in Seq(Bytes), NEW b \in Seq(Bytes), NEW x \in Seq(Bytes)
  PROVE  (a \o b) \o x = a \o (b \o x)
OBVIOUS

\* What comes after the first of two.
LEMMA AfterFirst ==
  ASSUME NEW q \in Seq(Bytes), NEW r \in Seq(Bytes)
  PROVE  SubSeq(q \o r, Len(q) + 1, Len(q \o r)) = r
<1>1. /\ Len(q) \in Nat /\ Len(r) \in Nat /\ q \o r \in Seq(Bytes)
      /\ Len(q \o r) = Len(q) + Len(r)
      /\ \A i \in 1 .. Len(r) : (q \o r)[Len(q) + i] = r[i]
  BY ConcatIs
<1> DEFINE a == q \o r
           b == SubSeq(a, Len(q) + 1, Len(a))
<1> HIDE DEF a
<1>2. b \in Seq(Bytes) /\ Len(b) = Len(r) /\ \A i \in 1 .. Len(r) : b[i] = a[Len(q) + i]
  BY <1>1 DEF a
<1> HIDE DEF b
<1>3. b = r
  BY <1>1, <1>2 DEF a
<1>. QED BY <1>3 DEF a, b

\* A console goes on with what it lacks.
LEMMA GoesOn ==
  ASSUME NEW p \in Seq(Bytes), NEW r \in Seq(Bytes), NEW x \in Seq(Bytes),
         NEW g \in Seq(Bytes)
  PROVE  /\ (p \o r) \o x = p \o (r \o x) /\ r \o x \in Seq(Bytes)
         /\ IsSuffix(g, r) => IsSuffix(g \o x, r \o x)
         /\ IsSuffix(r, g) => IsSuffix(r \o x, g \o x)
<1>1. r \o x \in Seq(Bytes)
  BY ConcatIs
<1>2. (p \o r) \o x = p \o (r \o x)
  BY ConcatAssociates
<1>3. IsSuffix(g, r) => IsSuffix(g \o x, r \o x)
  BY SuffixConcat
<1>4. IsSuffix(r, g) => IsSuffix(r \o x, g \o x)
  BY SuffixConcat
<1>. QED BY <1>1, <1>2, <1>3, <1>4

\* What a console shows goes on being the end of the output up to its last chunk, from
\* where it was last disturbed.
LEMMA ShownStep ==
  ASSUME ConsoleStreamingAssumption, TypeOK, BufferOK, MessagesFit, [Next]_vars, Shown
  PROVE  Shown'
<1>1. /\ last \in [Consoles -> 0 .. written] /\ disturbed \in [Consoles -> 0 .. written]
      /\ written \in Nat /\ printed[0] = <<>>
      /\ \A k \in 0 .. written : printed[k] \in Seq(Bytes)
      /\ given \in [Consoles -> Seq(Bytes)] /\ open \subseteq Consoles
  BY LengthsFit DEF TypeOK
<1>2. \A k \in 0 .. written : printed'[k] = printed[k]
  <2>1. CASE Write
    BY <2>1, Writes
  <2>2. CASE UNCHANGED <<buffer, output, written, printed>>
    BY <2>2
  <2>. QED BY <2>1, <2>2, OnlyWrite
<1>3. printed'[0] = <<>>
  BY <1>1, <1>2
<1>4. \A c \in Consoles : ConsoleOK(c)
  BY DEF Shown
<1>5. ASSUME NEW c \in Consoles, UNCHANGED <<last[c], given[c], disturbed[c]>>,
             c \notin open' => last[c] = 0
      PROVE  ConsoleOK(c)'
  <2>1. last[c] \in 0 .. written /\ disturbed[c] \in 0 .. written
    BY <1>1
  <2>2. printed'[last[c]] = printed[last[c]] /\ printed'[disturbed[c]] = printed[disturbed[c]]
    BY <1>2, <2>1
  <2>3. \A r : Got(c, r)' <=> Got(c, r)
    BY <1>5, <2>2 DEF Got
  <2>4. \E r \in Seq(Bytes) : Got(c, r)'
    BY <1>4, <2>3 DEF ConsoleOK
  <2>5. last[c] = 0 => given[c] = <<>> /\ disturbed[c] = 0
    BY <1>4 DEF ConsoleOK
  <2>. QED BY <1>5, <2>4, <2>5 DEF ConsoleOK
<1>6. ASSUME NEW c \in Consoles, last'[c] = 0, given'[c] = <<>>, disturbed'[c] = 0
      PROVE  ConsoleOK(c)'
  <2>1. <<>> \in Seq(Bytes) /\ <<>> \o <<>> = <<>>
    OBVIOUS
  <2>2. IsSuffix(<<>>, <<>>)
    BY <2>1, EmptyIsSuffix
  <2>3. Got(c, <<>>)'
    BY <1>3, <1>6, <2>1, <2>2 DEF Got
  <2>. QED BY <1>6, <2>1, <2>3 DEF ConsoleOK
<1>7. CASE UNCHANGED client
  <2>1. ASSUME NEW c \in Consoles
        PROVE  ConsoleOK(c)'
    <3>1. UNCHANGED <<last[c], given[c], disturbed[c], open>>
      BY <1>7 DEF client
    <3>. QED BY <1>4, <1>5, <3>1 DEF ConsoleOK
  <2>. QED BY <2>1 DEF Shown
<1>8. CASE ClientReceives
  <2>1. PICK m : m = down[1]
    OBVIOUS
  <2>2. /\ m \in DownMessages /\ Fits(m)
        /\ m.mdata = <<>> => UNCHANGED <<last, given, disturbed>>
        /\ m.mdata # <<>> =>
             /\ Newest(m) \in 1 .. written
             /\ \A c \in Consoles :
                  /\ last'[c] = IF c \in open /\ Takes(m, c) THEN Newest(m) ELSE last[c]
                  /\ given'[c] = IF c \in open /\ Takes(m, c) THEN given[c] \o Given(m, c)
                                 ELSE given[c]
                  /\ disturbed'[c] = IF (c \in open /\ Takes(m, c)) /\ Disturbs(m, c)
                                     THEN Newest(m) ELSE disturbed[c]
    BY <1>8, <2>1, Received
  <2>3. UNCHANGED <<open, written, printed>>
    BY <1>8 DEF ClientReceives, streamer
  <2>4. SUFFICES ASSUME NEW c \in Consoles PROVE ConsoleOK(c)'
    BY DEF Shown
  <2>5. CASE m.mdata = <<>> \/ c \notin open \/ ~Takes(m, c)
    <3>1. UNCHANGED <<last[c], given[c], disturbed[c]>>
      BY <2>2, <2>5
    <3>. QED BY <1>4, <1>5, <2>3, <3>1 DEF ConsoleOK
  <2>6. CASE m.mdata # <<>> /\ c \in open /\ Takes(m, c)
    <3>1. PICK n \in 1 .. written : n = Newest(m)
      BY <2>2, <2>6
    <3>2. n \in 0 .. written /\ n # 0
      BY <1>1, <3>1
    <3>3. PICK x \in Seq(Bytes) : x = Given(m, c)
      <4>1. m.data \in Seq(Bytes)
        BY <2>2 DEF DownMessages
      <4>. QED BY <4>1, GivenIs
    <3>4. PICK g \in Seq(Bytes) : g = given[c]
      BY <1>1
    <3>5. /\ last'[c] = n /\ given'[c] = g \o x
          /\ disturbed'[c] = IF Disturbs(m, c) THEN n ELSE disturbed[c]
      BY <2>2, <2>6, <3>1, <3>3, <3>4
    <3>6. printed'[n] = printed[n] /\ printed[n] \in Seq(Bytes)
      BY <1>1, <1>2, <3>2
    <3>7. PICK r \in Seq(Bytes) : Got(c, r)
      BY <1>4 DEF ConsoleOK
    <3>8. SUFFICES \E y \in Seq(Bytes) : Got(c, y)'
      BY <2>3, <2>6, <3>2, <3>5 DEF ConsoleOK
    <3>9. CASE Disturbs(m, c)
      <4>1. g \o x \in Seq(Bytes) /\ <<>> \in Seq(Bytes)
        BY ConcatIs
      <4>2. IsSuffix(<<>>, g \o x)
        BY <4>1, EmptyIsSuffix
      <4>3. printed[n] = printed[n] \o <<>>
        BY <3>6
      <4>4. Got(c, <<>>)'
        BY <3>2, <3>5, <3>6, <3>9, <4>2, <4>3 DEF Got
      <4>. QED BY <4>1, <4>4
    <3>10. CASE ~Disturbs(m, c) /\ last[c] = 0
      <4>1. given[c] = <<>> /\ disturbed[c] = 0
        BY <1>4, <3>10 DEF ConsoleOK
      <4>2. m.data \in Seq(Bytes) /\ IsSuffix(m.data, printed[n])
        BY <2>2, <2>6, <3>1 DEF DownMessages, Fits
      <4>3. x = m.data
        BY <3>3, <3>10 DEF Given
      <4>4. <<>> \o x = x
        OBVIOUS
      <4>5. given'[c] = x /\ disturbed'[c] = 0
        BY <3>4, <3>5, <3>10, <4>1, <4>4
      <4>6. <<>> \o printed[n] = printed[n]
        BY <3>6
      <4>7. Got(c, printed[n])'
        <5>1. printed'[n] = printed'[0] \o printed[n]
          BY <1>3, <3>6, <4>6
        <5>2. IsSuffix(x, printed[n])
          BY <4>2, <4>3
        <5>3. Got(c, printed[n])' <=>
                /\ printed'[last'[c]] = printed'[disturbed'[c]] \o printed'[n]
                /\ IF disturbed'[c] = 0 THEN IsSuffix(given'[c], printed'[n])
                   ELSE IsSuffix(printed'[n], given'[c])
          BY DEF Got
        <5>. QED BY <3>5, <3>6, <4>5, <5>1, <5>2, <5>3
      <4>8. printed[n]' \in Seq(Bytes)
        BY <3>6
      <4>. QED BY <4>7, <4>8
    <3>11. CASE ~Disturbs(m, c) /\ last[c] # 0
      <4>1. printed[n] = printed[last[c]] \o x
        BY <2>2, <2>6, <3>1, <3>3, <3>11, GetsRest
      <4>2. PICK p0 \in Seq(Bytes) : p0 = printed[disturbed[c]] /\ p0 = printed'[disturbed[c]]
        <5>1. disturbed[c] \in 0 .. written
          BY <1>1
        <5>. QED BY <1>1, <1>2, <5>1
      <4>3. printed[n] = (p0 \o r) \o x
        BY <3>7, <4>1, <4>2 DEF Got
      <4>4. /\ (p0 \o r) \o x = p0 \o (r \o x) /\ r \o x \in Seq(Bytes)
            /\ IsSuffix(g, r) => IsSuffix(g \o x, r \o x)
            /\ IsSuffix(r, g) => IsSuffix(r \o x, g \o x)
        BY GoesOn
      <4>5. PICK y \in Seq(Bytes) : y = r \o x
        BY <4>4
      <4>6. printed'[last'[c]] = printed'[disturbed'[c]] \o y
        BY <3>5, <3>6, <3>11, <4>2, <4>3, <4>4, <4>5
      <4>7. IF disturbed'[c] = 0 THEN IsSuffix(given'[c], y) ELSE IsSuffix(y, given'[c])
        BY <3>4, <3>5, <3>7, <3>11, <4>4, <4>5 DEF Got
      <4>8. Got(c, y)'
        BY <4>6, <4>7 DEF Got
      <4>. QED BY <4>5, <4>8
    <3>. QED BY <3>9, <3>10, <3>11
  <2>. QED BY <2>5, <2>6
<1>9. ASSUME NEW c \in Consoles, Open(c) \/ Close(c)
      PROVE  Shown'
  <2>1. /\ last' = [last EXCEPT ![c] = 0] /\ given' = [given EXCEPT ![c] = <<>>]
        /\ disturbed' = [disturbed EXCEPT ![c] = 0] /\ open \ {c} \subseteq open'
    BY <1>9 DEF Open, Close
  <2>2. ASSUME NEW e \in Consoles
        PROVE  ConsoleOK(e)'
    <3>1. CASE e = c
      BY <1>1, <1>6, <2>1, <3>1
    <3>2. CASE e # c
      <4>1. UNCHANGED <<last[e], given[e], disturbed[e]>> /\ (e \notin open' => e \notin open)
        BY <1>1, <2>1, <3>2
      <4>. QED BY <1>4, <1>5, <4>1 DEF ConsoleOK
    <3>. QED BY <3>1, <3>2
  <2>. QED BY <2>2 DEF Shown
<1>10. CASE Reconnect \/ ClientDies
  <2>1. /\ last' = [c \in Consoles |-> 0] /\ given' = [c \in Consoles |-> <<>>]
        /\ disturbed' = [c \in Consoles |-> 0]
    BY <1>10 DEF Reconnect, ClientDies
  <2>2. ASSUME NEW c \in Consoles
        PROVE  ConsoleOK(c)'
    BY <1>6, <2>1
  <2>. QED BY <2>2 DEF Shown
<1>11. CASE Write \/ StreamerReceives \/ Clk \/ Lose \/ UNCHANGED vars
  BY <1>7, <1>11 DEF Write, StreamerReceives, Clk, Lose, vars
<1>. QED BY <1>8, <1>9, <1>10, <1>11 DEF Next

-----------------------------------------------------------------------------
(* The theorems.                                                           *)

\* The invariant holds in every behaviour.
THEOREM Inductive == Spec => []IInv
<1>1. Init => IInv
  BY ConsoleStreamingAssumption, InitInvariant
<1>2. IInv /\ [Next]_vars => IInv'
  <2> SUFFICES ASSUME IInv, [Next]_vars PROVE IInv'
    OBVIOUS
  <2>1. TypeOK /\ BufferOK /\ PrintedOK /\ MessagesFit /\ Shown
    BY DEF IInv
  <2>2. TypeOK' /\ BufferOK' /\ PrintedOK' /\ MessagesFit' /\ Shown'
    BY <2>1, ConsoleStreamingAssumption, TypeStep, BufferStep, PrintedStep, FitsStep, ShownStep
  <2>3. ASSUME trouble' = 0
        PROVE  WithoutTrouble'
    <3>1. WithoutTrouble
      BY <2>1, <2>3, TroubleGrows DEF IInv
    <3>2. InTurn /\ NothingMissed /\ Subscribed /\ AsksAfter /\ Undisturbed
      BY <3>1 DEF WithoutTrouble
    <3>3. ClientReceives => (down[1].mdata # <<>> => Misses(down[1]) = {})
      BY <2>1, <3>2, ConsoleStreamingAssumption, NothingIsMissing
    <3>4. ~ClientDies
      BY <2>1, <3>2, ConsoleStreamingAssumption, NobodyDies
    <3>5. InTurn' /\ NothingMissed'
      BY <2>1, <2>3, <3>2, <3>4, ConsoleStreamingAssumption, TurnStep, MissedStep
    <3>6. Subscribed' /\ Undisturbed'
      BY <2>1, <2>3, <3>2, <3>4, ConsoleStreamingAssumption, SubscribedStep, UndisturbedStep
    <3>7. AsksAfter'
      BY <2>1, <2>3, <3>2, <3>3, <3>4, ConsoleStreamingAssumption, AsksStep
    <3>. QED BY <3>5, <3>6, <3>7 DEF WithoutTrouble
  <2>. QED BY <2>2, <2>3 DEF IInv
<1>. QED BY <1>1, <1>2, PTL DEF Spec

\* All that the streamer and the client keep has its type, marks included.
THEOREM TypeCorrect == Spec => []TypeOK
BY Inductive, PTL DEF IInv

\* Whatever chunks are written, wherever the ring wraps and grows: the buffer holds the
\* latest chunks and, from the start of each, exactly the bytes that were printed
\* (ConsoleStreamBuffer.append_chunk and get_chunks).
THEOREM BufferKeepsTheEnd == Spec => []BufferHoldsTail
<1>1. IInv => BufferHoldsTail
  BY ConsoleStreamingAssumption, HeldIsTail DEF IInv
<1>. QED BY <1>1, Inductive, PTL

\* However messages are lost, and openings, closings and reconnections interleave with the
\* output: a console shows the output from some chunk on without gap or repetition, from
\* the last repair of a loss on at which the known chunks were not skipped properly; and
\* without a loss there is no such repair (ConsoleStreamer and the client's
\* console_data_received).
THEOREM ConsolesShowInOrder == Spec => []ShownInOrder
<1>1. IInv => ShownInOrder
  <2> SUFFICES ASSUME IInv, NEW c \in open
               PROVE  /\ trouble = 0 => disturbed[c] = 0
                      /\ IF disturbed[c] = 0 THEN IsSuffix(given[c], Since(c))
                         ELSE IsSuffix(Since(c), given[c])
    BY DEF ShownInOrder
  <2>1. /\ c \in Consoles /\ written \in Nat
        /\ last[c] \in 0 .. written /\ disturbed[c] \in 0 .. written
        /\ \A k \in 0 .. written : printed[k] \in Seq(Bytes)
    BY ConsoleStreamingAssumption, LengthsFit DEF IInv, TypeOK
  <2>2. PICK r \in Seq(Bytes) : Got(c, r)
    BY <2>1 DEF IInv, Shown, ConsoleOK
  <2>3. Since(c) = r
    <3>1. PICK q \in Seq(Bytes) : q = printed[disturbed[c]]
      BY <2>1
    <3>2. printed[last[c]] = q \o r
      BY <2>2, <3>1 DEF Got
    <3>3. SubSeq(q \o r, Len(q) + 1, Len(q \o r)) = r
      BY AfterFirst
    <3>. QED BY <3>1, <3>2, <3>3 DEF Since
  <2>4. trouble = 0 => disturbed[c] = 0
    BY <2>1 DEF IInv, WithoutTrouble, Undisturbed
  <2>. QED BY <2>2, <2>3, <2>4 DEF Got
<1>. QED BY <1>1, Inductive, PTL

=============================================================================
