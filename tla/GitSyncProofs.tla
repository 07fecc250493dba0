----------------------------- MODULE GitSyncProofs -----------------------------
(***************************************************************************)
(* What is proved about the way from a write to origin, for every number   *)
(* of writes, calls, drains, pulls, commits of others and failures.        *)
(*                                                                         *)
(* First the dispatcher (WriteDispatcher): nothing accepted is lost, a     *)
(* call is one commit, and it keeps the promise of CommitPromise.  Then    *)
(* the git strategy behind it (GitSync), which rests on that: a pull       *)
(* merges over no write without a commit, what is not on origin is waited  *)
(* for, and a shutdown leaves nothing unsaid.                              *)
(***************************************************************************)
EXTENDS GitSync, SequenceTheorems, TLAPS

-----------------------------------------------------------------------------
(* The dispatcher.                                                         *)

-----------------------------------------------------------------------------
(* Queues, seen as what they hold and in which order.                      *)

Sorted(q) ==
  \A i, j \in DOMAIN q : (i < j /\ q[i] \in Write /\ q[j] \in Write) => q[i] < q[j]

(* No element of W stands behind an occurrence of x.                       *)
Behind(q, x, W) == \A i, j \in DOMAIN q : (q[i] = x /\ q[j] \in W) => j < i

Distinct(q) == \A i, j \in DOMAIN q : q[i] = q[j] => i = j

LEMMA HoldsOnly ==
  ASSUME NEW S, NEW q \in Seq(S)
  PROVE  ToSet(q) \subseteq S
<1>1. DOMAIN q = 1..Len(q)
  BY LenProperties
<1>2. QED
  BY <1>1, ElementOfSeq DEF ToSet

(* put() adds its element to what a queue holds, behind everything else.   *)
LEMMA AppendHolds ==
  ASSUME NEW S, NEW q \in Seq(S), NEW e \in S
  PROVE  /\ Append(q, e) \in Seq(S)
         /\ ToSet(Append(q, e)) = ToSet(q) \cup {e}
<1>1. /\ Append(q, e) \in Seq(S)
      /\ Len(Append(q, e)) = Len(q) + 1
      /\ \A i \in 1..Len(q) : Append(q, e)[i] = q[i]
      /\ Append(q, e)[Len(q) + 1] = e
      /\ Append(q, e) # << >>
  BY AppendProperties
<1>2. /\ Len(q) \in Nat
      /\ DOMAIN q = 1..Len(q)
      /\ DOMAIN Append(q, e) = 1..(Len(q) + 1)
  BY <1>1, LenProperties
<1>3. QED
  BY <1>1, <1>2 DEF ToSet

(* A queue whose writes are in order stays so when a later one is put.     *)
LEMMA AppendSorted ==
  ASSUME NEW S, NEW q \in Seq(S), NEW e \in S, Sorted(q),
         e \in Write => \A x \in ToSet(q) \cap Write : x < e
  PROVE  Sorted(Append(q, e))
<1>1. /\ Append(q, e) \in Seq(S)
      /\ Len(Append(q, e)) = Len(q) + 1
      /\ \A i \in 1..Len(q) : Append(q, e)[i] = q[i]
      /\ Append(q, e)[Len(q) + 1] = e
  BY AppendProperties
<1>2. /\ Len(q) \in Nat
      /\ DOMAIN q = 1..Len(q)
      /\ DOMAIN Append(q, e) = 1..(Len(q) + 1)
  BY <1>1, LenProperties
<1>3. \A i \in 1..Len(q) : q[i] \in ToSet(q)
  BY <1>2 DEF ToSet
<1>4. QED
  BY <1>1, <1>2, <1>3 DEF Sorted

(* What stood in front of x stands there still, unless the element put is  *)
(* one of those that must not come behind x.                               *)
LEMMA AppendBehind ==
  ASSUME NEW S, NEW q \in Seq(S), NEW e \in S, NEW x, NEW W, Behind(q, x, W),
         e \in W => x \notin ToSet(q) \cup {e}
  PROVE  Behind(Append(q, e), x, W)
<1>1. /\ Append(q, e) \in Seq(S)
      /\ Len(Append(q, e)) = Len(q) + 1
      /\ \A i \in 1..Len(q) : Append(q, e)[i] = q[i]
      /\ Append(q, e)[Len(q) + 1] = e
  BY AppendProperties
<1>2. /\ Len(q) \in Nat
      /\ DOMAIN q = 1..Len(q)
      /\ DOMAIN Append(q, e) = 1..(Len(q) + 1)
  BY <1>1, LenProperties
<1>3. \A i \in 1..Len(q) : q[i] \in ToSet(q)
  BY <1>2 DEF ToSet
<1>4. QED
  BY <1>1, <1>2, <1>3 DEF Behind

LEMMA AppendDistinct ==
  ASSUME NEW S, NEW q \in Seq(S), NEW e \in S, Distinct(q), e \notin ToSet(q)
  PROVE  Distinct(Append(q, e))
<1>1. /\ Append(q, e) \in Seq(S)
      /\ Len(Append(q, e)) = Len(q) + 1
      /\ \A i \in 1..Len(q) : Append(q, e)[i] = q[i]
      /\ Append(q, e)[Len(q) + 1] = e
  BY AppendProperties
<1>2. /\ Len(q) \in Nat
      /\ DOMAIN q = 1..Len(q)
      /\ DOMAIN Append(q, e) = 1..(Len(q) + 1)
  BY <1>1, LenProperties
<1>3. \A i \in 1..Len(q) : q[i] \in ToSet(q)
  BY <1>2 DEF ToSet
<1>4. QED
  BY <1>1, <1>2, <1>3 DEF Distinct

(* get() takes the first element away and keeps the order of the others.   *)
LEMMA TailHolds ==
  ASSUME NEW S, NEW q \in Seq(S), q # << >>
  PROVE  /\ Head(q) \in S
         /\ Tail(q) \in Seq(S)
         /\ ToSet(q) = {Head(q)} \cup ToSet(Tail(q))
         /\ Sorted(q) =>
              /\ Sorted(Tail(q))
              /\ Head(q) \in Write => \A x \in ToSet(Tail(q)) \cap Write : Head(q) < x
         /\ Distinct(q) => Distinct(Tail(q)) /\ Head(q) \notin ToSet(Tail(q))
<1>1. /\ Head(q) \in S
      /\ Tail(q) \in Seq(S)
      /\ Len(Tail(q)) = Len(q) - 1
      /\ \A i \in 1..Len(Tail(q)) : Tail(q)[i] = q[i + 1]
  BY HeadTailProperties
<1>2. Head(q) = q[1]
  OBVIOUS
<1>3. /\ Len(q) \in Nat \ {0}
      /\ DOMAIN q = 1..Len(q)
      /\ DOMAIN Tail(q) = 1..(Len(q) - 1)
  BY <1>1, LenProperties, EmptySeq
<1>4. ToSet(q) = {Head(q)} \cup ToSet(Tail(q))
  <2>1. ASSUME NEW i \in 1..Len(q), i # 1
        PROVE  i - 1 \in 1..(Len(q) - 1) /\ Tail(q)[i - 1] = q[i]
    BY <1>1, <1>3, <2>1
  <2>2. ASSUME NEW i \in 1..(Len(q) - 1)
        PROVE  i + 1 \in 1..Len(q) /\ Tail(q)[i] = q[i + 1]
    BY <1>1, <1>3
  <2>3. ASSUME NEW x \in ToSet(q), x # Head(q)
        PROVE  x \in ToSet(Tail(q))
    <3>1. PICK i \in 1..Len(q) : q[i] = x
      BY <1>3 DEF ToSet
    <3>2. i - 1 \in 1..(Len(q) - 1) /\ Tail(q)[i - 1] = x
      BY <1>2, <2>1, <2>3, <3>1
    <3>3. QED
      BY <1>3, <3>2 DEF ToSet
  <2>4. ASSUME NEW x \in ToSet(Tail(q))
        PROVE  x \in ToSet(q)
    BY <1>3, <2>2 DEF ToSet
  <2>5. Head(q) \in ToSet(q)
    BY <1>2, <1>3 DEF ToSet
  <2>6. QED
    BY <2>3, <2>4, <2>5
<1>5. ASSUME NEW i \in DOMAIN Tail(q)
      PROVE  i + 1 \in DOMAIN q /\ 1 \in DOMAIN q /\ 1 < i + 1 /\ Tail(q)[i] = q[i + 1]
  BY <1>1, <1>3
<1>6. ASSUME Sorted(q) PROVE Sorted(Tail(q))
  BY <1>3, <1>5, <1>6 DEF Sorted
<1>7. ASSUME Sorted(q), Head(q) \in Write
      PROVE  \A x \in ToSet(Tail(q)) \cap Write : Head(q) < x
  BY <1>2, <1>5, <1>7 DEF Sorted, ToSet
<1>8. ASSUME Distinct(q) PROVE Distinct(Tail(q))
  BY <1>3, <1>5, <1>8 DEF Distinct
<1>9. ASSUME Distinct(q) PROVE Head(q) \notin ToSet(Tail(q))
  BY <1>2, <1>3, <1>5, <1>9 DEF Distinct, ToSet
<1>10. QED
  BY <1>1, <1>4, <1>6, <1>7, <1>8, <1>9

LEMMA TailBehind ==
  ASSUME NEW S, NEW q \in Seq(S), q # << >>, NEW x, NEW W, Behind(q, x, W)
  PROVE  /\ Behind(Tail(q), x, W)
         /\ Head(q) = x => ToSet(q) \cap W = {}
<1>1. /\ Tail(q) \in Seq(S)
      /\ Len(Tail(q)) = Len(q) - 1
      /\ \A i \in 1..Len(Tail(q)) : Tail(q)[i] = q[i + 1]
  BY HeadTailProperties
<1>2. Head(q) = q[1]
  OBVIOUS
<1>3. /\ Len(q) \in Nat \ {0}
      /\ DOMAIN q = 1..Len(q)
      /\ DOMAIN Tail(q) = 1..(Len(q) - 1)
  BY <1>1, LenProperties, EmptySeq
<1>4. ASSUME NEW i \in DOMAIN Tail(q)
      PROVE  i + 1 \in DOMAIN q /\ Tail(q)[i] = q[i + 1]
  BY <1>1, <1>3
<1>5. Behind(Tail(q), x, W)
  BY <1>3, <1>4 DEF Behind
<1>6. ASSUME Head(q) = x PROVE ToSet(q) \cap W = {}
  BY <1>2, <1>3, <1>6 DEF Behind, ToSet
<1>7. QED
  BY <1>5, <1>6

(* Popping a token leaves the others in the dict, each once.               *)
LEMMA WithoutHolds ==
  ASSUME NEW S, NEW q \in Seq(S), Distinct(q), NEW s \in ToSet(q)
  PROVE  /\ Without(q, s) \in Seq(S)
         /\ Distinct(Without(q, s))
         /\ ToSet(Without(q, s)) = ToSet(q) \ {s}
<1> DEFINE k == CHOOSE i \in DOMAIN q : q[i] = s
           front == SubSeq(q, 1, k - 1)
           back == SubSeq(q, k + 1, Len(q))
           w == Without(q, s)
<1>1. /\ Len(q) \in Nat
      /\ DOMAIN q = 1..Len(q)
  BY LenProperties
<1>2. k \in 1..Len(q) /\ q[k] = s
  BY <1>1 DEF ToSet
<1>3. w = front \o back
  BY DEF Without, RemoveAt
<1> HIDE DEF k
<1>4. /\ front \in Seq(S) /\ Len(front) = k - 1
      /\ \A i \in 1..(k - 1) : front[i] = q[i]
  <2>1. \A i \in 1..(k - 1) : q[i] \in S
    BY <1>1, <1>2, ElementOfSeq
  <2>2. 1 \in Int /\ k - 1 \in Int
    BY <1>1, <1>2
  <2>3. /\ front \in Seq(S)
        /\ Len(front) = IF 1 <= k - 1 THEN (k - 1) - 1 + 1 ELSE 0
        /\ \A i \in 1..((k - 1) - 1 + 1) : front[i] = q[1 + i - 1]
    BY <2>1, <2>2, SubSeqProperties
  <2>4. QED
    BY <1>1, <1>2, <2>3
<1>5. /\ back \in Seq(S) /\ Len(back) = Len(q) - k
      /\ \A i \in 1..(Len(q) - k) : back[i] = q[k + i]
  <2>1. \A i \in (k + 1)..Len(q) : q[i] \in S
    BY <1>1, <1>2, ElementOfSeq
  <2>2. k + 1 \in Int /\ Len(q) \in Int
    BY <1>1, <1>2
  <2>3. /\ back \in Seq(S)
        /\ Len(back) = IF k + 1 <= Len(q) THEN Len(q) - (k + 1) + 1 ELSE 0
        /\ \A i \in 1..(Len(q) - (k + 1) + 1) : back[i] = q[(k + 1) + i - 1]
    BY <2>1, <2>2, SubSeqProperties
  <2> HIDE DEF front, back, w
  <2>4. Len(back) = Len(q) - k
    <3>1. CASE k + 1 <= Len(q)
      BY <1>1, <1>2, <2>3, <3>1
    <3>2. CASE ~(k + 1 <= Len(q))
      <4>1. k \in Int /\ Len(q) \in Int /\ k <= Len(q)
        BY <1>1, <1>2
      <4>2. k = Len(q)
        BY <3>2, <4>1
      <4>3. QED
        BY <1>1, <2>3, <3>2, <4>2
    <3>3. QED
      BY <3>1, <3>2
  <2>5. ASSUME NEW i \in 1..(Len(q) - k)
        PROVE  back[i] = q[k + i]
    <3>1. i \in 1..(Len(q) - (k + 1) + 1) /\ (k + 1) + i - 1 = k + i
      BY <1>1, <1>2
    <3>2. QED
      BY <2>3, <3>1
  <2>6. QED
    BY <2>3, <2>4, <2>5
<1> HIDE DEF front, back, w
<1>6. /\ w \in Seq(S) /\ DOMAIN w = 1..(Len(q) - 1)
      /\ \A i \in 1..(Len(q) - 1) : w[i] = IF i < k THEN q[i] ELSE q[i + 1]
  <2>1. /\ w \in Seq(S) /\ Len(w) = Len(front) + Len(back)
        /\ \A i \in 1..(Len(front) + Len(back)) :
             w[i] = IF i <= Len(front) THEN front[i] ELSE back[i - Len(front)]
    BY <1>3, <1>4, <1>5, ConcatProperties
  <2>2. DOMAIN w = 1..(Len(q) - 1)
    BY <1>1, <1>2, <1>4, <1>5, <2>1, LenProperties
  <2>3. ASSUME NEW i \in 1..(Len(q) - 1)
        PROVE  w[i] = IF i < k THEN q[i] ELSE q[i + 1]
    <3>1. i \in 1..(Len(front) + Len(back))
      BY <1>1, <1>2, <1>4, <1>5
    <3>2. CASE i < k
      <4>1. i <= Len(front) /\ i \in 1..(k - 1)
        BY <1>1, <1>2, <1>4, <3>2
      <4>2. QED
        BY <1>4, <2>1, <3>1, <3>2, <4>1
    <3>3. CASE ~(i < k)
      <4>1. /\ ~(i <= Len(front)) /\ i - Len(front) \in 1..(Len(q) - k)
            /\ k + (i - Len(front)) = i + 1
        BY <1>1, <1>2, <1>4, <3>3
      <4>2. back[i - Len(front)] = q[k + (i - Len(front))]
        BY <1>5, <4>1
      <4>3. QED
        BY <2>1, <3>1, <3>3, <4>1, <4>2
    <3>4. QED
      BY <3>2, <3>3
  <2>4. QED
    BY <2>1, <2>2, <2>3
<1>7. Distinct(w)
  <2>1. ASSUME NEW i \in 1..(Len(q) - 1)
        PROVE  /\ i \in DOMAIN q /\ i + 1 \in DOMAIN q
               /\ w[i] = IF i < k THEN q[i] ELSE q[i + 1]
    BY <1>1, <1>6
  <2>2. SUFFICES ASSUME NEW i \in 1..(Len(q) - 1), NEW j \in 1..(Len(q) - 1), w[i] = w[j]
                 PROVE  i = j
    BY <1>6 DEF Distinct
  <2>3. \A m, n \in DOMAIN q : q[m] = q[n] => m = n
    BY DEF Distinct
  <2>4. CASE i < k /\ j < k
    BY <2>1, <2>2, <2>3, <2>4
  <2>5. CASE i < k /\ ~(j < k)
    <3>1. i = j + 1
      BY <2>1, <2>2, <2>3, <2>5
    <3>2. QED
      BY <1>1, <1>2, <2>5, <3>1
  <2>6. CASE ~(i < k) /\ j < k
    <3>1. i + 1 = j
      BY <2>1, <2>2, <2>3, <2>6
    <3>2. QED
      BY <1>1, <1>2, <2>6, <3>1
  <2>7. CASE ~(i < k) /\ ~(j < k)
    <3>1. i + 1 = j + 1
      BY <2>1, <2>2, <2>3, <2>7
    <3>2. QED
      BY <3>1
  <2>8. QED
    BY <2>4, <2>5, <2>6, <2>7
<1>8. ASSUME NEW x \in ToSet(w) PROVE x \in ToSet(q) \ {s}
  <2>1. PICK i \in 1..(Len(q) - 1) : w[i] = x
    BY <1>6 DEF ToSet
  <2>2. PICK j \in 1..Len(q) : q[j] = x /\ j # k
    <3>1. CASE i < k
      BY <1>1, <1>2, <1>6, <2>1, <3>1
    <3>2. CASE ~(i < k)
      <4>1. i + 1 \in 1..Len(q) /\ i + 1 # k
        BY <1>1, <1>2, <3>2
      <4>2. QED
        BY <1>6, <2>1, <3>2, <4>1
    <3>3. QED
      BY <3>1, <3>2
  <2>3. x # s
    BY <1>1, <1>2, <2>2 DEF Distinct
  <2>4. QED
    BY <1>1, <2>2, <2>3 DEF ToSet
<1>9. ASSUME NEW x \in ToSet(q) \ {s} PROVE x \in ToSet(w)
  <2>1. PICK i \in 1..Len(q) : q[i] = x
    BY <1>1 DEF ToSet
  <2>2. i # k
    BY <1>2, <2>1
  <2>3. PICK j \in 1..(Len(q) - 1) : w[j] = x
    <3>1. CASE i < k
      BY <1>1, <1>2, <1>6, <2>1, <3>1
    <3>2. CASE i > k
      <4>1. i - 1 \in 1..(Len(q) - 1) /\ ~(i - 1 < k)
        BY <1>1, <1>2, <3>2
      <4>2. w[i - 1] = q[(i - 1) + 1]
        BY <1>6, <4>1
      <4>3. QED
        BY <2>1, <4>1, <4>2
    <3>3. QED
      BY <1>1, <1>2, <2>2, <3>1, <3>2
  <2>4. QED
    BY <1>6, <2>3 DEF ToSet
<1>10. QED
  BY <1>6, <1>7, <1>8, <1>9 DEF w

-----------------------------------------------------------------------------
(* The inductive invariant.                                                *)

Queued(i) == i \in ToSet(queue)
Calling(i) == worker.pc = "calling" /\ worker.cause = i
Known(w) == fate[w] \in {"accepted", "handed"}

(* Writes are queued in the order they were fired, and nobody has handed   *)
(* over what is still queued.                                              *)
QueueInOrder ==
  /\ Sorted(queue)
  /\ \A w \in Write : Queued(w) => fate[w] = "accepted"
  /\ \A v, w \in Write : (v < w /\ fate[v] = "unfired") => fate[w] = "unfired"

(* What is buffered for a call is its own, accepted, and older than        *)
(* whatever is queued.                                                     *)
BuffersAreOlder ==
  \A s \in Scope : \A w \in ToSet(buffer[s]) :
    /\ fate[w] = "accepted" /\ scopeOf[w] = s
    /\ \A v \in Write : Queued(v) => w < v

(* An accepted write is in the queue or in the buffer of its call.         *)
AcceptedIsHeld ==
  \A w \in Write : fate[w] = "accepted" =>
    Queued(w) \/ (scopeOf[w] \in Scope /\ w \in ToSet(buffer[scopeOf[w]]))

(* The open calls are those with something in their buffer, and a flush    *)
(* has still to come to the calls of its list, each once; the flush of a   *)
(* marker or of the sentinel, to all that are open.                        *)
OpenIsBuffered ==
  /\ Distinct(open)
  /\ \A s \in Scope : s \in ToSet(open) <=> buffer[s] # << >>
  /\ worker.pc = "calling" =>
       /\ worker.cause \in Item
       /\ worker.rest # << >> => worker.cause \in Drainer \cup {Stop}
       /\ Distinct(worker.rest)
       /\ ToSet(worker.rest) \subseteq ToSet(open)
       /\ worker.cause \in Drainer \cup {Stop} => ToSet(open) \subseteq ToSet(worker.rest)

(* A marker stands behind the writes accepted before its drain; once it is *)
(* out of the queue they are, and once its event is set they were handed   *)
(* over.                                                                   *)
MarkersInOrder ==
  \A d \in Drainer :
    /\ drain[d] = "ready" => ~Queued(d) /\ d \notin event /\ ~Calling(d)
    /\ Behind(queue, d, before[d])
    /\ \A w \in before[d] : Known(w)
    /\ Calling(d) => \A w \in before[d] : ~Queued(w)
    /\ d \in event => \A w \in before[d] : fate[w] = "handed"

(* Nothing is accepted before the worker starts, nor behind the sentinel,  *)
(* and a worker that exited leaves nothing.                                *)
ShutInOrder ==
  /\ worker.pc = "unstarted" => \A w \in Write : ~Known(w)
  /\ closed <=> closer # "open"
  /\ Queued(Stop) => closed
  /\ Behind(queue, Stop, Write)
  /\ Calling(Stop) => closed /\ \A w \in Write : ~Queued(w)
  /\ worker.pc = "exited" => closed /\ Waiting = {}
  /\ worker.pc = "dead" => "died" \in late
  /\ (closer = "done" /\ "join" \notin late) => ~Alive

DispatcherInv ==
  /\ DispatcherTypeOK /\ QueueInOrder /\ BuffersAreOlder /\ AcceptedIsHeld
  /\ OpenIsBuffered /\ MarkersInOrder /\ ShutInOrder

LEMMA DispatcherStarts == DispatcherInit => DispatcherInv
<1> SUFFICES ASSUME DispatcherInit PROVE DispatcherInv
  OBVIOUS
<1> USE DEF DispatcherInit, Resting
<1>1. /\ queue = << >> /\ open = << >> /\ DOMAIN queue = {} /\ DOMAIN open = {}
      /\ ToSet(queue) = {} /\ ToSet(open) = {}
      /\ \A S : << >> \in Seq(S)
  BY EmptySeq DEF ToSet
<1>2. DispatcherTypeOK
  BY <1>1 DEF DispatcherTypeOK, Item
<1>3. QueueInOrder /\ BuffersAreOlder /\ AcceptedIsHeld
  BY <1>1, EmptySeq DEF QueueInOrder, BuffersAreOlder, AcceptedIsHeld, Sorted, Queued, ToSet
<1>4. OpenIsBuffered
  BY <1>1 DEF OpenIsBuffered, Distinct
<1>5. MarkersInOrder /\ ShutInOrder
  BY <1>1 DEF MarkersInOrder, ShutInOrder, Queued, Calling, Known, Behind
<1>6. QED
  BY <1>2, <1>3, <1>4, <1>5 DEF DispatcherInv

-----------------------------------------------------------------------------
(* The steps that do not touch the worker's hands.                         *)

LEMMA BuffersHoldWrites ==
  ASSUME DispatcherTypeOK, NEW s \in Scope
  PROVE  ToSet(buffer[s]) \subseteq Write
BY HoldsOnly DEF DispatcherTypeOK

LEMMA FireKeeps ==
  ASSUME DispatcherInv, NEW w \in Write, NEW s \in Scope \cup {None}, Fire(w, s)
  PROVE  DispatcherInv'
<1> USE DEF DispatcherInv, Queued, Calling, Known
<1>1. /\ fate[w] = "unfired"
      /\ \A v \in Write : fate'[v] = IF v # w THEN fate[v] ELSE IF closed THEN "refused" ELSE "accepted"
      /\ \A v \in Write \ {w} : scopeOf'[v] = scopeOf[v]
      /\ fate' \in [Write -> {"unfired", "refused", "accepted", "handed"}]
      /\ scopeOf' \in [Write -> Scope \cup {None}]
      /\ UNCHANGED <<open, buffer, closed, closer, drain, event, call, before, batches, forced, late>>
  BY DEF Fire, DispatcherTypeOK
<1>2. /\ \A t \in Scope : ToSet(buffer[t]) \subseteq Write
      /\ \A d \in Drainer : before[d] \subseteq Write
      /\ \A v \in Write : v \in Int
  BY BuffersHoldWrites DEF DispatcherTypeOK, Write
<1>3. /\ \A v \in Write : Queued(v) => v # w
      /\ \A t \in Scope : \A v \in ToSet(buffer[t]) : v \in Write /\ v # w
      /\ \A d \in Drainer : \A v \in before[d] : v \in Write /\ v # w
  BY <1>1, <1>2 DEF QueueInOrder, BuffersAreOlder, MarkersInOrder
<1>4. \A v \in Write : (v < w => fate[v] # "unfired") /\ (v > w => fate[v] = "unfired")
  BY <1>1, WritesAreCounted DEF Fire, QueueInOrder, Write
<1>5. \A v, x \in Write : (v < x /\ fate'[v] = "unfired") => fate'[x] = "unfired"
  <2> SUFFICES ASSUME NEW v \in Write, NEW x \in Write, v < x, fate'[v] = "unfired"
               PROVE  fate'[x] = "unfired"
    OBVIOUS
  <2>1. v # w /\ fate[v] = "unfired"
    BY <1>1
  <2>2. fate[x] = "unfired"
    BY <2>1 DEF QueueInOrder
  <2>3. x # w
    BY <1>4, <2>1
  <2>4. QED
    BY <1>1, <2>2, <2>3
<1>6. CASE closed
  <2>1. UNCHANGED <<queue, worker>>
    BY <1>6 DEF Fire
  <2>2. DispatcherTypeOK'
    BY <1>1, <2>1 DEF DispatcherTypeOK
  <2>3. QueueInOrder'
    BY <1>1, <1>3, <1>5, <2>1 DEF QueueInOrder
  <2>4. BuffersAreOlder'
    BY <1>1, <1>3, <2>1 DEF BuffersAreOlder
  <2>5. AcceptedIsHeld'
    BY <1>1, <1>6, <2>1 DEF AcceptedIsHeld
  <2>6. OpenIsBuffered'
    BY <1>1, <2>1 DEF OpenIsBuffered
  <2>7. MarkersInOrder'
    BY <1>1, <1>3, <2>1 DEF MarkersInOrder
  <2>8. ShutInOrder'
    BY <1>1, <1>6, <2>1 DEF ShutInOrder, Waiting, Alive
  <2>9. QED
    BY <2>2, <2>3, <2>4, <2>5, <2>6, <2>7, <2>8
<1>7. CASE ~closed
  <2>1. /\ w \in Item /\ queue \in Seq(Item) /\ queue' = Append(queue, w)
        /\ worker' = worker \/ (worker' = Resting /\ ~Alive)
        /\ worker' # worker \/ Alive
    BY <1>7 DEF Fire, DispatcherTypeOK, Item, Alive, Resting
  <2>2. queue' \in Seq(Item) /\ ToSet(queue') = ToSet(queue) \cup {w}
    BY <2>1, AppendHolds
  <2>3. \A v \in Write : Queued(v) => v < w
    BY <1>2, <1>3, <1>4 DEF QueueInOrder
  <2>4. \A t \in Scope : \A v \in ToSet(buffer[t]) : v < w
    BY <1>2, <1>3, <1>4 DEF BuffersAreOlder
  <2>5. DispatcherTypeOK'
    <3>1. worker' \in [pc : {"unstarted", "idle", "calling", "exited", "dead"},
                       batch : Seq(Write), rest : Seq(Scope), cause : Item \cup {None}]
      <4>1. << >> \in Seq(Write) /\ << >> \in Seq(Scope)
        BY EmptySeq
      <4>2. CASE worker' = worker
        BY <4>2 DEF DispatcherTypeOK
      <4>3. CASE worker' = Resting
        BY <4>1, <4>3 DEF Resting
      <4>4. QED
        BY <2>1, <4>2, <4>3
    <3>2. QED
      BY <1>1, <2>2, <3>1 DEF DispatcherTypeOK
  <2>6. QueueInOrder'
    <3>1. Sorted(queue')
      BY <2>1, <2>3, AppendSorted DEF QueueInOrder
    <3>2. QED
      BY <1>1, <1>5, <1>7, <2>2, <3>1 DEF QueueInOrder
  <2>7. BuffersAreOlder'
    BY <1>1, <1>3, <2>2, <2>4 DEF BuffersAreOlder
  <2>8. AcceptedIsHeld'
    BY <1>1, <2>2 DEF AcceptedIsHeld
  <2>9. OpenIsBuffered'
    BY <1>1, <2>1 DEF OpenIsBuffered, Resting
  <2>10. MarkersInOrder'
    <3> SUFFICES ASSUME NEW d \in Drainer
                 PROVE  /\ drain'[d] = "ready" => ~Queued(d)' /\ d \notin event' /\ ~Calling(d)'
                        /\ Behind(queue', d, before'[d])
                        /\ \A v \in before'[d] : Known(v)'
                        /\ Calling(d)' => \A v \in before'[d] : ~Queued(v)'
                        /\ d \in event' => \A v \in before'[d] : fate'[v] = "handed"
      BY DEF MarkersInOrder
    <3>1. d # w /\ w \notin before[d]
      BY <1>3, ItemsDiffer
    <3>2. Behind(queue', d, before[d])
      BY <2>1, <3>1, AppendBehind DEF MarkersInOrder
    <3>3. Calling(d)' => Calling(d)
      BY <2>1 DEF Resting
    <3>4. QED
      BY <1>1, <1>3, <2>2, <3>1, <3>2, <3>3 DEF MarkersInOrder
  <2>11. ShutInOrder'
    <3>1. w # Stop
      BY ItemsDiffer
    <3>2. Behind(queue', Stop, Write)
      BY <1>7, <2>1, <3>1, AppendBehind DEF ShutInOrder
    <3>3. worker'.pc \in {"idle", "calling"} /\ (Calling(Stop)' => Calling(Stop))
      BY <2>1 DEF Resting, Alive
    <3>4. QED
      BY <1>1, <1>7, <2>2, <3>1, <3>2, <3>3 DEF ShutInOrder, Alive
  <2>12. QED
    BY <2>5, <2>6, <2>7, <2>8, <2>9, <2>10, <2>11
<1>8. QED
  BY <1>6, <1>7

LEMMA EndKeeps ==
  ASSUME DispatcherInv, NEW s \in Scope,
         ReturnCall(s) \/ CancelCall(s) \/ ThreadEnds(s)
  PROVE  DispatcherInv'
<1> USE DEF DispatcherInv, Queued, Calling, Known
<1>1. /\ queue' = queue \/ queue' = Append(queue, s)
      /\ call' \in [Scope -> {"open", "returned", "cancelled", "abandoned"}]
      /\ UNCHANGED <<open, buffer, worker, closed, closer, drain, event, scopeOf, fate, before,
                     batches, forced, late>>
  BY DEF ReturnCall, CancelCall, ThreadEnds, EndScope, DispatcherTypeOK
<1>2. s \in Item /\ s \notin Write \cup Drainer \cup {Stop}
  BY ItemsDiffer DEF Item
<1>3. /\ queue' \in Seq(Item)
      /\ ToSet(queue') \subseteq ToSet(queue) \cup {s} /\ ToSet(queue) \subseteq ToSet(queue')
      /\ Sorted(queue')
      /\ \A d \in Drainer : Behind(queue', d, before[d])
      /\ Behind(queue', Stop, Write)
  <2>1. CASE queue' = queue
    BY <2>1 DEF DispatcherTypeOK, QueueInOrder, MarkersInOrder, ShutInOrder
  <2>2. CASE queue' = Append(queue, s)
    <3>1. queue \in Seq(Item) /\ before \in [Drainer -> SUBSET Write]
      BY DEF DispatcherTypeOK
    <3>2. queue' \in Seq(Item) /\ ToSet(queue') = ToSet(queue) \cup {s}
      BY <1>2, <2>2, <3>1, AppendHolds
    <3>3. Sorted(queue')
      BY <1>2, <2>2, <3>1, AppendSorted DEF QueueInOrder
    <3>4. ASSUME NEW d \in Drainer PROVE Behind(queue', d, before[d])
      BY <1>2, <2>2, <3>1, AppendBehind DEF MarkersInOrder
    <3>5. Behind(queue', Stop, Write)
      BY <1>2, <2>2, <3>1, AppendBehind DEF ShutInOrder
    <3>6. QED
      BY <3>2, <3>3, <3>4, <3>5
  <2>3. QED
    BY <1>1, <2>1, <2>2
<1>4. \A i \in Write \cup Drainer \cup {Stop} : i \in ToSet(queue') <=> i \in ToSet(queue)
  BY <1>2, <1>3
<1>5. DispatcherTypeOK'
  BY <1>1, <1>3 DEF DispatcherTypeOK
<1>6. QueueInOrder' /\ BuffersAreOlder' /\ AcceptedIsHeld'
  BY <1>1, <1>3, <1>4 DEF QueueInOrder, BuffersAreOlder, AcceptedIsHeld
<1>7. OpenIsBuffered'
  BY <1>1 DEF OpenIsBuffered
<1>8. MarkersInOrder'
  BY <1>1, <1>3, <1>4 DEF MarkersInOrder, DispatcherTypeOK
<1>9. ShutInOrder'
  BY <1>1, <1>3, <1>4 DEF ShutInOrder, Waiting, Alive
<1>10. QED
  BY <1>5, <1>6, <1>7, <1>8, <1>9

LEMMA DrainKeeps ==
  ASSUME DispatcherInv, NEW d \in Drainer,
         DrainBegins(d) \/ DrainReturns(d) \/ DrainTimesOut(d)
  PROVE  DispatcherInv'
<1> USE DEF DispatcherInv, Queued, Calling, Known
<1>1. CASE DrainReturns(d) \/ DrainTimesOut(d)
  <2>1. /\ drain[d] = "waiting" /\ drain' \in [Drainer -> {"ready", "waiting", "true", "false"}]
        /\ \A e \in Drainer : drain'[e] = "ready" => drain[e] = "ready"
        /\ UNCHANGED <<queue, open, buffer, worker, closed, closer, event, call, scopeOf, fate,
                       before, batches, forced, late>>
    BY <1>1 DEF DrainReturns, DrainTimesOut, DispatcherTypeOK
  <2>2. DispatcherTypeOK'
    BY <2>1 DEF DispatcherTypeOK
  <2>3. QueueInOrder' /\ BuffersAreOlder' /\ AcceptedIsHeld' /\ OpenIsBuffered'
    BY <2>1 DEF QueueInOrder, BuffersAreOlder, AcceptedIsHeld, OpenIsBuffered
  <2>4. MarkersInOrder' /\ ShutInOrder'
    BY <2>1 DEF MarkersInOrder, ShutInOrder, Waiting, Alive
  <2>5. QED
    BY <2>2, <2>3, <2>4
<1>2. CASE DrainBegins(d)
  <2>1. /\ drain[d] = "ready" /\ drain' \in [Drainer -> {"ready", "waiting", "true", "false"}]
        /\ \A e \in Drainer : drain'[e] = "ready" => drain[e] = "ready" /\ e # d
        /\ before' = [before EXCEPT ![d] = Accepted]
        /\ late \subseteq late' /\ late' \subseteq {"died", "join", "shut"}
        /\ "join" \in late' => "join" \in late
        /\ queue' = queue \/ queue' = Append(queue, d)
        /\ UNCHANGED <<open, buffer, worker, closed, closer, event, call, scopeOf, fate, batches,
                       forced>>
    BY <1>2 DEF DrainBegins, DispatcherTypeOK
  <2>2. /\ queue \in Seq(Item) /\ before \in [Drainer -> SUBSET Write] /\ Accepted \subseteq Write
        /\ d \in Item /\ d \notin Write \cup {Stop}
    BY ItemsDiffer DEF DispatcherTypeOK, Accepted, Item
  <2>3. /\ queue' \in Seq(Item)
        /\ ToSet(queue') \subseteq ToSet(queue) \cup {d} /\ ToSet(queue) \subseteq ToSet(queue')
        /\ Sorted(queue')
        /\ \A e \in Drainer : Behind(queue', e, before'[e])
        /\ Behind(queue', Stop, Write)
    <3>1. ASSUME NEW e \in Drainer PROVE Behind(queue, e, before'[e])
      <4>1. CASE e = d
        BY <2>1, <4>1 DEF MarkersInOrder, Behind, ToSet
      <4>2. CASE e # d
        BY <2>1, <2>2, <4>2 DEF MarkersInOrder
      <4>3. QED
        BY <4>1, <4>2
    <3>2. CASE queue' = queue
      BY <2>2, <3>1, <3>2 DEF QueueInOrder, ShutInOrder
    <3>3. CASE queue' = Append(queue, d)
      <4>1. queue' \in Seq(Item) /\ ToSet(queue') = ToSet(queue) \cup {d}
        BY <2>2, <3>3, AppendHolds
      <4>2. Sorted(queue')
        BY <2>2, <3>3, AppendSorted DEF QueueInOrder
      <4>3. ASSUME NEW e \in Drainer PROVE Behind(queue', e, before'[e])
        <5>1. d \notin before'[e]
          BY <2>1, <2>2
        <5>2. QED
          BY <2>2, <3>1, <3>3, <5>1, AppendBehind
      <4>4. Behind(queue', Stop, Write)
        BY <2>2, <3>3, AppendBehind DEF ShutInOrder
      <4>5. QED
        BY <4>1, <4>2, <4>3, <4>4
    <3>4. QED
      BY <2>1, <3>2, <3>3
  <2>4. \A i \in Write \cup {Stop} : i \in ToSet(queue') <=> i \in ToSet(queue)
    BY <2>2, <2>3
  <2>5. DispatcherTypeOK'
    BY <2>1, <2>2, <2>3 DEF DispatcherTypeOK
  <2>6. QueueInOrder' /\ BuffersAreOlder' /\ AcceptedIsHeld' /\ OpenIsBuffered'
    BY <2>1, <2>3, <2>4 DEF QueueInOrder, BuffersAreOlder, AcceptedIsHeld, OpenIsBuffered
  <2>7. MarkersInOrder'
    <3> SUFFICES ASSUME NEW e \in Drainer
                 PROVE  /\ drain'[e] = "ready" => ~Queued(e)' /\ e \notin event' /\ ~Calling(e)'
                        /\ Behind(queue', e, before'[e])
                        /\ \A w \in before'[e] : Known(w)'
                        /\ Calling(e)' => \A w \in before'[e] : ~Queued(w)'
                        /\ e \in event' => \A w \in before'[e] : fate'[w] = "handed"
      BY DEF MarkersInOrder
    <3>1. CASE e = d
      <4>1. before'[e] = Accepted /\ drain'[e] # "ready" /\ e \notin event /\ ~Calling(e)
        BY <2>1, <2>2, <3>1 DEF MarkersInOrder
      <4>2. QED
        BY <2>1, <2>3, <4>1 DEF Accepted
    <3>2. CASE e # d
      BY <2>1, <2>2, <2>3, <2>4, <3>2 DEF MarkersInOrder
    <3>3. QED
      BY <3>1, <3>2
  <2>8. ShutInOrder'
    BY <2>1, <2>3, <2>4 DEF ShutInOrder, Waiting, Alive
  <2>9. QED
    BY <2>5, <2>6, <2>7, <2>8
<1>3. QED
  BY <1>1, <1>2

LEMMA CloseKeeps ==
  ASSUME DispatcherInv, Closes
  PROVE  DispatcherInv'
<1> USE DEF DispatcherInv, Queued, Calling, Known
<1>1. CASE CloseMarks \/ CloseJoins
  <2>1. /\ closed => closed'
        /\ closed' <=> closer' # "open"
        /\ closer' \in {"marked", "done"} /\ closed' \in BOOLEAN
        /\ late \subseteq late' /\ late' \subseteq {"died", "join", "shut"}
        /\ (closer' = "done" /\ "join" \notin late') => ~Alive
        /\ UNCHANGED <<queue, open, buffer, worker, drain, event, call, scopeOf, fate, before,
                       batches, forced>>
    BY <1>1 DEF CloseMarks, CloseJoins, DispatcherTypeOK, ShutInOrder
  <2>2. DispatcherTypeOK'
    BY <2>1 DEF DispatcherTypeOK
  <2>3. QueueInOrder' /\ BuffersAreOlder' /\ AcceptedIsHeld' /\ OpenIsBuffered' /\ MarkersInOrder'
    BY <2>1 DEF QueueInOrder, BuffersAreOlder, AcceptedIsHeld, OpenIsBuffered, MarkersInOrder
  <2>4. ShutInOrder'
    BY <2>1 DEF ShutInOrder, Waiting, Alive
  <2>5. QED
    BY <2>2, <2>3, <2>4
<1>2. CASE CloseStops
  <2>1. /\ closed /\ closed' /\ closer' \in {"joining", "done"}
        /\ closer' = "done" => ~Alive
        /\ queue' = queue \/ queue' = Append(queue, Stop)
        /\ UNCHANGED <<open, buffer, worker, closed, drain, event, call, scopeOf, fate, before,
                       batches, forced, late>>
    BY <1>2 DEF CloseStops, ShutInOrder
  <2>2. /\ queue \in Seq(Item) /\ before \in [Drainer -> SUBSET Write]
        /\ Stop \in Item /\ Stop \notin Write \cup Drainer
    BY ItemsDiffer DEF DispatcherTypeOK, Item
  <2>3. /\ queue' \in Seq(Item)
        /\ ToSet(queue') \subseteq ToSet(queue) \cup {Stop} /\ ToSet(queue) \subseteq ToSet(queue')
        /\ Sorted(queue')
        /\ \A d \in Drainer : Behind(queue', d, before[d])
        /\ Behind(queue', Stop, Write)
    <3>1. CASE queue' = queue
      BY <2>2, <3>1 DEF QueueInOrder, MarkersInOrder, ShutInOrder
    <3>2. CASE queue' = Append(queue, Stop)
      <4>1. queue' \in Seq(Item) /\ ToSet(queue') = ToSet(queue) \cup {Stop}
        BY <2>2, <3>2, AppendHolds
      <4>2. Sorted(queue')
        BY <2>2, <3>2, AppendSorted DEF QueueInOrder
      <4>3. ASSUME NEW d \in Drainer PROVE Behind(queue', d, before[d])
        BY <2>2, <3>2, AppendBehind DEF MarkersInOrder
      <4>4. Behind(queue', Stop, Write)
        BY <2>2, <3>2, AppendBehind DEF ShutInOrder
      <4>5. QED
        BY <4>1, <4>2, <4>3, <4>4
    <3>3. QED
      BY <2>1, <3>1, <3>2
  <2>4. \A i \in Write \cup Drainer : i \in ToSet(queue') <=> i \in ToSet(queue)
    BY <2>2, <2>3
  <2>5. DispatcherTypeOK'
    BY <2>1, <2>2, <2>3 DEF DispatcherTypeOK
  <2>6. QueueInOrder' /\ BuffersAreOlder' /\ AcceptedIsHeld' /\ OpenIsBuffered'
    BY <2>1, <2>3, <2>4 DEF QueueInOrder, BuffersAreOlder, AcceptedIsHeld, OpenIsBuffered
  <2>7. MarkersInOrder'
    BY <2>1, <2>2, <2>3, <2>4 DEF MarkersInOrder
  <2>8. ShutInOrder'
    BY <2>1, <2>3, <2>4 DEF ShutInOrder, Waiting, Alive
  <2>9. QED
    BY <2>5, <2>6, <2>7, <2>8
<1>3. QED
  BY <1>1, <1>2 DEF Closes

LEMMA CallKillsKeeps ==
  ASSUME DispatcherInv, CallKills
  PROVE  DispatcherInv'
<1> USE DEF DispatcherInv, CallKills, Queued, Calling, Known, Resting
<1>1. DispatcherTypeOK'
  BY EmptySeq DEF DispatcherTypeOK
<1>2. QueueInOrder' /\ BuffersAreOlder' /\ AcceptedIsHeld'
  BY DEF QueueInOrder, BuffersAreOlder, AcceptedIsHeld
<1>3. OpenIsBuffered' /\ MarkersInOrder'
  BY DEF OpenIsBuffered, MarkersInOrder
<1>4. ShutInOrder'
  BY DEF ShutInOrder, Waiting, Alive
<1>5. QED
  BY <1>1, <1>2, <1>3, <1>4

-----------------------------------------------------------------------------
(* The worker's turns.  What the queue is after one of them: it has lost   *)
(* its head, or nothing.                                                   *)

QueueFollows(q) ==
  /\ q \in Seq(Item) /\ ToSet(q) \subseteq ToSet(queue)
  /\ Sorted(q)
  /\ \A d \in Drainer : Behind(q, d, before[d])
  /\ Behind(q, Stop, Write)

(* The marker or sentinel whose turn it is has no write it waits for       *)
(* behind it.                                                              *)
DueNow(cause, q) ==
  /\ cause \in Item
  /\ cause \in Drainer => drain[cause] # "ready" /\ \A w \in before[cause] : w \notin ToSet(q)
  /\ cause = Stop => closed /\ \A w \in Write : w \notin ToSet(q)

LEMMA QueueStays == DispatcherInv => QueueFollows(queue)
BY DEF DispatcherInv, DispatcherTypeOK, QueueInOrder, MarkersInOrder, ShutInOrder, QueueFollows

LEMMA HeadIsTaken ==
  ASSUME DispatcherInv, queue # << >>
  PROVE  /\ QueueFollows(Tail(queue))
         /\ Head(queue) \in Item
         /\ ToSet(queue) = {Head(queue)} \cup ToSet(Tail(queue))
         /\ DueNow(Head(queue), Tail(queue))
         /\ Head(queue) \in Write =>
              \A v \in Write : v \in ToSet(Tail(queue)) => Head(queue) < v
<1>1. queue \in Seq(Item) /\ Sorted(queue)
  BY DEF DispatcherInv, DispatcherTypeOK, QueueInOrder
<1>2. /\ Head(queue) \in Item /\ Tail(queue) \in Seq(Item)
      /\ ToSet(queue) = {Head(queue)} \cup ToSet(Tail(queue))
      /\ Sorted(Tail(queue))
      /\ Head(queue) \in Write => \A x \in ToSet(Tail(queue)) \cap Write : Head(queue) < x
  BY <1>1, TailHolds
<1>3. ASSUME NEW d \in Drainer
      PROVE  /\ Behind(Tail(queue), d, before[d])
             /\ Head(queue) = d => drain[d] # "ready" /\ ToSet(queue) \cap before[d] = {}
  <2>1. Behind(queue, d, before[d])
    BY DEF DispatcherInv, MarkersInOrder
  <2>2. Queued(d) => drain[d] # "ready"
    BY DEF DispatcherInv, MarkersInOrder
  <2>3. QED
    BY <1>1, <1>2, <2>1, <2>2, TailBehind DEF Queued
<1>4. /\ Behind(Tail(queue), Stop, Write)
      /\ Head(queue) = Stop => closed /\ ToSet(queue) \cap Write = {}
  <2>1. Behind(queue, Stop, Write) /\ (Queued(Stop) => closed)
    BY DEF DispatcherInv, ShutInOrder
  <2>2. QED
    BY <1>1, <1>2, <2>1, TailBehind DEF Queued
<1>5. QED
  BY <1>2, <1>3, <1>4 DEF QueueFollows, DueNow

(* The worker goes back to waiting: nothing is handed over, and a marker   *)
(* is set only when no call is open.                                       *)
LEMMA FinishedKeeps ==
  ASSUME DispatcherInv, NEW cause, QueueFollows(queue'), DueNow(cause, queue'),
         worker.pc \in {"idle", "calling"},
         \A w \in Write : Queued(w) => w \in ToSet(queue'),
         cause \in Drainer \cup {Stop} => ToSet(open) = {},
         Finished(cause),
         UNCHANGED <<closed, closer, drain, call, scopeOf, before, late>>
  PROVE  DispatcherInv'
<1> USE DEF DispatcherInv, Queued, Calling, Known, QueueFollows, DueNow
<1>1. /\ worker' = [Resting EXCEPT !.pc = IF cause = Stop THEN "exited" ELSE "idle"]
      /\ event' = event \cup ({cause} \cap Drainer)
      /\ UNCHANGED <<open, buffer, fate, batches, forced>>
  BY DEF Finished
<1>2. /\ worker'.pc = IF cause = Stop THEN "exited" ELSE "idle"
      /\ worker' \in [pc : {"unstarted", "idle", "calling", "exited", "dead"},
                      batch : Seq(Write), rest : Seq(Scope), cause : Item \cup {None}]
  <2>1. << >> \in Seq(Write) /\ << >> \in Seq(Scope)
    BY EmptySeq
  <2>2. QED
    BY <1>1, <2>1 DEF Resting
<1>3. cause \in Drainer \cup {Stop} => \A w \in Write : Known(w) /\ ~Queued(w)' => fate[w] = "handed"
  <2> SUFFICES ASSUME cause \in Drainer \cup {Stop}, NEW w \in Write, fate[w] = "accepted",
                      w \notin ToSet(queue')
               PROVE  FALSE
    OBVIOUS
  <2>1. scopeOf[w] \in Scope /\ w \in ToSet(buffer[scopeOf[w]])
    BY DEF AcceptedIsHeld
  <2>2. buffer[scopeOf[w]] = << >>
    BY <2>1 DEF OpenIsBuffered
  <2>3. ToSet(<< >>) = {}
    BY EmptySeq DEF ToSet
  <2>4. QED
    BY <2>1, <2>2, <2>3
<1>4. DispatcherTypeOK'
  BY <1>1, <1>2 DEF DispatcherTypeOK
<1>5. QueueInOrder' /\ BuffersAreOlder' /\ AcceptedIsHeld'
  BY <1>1 DEF QueueInOrder, BuffersAreOlder, AcceptedIsHeld
<1>6. OpenIsBuffered'
  BY <1>1, <1>2 DEF OpenIsBuffered
<1>7. MarkersInOrder'
  <2> SUFFICES ASSUME NEW d \in Drainer
               PROVE  /\ drain'[d] = "ready" => ~Queued(d)' /\ d \notin event' /\ ~Calling(d)'
                      /\ Behind(queue', d, before'[d])
                      /\ \A w \in before'[d] : Known(w)'
                      /\ Calling(d)' => \A w \in before'[d] : ~Queued(w)'
                      /\ d \in event' => \A w \in before'[d] : fate'[w] = "handed"
    BY DEF MarkersInOrder
  <2>1. ~Calling(d)' /\ (d \in event' => d \in event \/ d = cause)
    BY <1>1, <1>2
  <2>2. before[d] \subseteq Write
    BY DEF DispatcherTypeOK
  <2>3. d = cause => \A w \in before[d] : fate[w] = "handed"
    BY <1>3, <2>2 DEF MarkersInOrder
  <2>4. QED
    BY <1>1, <2>1, <2>3 DEF MarkersInOrder
<1>8. ShutInOrder'
  <2>1. cause = Stop => Waiting = {}
    BY <1>3 DEF Waiting
  <2>2. QED
    BY <1>1, <1>2, <2>1 DEF ShutInOrder, Waiting, Alive
<1>9. QED
  BY <1>4, <1>5, <1>6, <1>7, <1>8

(* The buffer of one call is handed over, and the calls still to flush are *)
(* the rest of the list.                                                   *)
LEMMA FlushKeeps ==
  ASSUME DispatcherInv, NEW tokens \in Seq(Scope), NEW cause,
         QueueFollows(queue'), DueNow(cause, queue'),
         worker.pc \in {"idle", "calling"},
         \A w \in Write : Queued(w) => w \in ToSet(queue'),
         tokens # << >>, Distinct(tokens), ToSet(tokens) \subseteq ToSet(open),
         cause \in Drainer \cup {Stop} => ToSet(open) \subseteq ToSet(tokens),
         Tail(tokens) # << >> => cause \in Drainer \cup {Stop},
         FlushScopes(tokens, cause),
         UNCHANGED <<closed, closer, drain, call, scopeOf, before, late>>
  PROVE  DispatcherInv'
<1> USE DEF DispatcherInv, Queued, Calling, Known, QueueFollows, DueNow
<1> DEFINE s == Head(tokens)
<1>1. /\ s \in Scope /\ Tail(tokens) \in Seq(Scope) /\ Distinct(Tail(tokens))
      /\ ToSet(tokens) = {s} \cup ToSet(Tail(tokens)) /\ s \notin ToSet(Tail(tokens))
      /\ s \in ToSet(open)
  BY TailHolds
<1>2. /\ worker' = [pc |-> "calling", batch |-> buffer[s], rest |-> Tail(tokens), cause |-> cause]
      /\ batches' = Append(batches, buffer[s])
      /\ fate' = [w \in Write |-> IF w \in ToSet(buffer[s]) THEN "handed" ELSE fate[w]]
      /\ buffer' = [buffer EXCEPT ![s] = << >>]
      /\ open' = Without(open, s)
      /\ forced' = forced \/ forced' = forced \cup {s}
      /\ event' = event
  BY DEF FlushScopes, HandOver
<1> HIDE DEF s
<1>3. open \in Seq(Scope) /\ Distinct(open)
  BY DEF DispatcherTypeOK, OpenIsBuffered
<1>4. open' \in Seq(Scope) /\ Distinct(open') /\ ToSet(open') = ToSet(open) \ {s}
  BY <1>1, <1>2, <1>3, WithoutHolds
<1>5. /\ \A t \in Scope : ToSet(buffer[t]) \subseteq Write
      /\ \A d \in Drainer : before[d] \subseteq Write
      /\ ToSet(<< >>) = {}
  BY BuffersHoldWrites, EmptySeq DEF DispatcherTypeOK, ToSet
<1>6. /\ \A w \in Write : fate'[w] = IF w \in ToSet(buffer[s]) THEN "handed" ELSE fate[w]
      /\ \A t \in Scope : buffer'[t] = IF t = s THEN << >> ELSE buffer[t]
  BY <1>1, <1>2 DEF DispatcherTypeOK
<1>7. \A w \in ToSet(buffer[s]) : w \in Write /\ fate[w] = "accepted" /\ scopeOf[w] = s /\ ~Queued(w)
  <2>1. \A w \in ToSet(buffer[s]) : ~(w < w)
    BY <1>1, <1>5 DEF Write
  <2>2. QED
    BY <1>1, <1>5, <2>1 DEF BuffersAreOlder
<1>8. DispatcherTypeOK'
  <2>1. buffer[s] \in Seq(Write) /\ << >> \in Seq(Write)
    BY <1>1, EmptySeq DEF DispatcherTypeOK
  <2>2. batches' \in Seq(Seq(Write))
    BY <1>2, <2>1, AppendProperties DEF DispatcherTypeOK
  <2>3. fate' \in [Write -> {"unfired", "refused", "accepted", "handed"}]
    BY <1>2 DEF DispatcherTypeOK
  <2>4. buffer' \in [Scope -> Seq(Write)]
    BY <1>2, <2>1 DEF DispatcherTypeOK
  <2>5. worker' \in [pc : {"unstarted", "idle", "calling", "exited", "dead"},
                     batch : Seq(Write), rest : Seq(Scope), cause : Item \cup {None}]
    BY <1>1, <1>2, <2>1
  <2>6. forced' \subseteq Scope
    BY <1>1, <1>2 DEF DispatcherTypeOK
  <2>7. QED
    BY <1>2, <1>4, <2>2, <2>3, <2>4, <2>5, <2>6 DEF DispatcherTypeOK
<1>9. QueueInOrder'
  BY <1>6, <1>7 DEF QueueInOrder
<1>10. BuffersAreOlder'
  <2> SUFFICES ASSUME NEW t \in Scope, NEW w \in ToSet(buffer'[t])
               PROVE  /\ fate'[w] = "accepted" /\ scopeOf'[w] = t
                      /\ \A v \in Write : Queued(v)' => w < v
    BY DEF BuffersAreOlder
  <2>1. t # s /\ w \in ToSet(buffer[t]) /\ w \in Write
    BY <1>5, <1>6
  <2>2. /\ fate[w] = "accepted" /\ scopeOf[w] = t
        /\ \A v \in Write : Queued(v) => w < v
    BY <2>1 DEF BuffersAreOlder
  <2>3. w \notin ToSet(buffer[s])
    BY <1>7, <2>1, <2>2
  <2>4. QED
    BY <1>6, <2>1, <2>2, <2>3
<1>11. AcceptedIsHeld'
  <2> SUFFICES ASSUME NEW w \in Write, fate'[w] = "accepted", ~Queued(w)'
               PROVE  scopeOf[w] \in Scope /\ w \in ToSet(buffer'[scopeOf[w]])
    BY DEF AcceptedIsHeld
  <2>1. fate[w] = "accepted" /\ w \notin ToSet(buffer[s])
    BY <1>6
  <2>2. scopeOf[w] \in Scope /\ w \in ToSet(buffer[scopeOf[w]])
    BY <2>1 DEF AcceptedIsHeld
  <2>3. QED
    BY <1>6, <2>1, <2>2
<1>12. OpenIsBuffered'
  BY <1>1, <1>2, <1>4, <1>6 DEF OpenIsBuffered
<1>13. MarkersInOrder'
  <2> SUFFICES ASSUME NEW d \in Drainer
               PROVE  /\ drain'[d] = "ready" => ~Queued(d)' /\ d \notin event' /\ ~Calling(d)'
                      /\ Behind(queue', d, before'[d])
                      /\ \A w \in before'[d] : Known(w)'
                      /\ Calling(d)' => \A w \in before'[d] : ~Queued(w)'
                      /\ d \in event' => \A w \in before'[d] : fate'[w] = "handed"
    BY DEF MarkersInOrder
  <2>1. Calling(d)' => d = cause
    BY <1>2
  <2>2. \A w \in before[d] : Known(w) => Known(w)'
    BY <1>5, <1>6
  <2>3. \A w \in before[d] : fate[w] = "handed" => fate'[w] = "handed"
    BY <1>5, <1>6
  <2>4. QED
    BY <1>2, <2>1, <2>2, <2>3 DEF MarkersInOrder
<1>14. ShutInOrder'
  BY <1>2, <1>6 DEF ShutInOrder, Waiting, Alive
<1>15. QED
  BY <1>8, <1>9, <1>10, <1>11, <1>12, <1>13, <1>14

(* A write of no call goes to the callback alone, at once.                 *)
LEMMA TakeLoneKeeps ==
  ASSUME DispatcherInv, NEW w \in Write, worker.pc = "idle",
         QueueFollows(queue'), ToSet(queue) = {w} \cup ToSet(queue'),
         \A v \in Write : v \in ToSet(queue') => w < v,
         scopeOf[w] = None, TakeWrite(w),
         UNCHANGED <<closed, closer, drain, call, scopeOf, before, late>>
  PROVE  DispatcherInv'
<1> USE DEF DispatcherInv, Queued, Calling, Known, QueueFollows
<1>1. /\ worker' = [pc |-> "calling", batch |-> <<w>>, rest |-> << >>, cause |-> w]
      /\ batches' = Append(batches, <<w>>)
      /\ fate' = [v \in Write |-> IF v \in ToSet(<<w>>) THEN "handed" ELSE fate[v]]
      /\ UNCHANGED <<open, buffer, event, forced>>
  BY DEF TakeWrite, HandOver
<1>2. /\ <<w>> \in Seq(Write) /\ ToSet(<<w>>) = {w}
      /\ << >> \in Seq(Scope) /\ ToSet(<< >>) = {} /\ Distinct(<< >>)
  BY EmptySeq DEF ToSet, Distinct
<1>3. /\ \A v \in Write : fate'[v] = IF v = w THEN "handed" ELSE fate[v]
      /\ fate[w] = "accepted" /\ w \notin ToSet(queue')
      /\ w \in Item /\ w \notin Scope \cup Drainer \cup {Stop}
  <2>1. ~(w < w)
    BY DEF Write
  <2>2. QED
    BY <1>1, <1>2, <2>1, ItemsDiffer DEF QueueInOrder, Item
<1>4. /\ \A t \in Scope : ToSet(buffer[t]) \subseteq Write
      /\ \A d \in Drainer : before[d] \subseteq Write
  BY BuffersHoldWrites DEF DispatcherTypeOK
<1>5. \A t \in Scope : w \notin ToSet(buffer[t])
  BY <1>4, ItemsDiffer DEF BuffersAreOlder
<1>6. DispatcherTypeOK'
  <2>1. batches' \in Seq(Seq(Write))
    BY <1>1, <1>2, AppendProperties DEF DispatcherTypeOK
  <2>2. QED
    BY <1>1, <1>2, <1>3, <2>1 DEF DispatcherTypeOK
<1>7. QueueInOrder'
  BY <1>3 DEF QueueInOrder
<1>8. BuffersAreOlder'
  BY <1>1, <1>3, <1>4, <1>5 DEF BuffersAreOlder
<1>9. AcceptedIsHeld'
  BY <1>1, <1>3 DEF AcceptedIsHeld
<1>10. OpenIsBuffered'
  BY <1>1, <1>2, <1>3 DEF OpenIsBuffered
<1>11. MarkersInOrder'
  <2> SUFFICES ASSUME NEW d \in Drainer
               PROVE  /\ drain'[d] = "ready" => ~Queued(d)' /\ d \notin event' /\ ~Calling(d)'
                      /\ Behind(queue', d, before'[d])
                      /\ \A v \in before'[d] : Known(v)'
                      /\ Calling(d)' => \A v \in before'[d] : ~Queued(v)'
                      /\ d \in event' => \A v \in before'[d] : fate'[v] = "handed"
    BY DEF MarkersInOrder
  <2>1. ~Calling(d)'
    BY <1>1, <1>3
  <2>2. QED
    BY <1>1, <1>3, <1>4, <2>1 DEF MarkersInOrder
<1>12. ShutInOrder'
  BY <1>1, <1>3 DEF ShutInOrder, Waiting, Alive
<1>13. QED
  BY <1>6, <1>7, <1>8, <1>9, <1>10, <1>11, <1>12

(* A write of a call is buffered, and its call is open from then on.       *)
LEMMA BufferKeeps ==
  ASSUME DispatcherInv, NEW w \in Write, worker.pc = "idle",
         QueueFollows(queue'), ToSet(queue) = {w} \cup ToSet(queue'),
         \A v \in Write : v \in ToSet(queue') => w < v,
         scopeOf[w] # None, TakeWrite(w),
         UNCHANGED <<closed, closer, drain, call, scopeOf, before, late>>
  PROVE  DispatcherInv'
<1> USE DEF DispatcherInv, Queued, Calling, Known, QueueFollows
<1> DEFINE s == scopeOf[w]
<1>1. /\ s \in Scope
      /\ buffer' = [buffer EXCEPT ![s] = Append(@, w)]
      /\ open' = IF s \in ToSet(open) THEN open ELSE Append(open, s)
      /\ UNCHANGED <<worker, event, fate, batches, forced>>
  BY DEF TakeWrite, BufferWrite, DispatcherTypeOK
<1>2. /\ fate[w] = "accepted" /\ w \notin ToSet(queue')
      /\ w \in Item /\ w \notin Scope \cup Drainer \cup {Stop}
  <2>1. ~(w < w)
    BY DEF Write
  <2>2. QED
    BY <2>1, ItemsDiffer DEF QueueInOrder, Item
<1> HIDE DEF s
<1>3. /\ \A t \in Scope : buffer'[t] = IF t = s THEN Append(buffer[t], w) ELSE buffer[t]
      /\ buffer' \in [Scope -> Seq(Write)]
      /\ ToSet(Append(buffer[s], w)) = ToSet(buffer[s]) \cup {w}
      /\ Append(buffer[s], w) # << >>
  <2>1. buffer \in [Scope -> Seq(Write)]
    BY DEF DispatcherTypeOK
  <2>2. Append(buffer[s], w) \in Seq(Write) /\ ToSet(Append(buffer[s], w)) = ToSet(buffer[s]) \cup {w}
    BY <1>1, <2>1, AppendHolds
  <2>3. Append(buffer[s], w) # << >>
    BY <1>1, <2>1, AppendProperties
  <2>4. QED
    BY <1>1, <2>1, <2>2, <2>3
<1>4. open' \in Seq(Scope) /\ Distinct(open') /\ ToSet(open') = ToSet(open) \cup {s}
  <2>1. open \in Seq(Scope) /\ Distinct(open)
    BY DEF DispatcherTypeOK, OpenIsBuffered
  <2>2. CASE s \in ToSet(open)
    BY <1>1, <2>1, <2>2
  <2>3. CASE s \notin ToSet(open)
    BY <1>1, <2>1, <2>3, AppendHolds, AppendDistinct
  <2>4. QED
    BY <2>2, <2>3
<1>5. DispatcherTypeOK'
  BY <1>1, <1>3, <1>4 DEF DispatcherTypeOK
<1>6. QueueInOrder'
  BY <1>1 DEF QueueInOrder
<1>7. BuffersAreOlder'
  <2> SUFFICES ASSUME NEW t \in Scope, NEW v \in ToSet(buffer'[t])
               PROVE  /\ fate'[v] = "accepted" /\ scopeOf'[v] = t
                      /\ \A x \in Write : Queued(x)' => v < x
    BY DEF BuffersAreOlder
  <2>1. v \in ToSet(buffer[t]) \/ (t = s /\ v = w)
    BY <1>3
  <2>2. CASE v \in ToSet(buffer[t])
    BY <1>1, <2>2 DEF BuffersAreOlder
  <2>3. CASE t = s /\ v = w
    BY <1>1, <1>2, <2>3 DEF s
  <2>4. QED
    BY <2>1, <2>2, <2>3
<1>8. AcceptedIsHeld'
  <2> SUFFICES ASSUME NEW v \in Write, fate[v] = "accepted", ~Queued(v)'
               PROVE  scopeOf[v] \in Scope /\ v \in ToSet(buffer'[scopeOf[v]])
    BY <1>1 DEF AcceptedIsHeld
  <2>1. CASE v = w
    BY <1>1, <1>3, <2>1 DEF s
  <2>2. CASE v # w
    <3>1. scopeOf[v] \in Scope /\ v \in ToSet(buffer[scopeOf[v]])
      BY <2>2 DEF AcceptedIsHeld
    <3>2. QED
      BY <1>3, <3>1
  <2>3. QED
    BY <2>1, <2>2
<1>9. OpenIsBuffered'
  BY <1>1, <1>3, <1>4 DEF OpenIsBuffered
<1>10. MarkersInOrder'
  BY <1>1 DEF MarkersInOrder
<1>11. ShutInOrder'
  BY <1>1 DEF ShutInOrder, Waiting, Alive
<1>12. QED
  BY <1>5, <1>6, <1>7, <1>8, <1>9, <1>10, <1>11

LEMMA EmptyHoldsNothing ==
  ASSUME NEW S, NEW q \in Seq(S)
  PROVE  ToSet(q) = {} <=> q = << >>
<1>1. DOMAIN q = 1..Len(q) /\ Len(q) \in Nat
  BY LenProperties
<1>2. ToSet(<< >>) = {}
  BY EmptySeq DEF ToSet
<1>3. ASSUME q # << >> PROVE q[1] \in ToSet(q)
  BY <1>1, <1>3, EmptySeq DEF ToSet
<1>4. QED
  BY <1>2, <1>3

(* The four ways a turn of the worker goes.                                *)
LEMMA TakeCases ==
  ASSUME DispatcherInv, Take
  PROVE  LET i == Head(queue)
         IN /\ queue # << >> /\ worker.pc = "idle" /\ queue' = Tail(queue)
            /\ UNCHANGED <<closed, closer, drain, call, scopeOf, before, late>>
            /\ \/ /\ i \in Drainer \cup {Stop}
                  /\ \/ open = << >> /\ Finished(i)
                     \/ open # << >> /\ FlushScopes(open, i)
               \/ /\ i \in Scope
                  /\ \/ i \notin ToSet(open) /\ Finished(i)
                     \/ i \in ToSet(open) /\ FlushScopes(<<i>>, i)
               \/ i \in Write /\ TakeWrite(i)
BY DEF Take, FlushAll, FlushAt

LEMMA TakeKeeps ==
  ASSUME DispatcherInv, Take
  PROVE  DispatcherInv'
<1> DEFINE i == Head(queue)
<1>1. /\ queue # << >> /\ worker.pc = "idle" /\ queue' = Tail(queue)
      /\ UNCHANGED <<closed, closer, drain, call, scopeOf, before, late>>
  BY TakeCases
<1>2. /\ QueueFollows(queue') /\ DueNow(i, queue') /\ i \in Item
      /\ ToSet(queue) = {i} \cup ToSet(queue')
      /\ i \in Write => \A v \in Write : v \in ToSet(queue') => i < v
  BY <1>1, HeadIsTaken
<1>3. open \in Seq(Scope) /\ Distinct(open)
  BY DEF DispatcherInv, DispatcherTypeOK, OpenIsBuffered
<1>4. CASE i \in Drainer \cup {Stop}
  <2>1. \A w \in Write : Queued(w) => w \in ToSet(queue')
    BY <1>2, <1>4, ItemsDiffer DEF Queued
  <2>2. \/ open = << >> /\ Finished(i)
        \/ open # << >> /\ FlushScopes(open, i)
    BY <1>4, TakeCases, ItemsDiffer
  <2>3. CASE open = << >> /\ Finished(i)
    <3>1. ToSet(open) = {}
      BY <1>3, <2>3, EmptyHoldsNothing
    <3>2. QED
      BY <1>1, <1>2, <2>1, <2>3, <3>1, FinishedKeeps
  <2>4. CASE open # << >> /\ FlushScopes(open, i)
    BY <1>1, <1>2, <1>3, <1>4, <2>1, <2>4, FlushKeeps
  <2>5. QED
    BY <2>2, <2>3, <2>4
<1>5. CASE i \in Scope
  <2>1. /\ \A w \in Write : Queued(w) => w \in ToSet(queue')
        /\ i \notin Drainer \cup {Stop}
    BY <1>2, <1>5, ItemsDiffer DEF Queued
  <2>2. \/ i \notin ToSet(open) /\ Finished(i)
        \/ i \in ToSet(open) /\ FlushScopes(<<i>>, i)
    BY <1>5, TakeCases, ItemsDiffer
  <2>3. CASE Finished(i)
    BY <1>1, <1>2, <2>1, <2>3, FinishedKeeps
  <2>4. CASE i \in ToSet(open) /\ FlushScopes(<<i>>, i)
    <3>1. /\ <<i>> \in Seq(Scope) /\ <<i>> # << >> /\ Distinct(<<i>>)
          /\ ToSet(<<i>>) = {i} /\ Tail(<<i>>) = << >>
      BY <1>5 DEF Distinct, ToSet
    <3>2. QED
      BY <1>1, <1>2, <2>1, <2>4, <3>1, FlushKeeps
  <2>5. QED
    BY <2>2, <2>3, <2>4
<1>6. CASE i \in Write
  <2>1. TakeWrite(i)
    BY <1>6, TakeCases, ItemsDiffer
  <2>2. QED
    BY <1>1, <1>2, <1>6, <2>1, TakeLoneKeeps, BufferKeeps
<1>7. QED
  BY <1>2, <1>4, <1>5, <1>6 DEF Item

LEMMA CallReturnsKeeps ==
  ASSUME DispatcherInv, CallReturns
  PROVE  DispatcherInv'
<1>1. /\ worker.pc = "calling" /\ queue' = queue
      /\ UNCHANGED <<closed, closer, drain, call, scopeOf, before, late>>
      /\ \/ worker.rest = << >> /\ Finished(worker.cause)
         \/ worker.rest # << >> /\ FlushScopes(worker.rest, worker.cause)
  BY DEF CallReturns
<1>2. QueueFollows(queue')
  BY <1>1, QueueStays
<1>3. /\ worker.cause \in Item /\ worker.rest \in Seq(Scope) /\ Distinct(worker.rest)
      /\ ToSet(worker.rest) \subseteq ToSet(open)
      /\ worker.cause \in Drainer \cup {Stop} => ToSet(open) \subseteq ToSet(worker.rest)
      /\ worker.rest # << >> => worker.cause \in Drainer \cup {Stop}
  BY <1>1 DEF DispatcherInv, DispatcherTypeOK, OpenIsBuffered
<1>4. DueNow(worker.cause, queue')
  BY <1>1, <1>3 DEF DispatcherInv, MarkersInOrder, ShutInOrder, DueNow, Calling, Queued
<1>5. \A w \in Write : Queued(w) => w \in ToSet(queue')
  BY <1>1 DEF Queued
<1>6. CASE worker.rest = << >> /\ Finished(worker.cause)
  <2>1. worker.cause \in Drainer \cup {Stop} => ToSet(open) = {}
    BY <1>3, <1>6, EmptyHoldsNothing
  <2>2. QED
    BY <1>1, <1>2, <1>4, <1>5, <1>6, <2>1, FinishedKeeps
<1>7. CASE worker.rest # << >> /\ FlushScopes(worker.rest, worker.cause)
  BY <1>1, <1>2, <1>3, <1>4, <1>5, <1>7, FlushKeeps
<1>8. QED
  BY <1>1, <1>6, <1>7

LEMMA DispatcherKeeps ==
  ASSUME DispatcherInv, [DispatcherNext]_dispatcherVars
  PROVE  DispatcherInv'
<1>1. CASE Fires
  BY <1>1, FireKeeps DEF Fires
<1>2. CASE Ends
  BY <1>2, EndKeeps DEF Ends
<1>3. CASE WorkerSteps
  BY <1>3, TakeKeeps, CallReturnsKeeps DEF WorkerSteps
<1>4. CASE CallKills
  BY <1>4, CallKillsKeeps
<1>5. CASE Drains
  BY <1>5, DrainKeeps DEF Drains
<1>6. CASE Closes
  BY <1>6, CloseKeeps
<1>7. CASE UNCHANGED dispatcherVars
  <2> USE <1>7 DEF dispatcherVars
  <2>1. DispatcherTypeOK'
    BY DEF DispatcherInv, DispatcherTypeOK
  <2>2. QueueInOrder' /\ BuffersAreOlder' /\ AcceptedIsHeld' /\ OpenIsBuffered'
    BY DEF DispatcherInv, QueueInOrder, BuffersAreOlder, AcceptedIsHeld, OpenIsBuffered, Queued
  <2>3. MarkersInOrder' /\ ShutInOrder'
    BY DEF DispatcherInv, MarkersInOrder, ShutInOrder, Queued, Calling, Known, Waiting, Alive
  <2>4. QED
    BY <2>1, <2>2, <2>3 DEF DispatcherInv
<1>8. QED
  BY <1>1, <1>2, <1>3, <1>4, <1>5, <1>6, <1>7 DEF DispatcherNext

(* For every number of writes, calls and drains, the invariant holds.      *)
THEOREM DispatcherInvariant == DispatcherSpec => []DispatcherInv
<1>1. DispatcherInv /\ [DispatcherNext]_dispatcherVars => DispatcherInv'
  BY DispatcherKeeps
<1>2. QED
  BY <1>1, DispatcherStarts, PTL DEF DispatcherSpec

(* A close whose join saw the worker end leaves no accepted write behind:  *)
(* every one was handed to the callback (write_callback.py:410-435).       *)
THEOREM CloseLeavesNothingHolds == DispatcherSpec => []CloseLeavesNothing
<1>1. ASSUME DispatcherInv, closer = "done", late \cap {"died", "join"} = {}
      PROVE  Waiting = {}
  <2>1. worker.pc \in {"unstarted", "exited"}
    BY <1>1 DEF DispatcherInv, DispatcherTypeOK, ShutInOrder, Alive
  <2>2. QED
    BY <2>1, <1>1 DEF DispatcherInv, ShutInOrder, Known, Waiting
<1>2. DispatcherInv => CloseLeavesNothing
  BY <1>1 DEF CloseLeavesNothing
<1>3. QED
  BY <1>2, DispatcherInvariant, PTL

-----------------------------------------------------------------------------
(* The dispatcher implements CommitPromise: each step, under the           *)
(* invariant, is a step of the promise or leaves it where it is.           *)

LEMMA StartsAsPromised == DispatcherInit => Promise!PromiseInit
BY DEF DispatcherInit, Promise!PromiseInit, Promise!Write, Write

LEMMA FireIsPromised ==
  ASSUME DispatcherInv, NEW w \in Write, NEW s \in Scope \cup {None}, Fire(w, s)
  PROVE  Promise!Accept(w, s)
<1>1. fate' = [fate EXCEPT ![w] = IF closed THEN "refused" ELSE "accepted"]
  BY DEF Fire
<1>2. QED
  BY <1>1 DEF Fire, Promise!Accept

LEMMA DrainIsPromised ==
  ASSUME DispatcherInv, NEW d \in Drainer,
         DrainBegins(d) \/ DrainReturns(d) \/ DrainTimesOut(d)
  PROVE  Promise!Ask(d) \/ Promise!Answer(d)
<1>1. CASE DrainBegins(d)
  <2>1. /\ drain[d] = "ready"
        /\ before' = [before EXCEPT ![d] = {w \in Promise!Write : fate[w] \in {"accepted", "handed"}}]
        /\ UNCHANGED <<fate, scopeOf, closed>>
    BY <1>1 DEF DrainBegins, Accepted, Write, Promise!Write
  <2>2. before'[d] = Accepted
    BY <1>1 DEF DrainBegins, DispatcherInv, DispatcherTypeOK
  <2>3. PICK a \in {"waiting", "false", "true"} :
          /\ drain' = [drain EXCEPT ![d] = a]
          /\ a = "true" => closed \/ worker.pc = "unstarted"
    BY <1>1 DEF DrainBegins
  <2>4. a = "true" => closed \/ \A w \in before'[d] : fate[w] = "handed"
    BY <2>2, <2>3 DEF DispatcherInv, ShutInOrder, Known, Accepted
  <2>5. QED
    BY <2>1, <2>3, <2>4 DEF Promise!Ask
<1>2. CASE DrainReturns(d)
  <2>1. \A w \in before[d] : fate[w] = "handed"
    BY <1>2 DEF DrainReturns, DispatcherInv, MarkersInOrder
  <2>2. QED
    BY <1>2, <2>1 DEF DrainReturns, Promise!Answer, Promise!Covered
<1>3. CASE DrainTimesOut(d)
  BY <1>3 DEF DrainTimesOut, Promise!Answer
<1>4. QED
  BY <1>1, <1>2, <1>3

(* What a flush hands over is some call's, all that was accepted of it up  *)
(* to the last of them.                                                    *)
LEMMA FlushIsPromised ==
  ASSUME DispatcherInv, NEW tokens \in Seq(Scope), NEW cause,
         tokens # << >>, ToSet(tokens) \subseteq ToSet(open),
         FlushScopes(tokens, cause),
         UNCHANGED <<closed, drain, scopeOf, before>>
  PROVE  \E batch \in SUBSET Promise!Write : Promise!Hand(batch)
<1> DEFINE s == Head(tokens)
           batch == ToSet(buffer[s])
<1>1. s \in Scope /\ s \in ToSet(open)
  BY TailHolds
<1>2. fate' = [w \in Write |-> IF w \in batch THEN "handed" ELSE fate[w]]
  BY DEF FlushScopes, HandOver
<1> HIDE DEF s
<1>3. batch # {} /\ batch \subseteq Write /\ buffer[s] \in Seq(Write)
  BY <1>1, BuffersHoldWrites, EmptyHoldsNothing DEF DispatcherInv, DispatcherTypeOK, OpenIsBuffered
<1>4. \A w \in batch : /\ fate[w] = "accepted" /\ scopeOf[w] = s
                       /\ \A v \in Write : Queued(v) => w < v
  BY <1>1 DEF DispatcherInv, BuffersAreOlder
<1>5. ASSUME NEW w \in batch, NEW v \in Write, v < w, scopeOf[v] = scopeOf[w],
             fate[v] = "accepted"
      PROVE  v \in batch
  <2>1. ~Queued(v)
    BY <1>3, <1>4, <1>5 DEF Write
  <2>2. QED
    BY <1>4, <1>5, <2>1 DEF DispatcherInv, AcceptedIsHeld
<1>6. s # None
  BY <1>1, ItemsDiffer
<1> HIDE DEF batch
<1>7. Promise!Hand(batch)
  BY <1>2, <1>3, <1>4, <1>5, <1>6 DEF Promise!Hand, Promise!Write, Write
<1>8. QED
  BY <1>3, <1>7 DEF Promise!Write, Write

LEMMA TakeLoneIsPromised ==
  ASSUME DispatcherInv, NEW w \in Write, queue # << >>, w = Head(queue),
         scopeOf[w] = None, TakeWrite(w),
         UNCHANGED <<closed, drain, scopeOf, before>>
  PROVE  \E batch \in SUBSET Promise!Write : Promise!Hand(batch)
<1>1. /\ ToSet(queue) = {w} \cup ToSet(Tail(queue))
      /\ \A v \in Write : v \in ToSet(Tail(queue)) => w < v
  BY HeadIsTaken
<1>2. fate[w] = "accepted"
  BY <1>1 DEF DispatcherInv, QueueInOrder, Queued
<1>3. ToSet(<<w>>) = {w}
  BY DEF ToSet
<1>4. fate' = [v \in Write |-> IF v \in {w} THEN "handed" ELSE fate[v]]
  BY <1>3 DEF TakeWrite, HandOver
<1>5. ASSUME NEW v \in Write, v < w, scopeOf[v] = None, fate[v] = "accepted"
      PROVE  FALSE
  <2>1. Queued(v)
    BY <1>5, ItemsDiffer DEF DispatcherInv, AcceptedIsHeld
  <2>2. w < v \/ v = w
    BY <1>1, <2>1 DEF Queued
  <2>3. QED
    BY <1>5, <2>2 DEF Write
<1>6. Promise!Hand({w})
  BY <1>2, <1>4, <1>5 DEF Promise!Hand, Promise!Write, Write
<1>7. QED
  BY <1>6 DEF Promise!Write, Write

LEMMA WorkerStepIsPromised ==
  ASSUME DispatcherInv, WorkerSteps
  PROVE  \/ \E batch \in SUBSET Promise!Write : Promise!Hand(batch)
         \/ UNCHANGED Promise!promiseVars
<1>1. UNCHANGED <<closed, drain, scopeOf, before>>
  BY DEF WorkerSteps, Take, CallReturns
<1>2. ASSUME NEW cause, Finished(cause)
      PROVE  UNCHANGED Promise!promiseVars
  BY <1>1, <1>2 DEF Finished, Promise!promiseVars
<1>3. CASE Take
  <2> DEFINE i == Head(queue)
  <2>1. queue # << >> /\ open \in Seq(Scope)
    BY <1>3, TakeCases DEF DispatcherInv, DispatcherTypeOK
  <2>2. \/ Finished(i)
        \/ open # << >> /\ FlushScopes(open, i)
        \/ i \in Scope /\ i \in ToSet(open) /\ FlushScopes(<<i>>, i)
        \/ i \in Write /\ TakeWrite(i)
    BY <1>3, TakeCases
  <2>3. CASE open # << >> /\ FlushScopes(open, i)
    BY <1>1, <2>1, <2>3, FlushIsPromised
  <2>4. CASE i \in Scope /\ i \in ToSet(open) /\ FlushScopes(<<i>>, i)
    <3>1. <<i>> \in Seq(Scope) /\ <<i>> # << >> /\ ToSet(<<i>>) = {i}
      BY <2>4 DEF ToSet
    <3>2. QED
      BY <1>1, <2>4, <3>1, FlushIsPromised
  <2>5. CASE i \in Write /\ TakeWrite(i)
    <3>1. CASE scopeOf[i] = None
      BY <1>1, <2>1, <2>5, <3>1, TakeLoneIsPromised
    <3>2. CASE scopeOf[i] # None
      BY <1>1, <2>5, <3>2 DEF TakeWrite, BufferWrite, Promise!promiseVars
    <3>3. QED
      BY <3>1, <3>2
  <2>6. QED
    BY <1>2, <2>2, <2>3, <2>4, <2>5
<1>4. CASE CallReturns
  <2>1. /\ worker.rest \in Seq(Scope) /\ ToSet(worker.rest) \subseteq ToSet(open)
        /\ \/ Finished(worker.cause)
           \/ worker.rest # << >> /\ FlushScopes(worker.rest, worker.cause)
    BY <1>4 DEF CallReturns, DispatcherInv, DispatcherTypeOK, OpenIsBuffered
  <2>2. QED
    BY <1>1, <1>2, <2>1, FlushIsPromised
<1>5. QED
  BY <1>3, <1>4 DEF WorkerSteps

LEMMA StepIsPromised ==
  ASSUME DispatcherInv, [DispatcherNext]_dispatcherVars
  PROVE  [Promise!PromiseNext]_(Promise!promiseVars)
<1> USE DEF Promise!PromiseNext
<1>1. CASE Fires
  <2>1. PICK w \in Write, s \in Scope \cup {None} : Fire(w, s)
    BY <1>1 DEF Fires
  <2>2. Promise!Accept(w, s) /\ w \in Promise!Write
    BY <2>1, FireIsPromised DEF Write, Promise!Write
  <2>3. QED
    BY <2>2
<1>2. CASE Ends
  BY <1>2 DEF Ends, ReturnCall, CancelCall, ThreadEnds, EndScope, Promise!promiseVars
<1>3. CASE WorkerSteps
  BY <1>3, WorkerStepIsPromised
<1>4. CASE CallKills
  BY <1>4 DEF CallKills, Promise!promiseVars
<1>5. CASE Drains
  BY <1>5, DrainIsPromised DEF Drains
<1>6. CASE Closes
  BY <1>6 DEF Closes, CloseMarks, CloseStops, CloseJoins, Promise!BeginClose, Promise!promiseVars
<1>7. CASE UNCHANGED dispatcherVars
  BY <1>7 DEF dispatcherVars, Promise!promiseVars
<1>8. QED
  BY <1>1, <1>2, <1>3, <1>4, <1>5, <1>6, <1>7 DEF DispatcherNext

(* The refinement, for every number of writes, calls and drains: whatever  *)
(* the queue, the buffers and the threads do, each write is refused or     *)
(* handed over in the order of its call, and a drain answers True only     *)
(* over writes the callback has had (write_callback.py:337-435).           *)
THEOREM DispatcherKeepsPromise == DispatcherSpec => KeepsPromise
<1>1. DispatcherInv /\ [DispatcherNext]_dispatcherVars
        => [Promise!PromiseNext]_(Promise!promiseVars)
  BY StepIsPromised
<1>2. QED
  BY <1>1, StartsAsPromised, DispatcherInvariant, PTL
     DEF DispatcherSpec, KeepsPromise, Promise!PromiseSpec

-----------------------------------------------------------------------------
(* Commits by call.                                                        *)

Of(s) == {w \in Write : scopeOf[w] = s}
Cancelled(s) == call[s] \in {"cancelled", "abandoned"}

(* What a batch looks like: in order, of one call, alone when of none.     *)
Fine(b, of) ==
  /\ \A i, j \in DOMAIN b : i < j => b[i] < b[j]
  /\ \A v, w \in ToSet(b) : of[v] = of[w]
  /\ Len(b) > 1 => \A w \in ToSet(b) : of[w] # None

(* The end of a call that returned stands behind all its writes; once a    *)
(* flush that nothing forced has handed some of them over, none is left.   *)
CallInv ==
  /\ \A s \in Scope : Sorted(buffer[s])
  /\ \A i \in 1..Len(batches) :
       Fine(batches[i], scopeOf) /\ \A w \in ToSet(batches[i]) : w \in Write /\ fate[w] = "handed"
  /\ \A s \in Scope :
       /\ Queued(s) => call[s] # "open"
       /\ call[s] = "returned" => Behind(queue, s, Of(s))
       /\ (BatchesOf(s) # {} /\ s \notin forced /\ ~Cancelled(s)) =>
            call[s] = "returned" /\ \A w \in Of(s) : fate[w] # "accepted"
       /\ (\E i, j \in BatchesOf(s) : i # j) => s \in forced \/ Cancelled(s)

(* The queue keeps the ends of calls behind their writes.                  *)
EndsFollow(q) ==
  \A s \in Scope : /\ s \in ToSet(q) => call[s] # "open"
                   /\ call[s] = "returned" => Behind(q, s, Of(s))

LEMMA EndsFollowTail ==
  ASSUME DispatcherInv, CallInv, queue # << >>
  PROVE  EndsFollow(Tail(queue))
<1>1. queue \in Seq(Item)
  BY DEF DispatcherInv, DispatcherTypeOK
<1>2. ToSet(queue) = {Head(queue)} \cup ToSet(Tail(queue))
  BY <1>1, TailHolds
<1>3. QED
  BY <1>1, <1>2, TailBehind DEF CallInv, EndsFollow, Queued

LEMMA EndsFollowAppend ==
  ASSUME DispatcherInv, CallInv, NEW x \in Item \ (Write \cup Scope)
  PROVE  EndsFollow(queue) /\ EndsFollow(Append(queue, x))
<1>1. queue \in Seq(Item)
  BY DEF DispatcherInv, DispatcherTypeOK
<1>2. ToSet(Append(queue, x)) = ToSet(queue) \cup {x}
  BY <1>1, AppendHolds
<1>3. ASSUME NEW s \in Scope, call[s] = "returned"
      PROVE  Behind(Append(queue, x), s, Of(s))
  <2>1. x \notin Of(s) /\ Behind(queue, s, Of(s))
    BY <1>3 DEF Of, CallInv
  <2>2. QED
    BY <1>1, <2>1, AppendBehind
<1>4. QED
  BY <1>2, <1>3 DEF CallInv, EndsFollow, Queued

LEMMA CallFrame ==
  ASSUME CallInv, EndsFollow(queue'),
         UNCHANGED <<buffer, batches, forced, call, scopeOf, fate>>
  PROVE  CallInv'
<1>1. ASSUME NEW s \in Scope
      PROVE  Of(s)' = Of(s) /\ BatchesOf(s)' = BatchesOf(s) /\ (Cancelled(s)' <=> Cancelled(s))
  BY DEF Of, BatchesOf, Cancelled
<1>2. QED
  BY <1>1 DEF CallInv, EndsFollow, Queued

(* A batch goes out: what is of one call, in order, and, unless forced or  *)
(* of a cancelled call, all the call ever fires.                           *)
LEMMA HandKeepsCalls ==
  ASSUME DispatcherInv, CallInv, EndsFollow(queue'), NEW b \in Seq(Write), Fine(b, scopeOf),
         batches' = Append(batches, b),
         \A w \in Write : fate'[w] = IF w \in ToSet(b) THEN "handed" ELSE fate[w],
         \A w \in ToSet(b) : fate[w] = "accepted",
         \A s \in Scope : Sorted(buffer'[s]),
         forced \subseteq forced', UNCHANGED <<call, scopeOf>>,
         \A s \in Scope : ToSet(b) \cap Of(s) # {} =>
           \/ s \in forced' \/ Cancelled(s)
           \/ call[s] = "returned" /\ \A w \in Of(s) : fate'[w] # "accepted"
  PROVE  CallInv'
<1>1. batches \in Seq(Seq(Write)) /\ Len(batches) \in Nat /\ ToSet(b) \subseteq Write
  BY LenProperties, HoldsOnly DEF DispatcherInv, DispatcherTypeOK
<1>2. /\ Len(batches') = Len(batches) + 1
      /\ \A i \in 1..Len(batches) : batches'[i] = batches[i]
      /\ batches'[Len(batches) + 1] = b
  BY <1>1, AppendProperties
<1>3. ASSUME NEW i \in 1..Len(batches')
      PROVE  /\ Fine(batches'[i], scopeOf')
             /\ \A w \in ToSet(batches'[i]) : w \in Write /\ fate'[w] = "handed"
  <2>1. CASE i \in 1..Len(batches)
    <3>1. Fine(batches[i], scopeOf) /\ \A w \in ToSet(batches[i]) : w \in Write /\ fate[w] = "handed"
      BY <2>1 DEF CallInv
    <3>2. \A w \in Write : fate[w] = "handed" => fate'[w] = "handed"
      OBVIOUS
    <3>3. QED
      BY <1>2, <2>1, <3>1, <3>2
  <2>2. CASE i = Len(batches) + 1
    BY <1>1, <1>2, <2>2
  <2>3. QED
    BY <1>1, <1>2, <2>1, <2>2
<1>4. ASSUME NEW s \in Scope
      PROVE  BatchesOf(s)' = IF ToSet(b) \cap Of(s) = {} THEN BatchesOf(s)
                             ELSE BatchesOf(s) \cup {Len(batches) + 1}
  <2>1. ASSUME NEW i \in 1..Len(batches) PROVE ToSet(batches'[i]) = ToSet(batches[i])
    BY <1>2 DEF ToSet
  <2>2. (\E w \in ToSet(b) : scopeOf[w] = s) <=> ToSet(b) \cap Of(s) # {}
    BY <1>1 DEF Of
  <2>3. \A i \in 1..Len(batches') : i \in 1..Len(batches) \/ i = Len(batches) + 1
    BY <1>1, <1>2
  <2>4. 1..Len(batches) \subseteq 1..Len(batches') /\ Len(batches) + 1 \in 1..Len(batches')
    BY <1>1, <1>2
  <2>5. \A i \in 1..Len(batches') :
          i \in BatchesOf(s)' <=> \E w \in ToSet(batches'[i]) : scopeOf[w] = s
    BY DEF BatchesOf
  <2>6. \A i \in 1..Len(batches) : i \in BatchesOf(s)' <=> i \in BatchesOf(s)
    BY <2>1, <2>4, <2>5 DEF BatchesOf
  <2>7. Len(batches) + 1 \in BatchesOf(s)' <=> ToSet(b) \cap Of(s) # {}
    BY <1>2, <2>2, <2>4, <2>5
  <2>8. BatchesOf(s) \subseteq 1..Len(batches) /\ BatchesOf(s)' \subseteq 1..Len(batches')
    BY DEF BatchesOf
  <2>9. CASE ToSet(b) \cap Of(s) = {}
    <3>1. BatchesOf(s)' = BatchesOf(s)
      BY <2>3, <2>6, <2>7, <2>8, <2>9
    <3>2. QED
      BY <2>9, <3>1
  <2>10. CASE ToSet(b) \cap Of(s) # {}
    <3>1. BatchesOf(s)' = BatchesOf(s) \cup {Len(batches) + 1}
      BY <2>3, <2>6, <2>7, <2>8, <2>10
    <3>2. QED
      BY <2>10, <3>1
  <2>11. QED
    BY <2>9, <2>10
<1>5. ASSUME NEW s \in Scope
      PROVE  /\ Of(s)' = Of(s) /\ (Cancelled(s)' <=> Cancelled(s))
             /\ Queued(s)' => call'[s] # "open"
             /\ call'[s] = "returned" => Behind(queue', s, Of(s)')
             /\ (BatchesOf(s)' # {} /\ s \notin forced' /\ ~Cancelled(s)) =>
                  call'[s] = "returned" /\ \A w \in Of(s) : fate'[w] # "accepted"
  <2>1. Of(s)' = Of(s) /\ (Cancelled(s)' <=> Cancelled(s)) /\ Of(s) \subseteq Write
    BY DEF Of, Cancelled
  <2>2. CASE ToSet(b) \cap Of(s) = {}
    <3>1. (BatchesOf(s) # {} /\ s \notin forced /\ ~Cancelled(s)) =>
             call[s] = "returned" /\ \A w \in Of(s) : fate[w] # "accepted"
      BY DEF CallInv
    <3>2. QED
      BY <1>4, <2>1, <2>2, <3>1 DEF EndsFollow, Queued
  <2>3. CASE ToSet(b) \cap Of(s) # {}
    BY <1>4, <2>1, <2>3 DEF EndsFollow, Queued
  <2>4. QED
    BY <2>2, <2>3
<1>6. ASSUME NEW s \in Scope, \E i, j \in BatchesOf(s)' : i # j
      PROVE  s \in forced' \/ Cancelled(s)
  <2>1. CASE ToSet(b) \cap Of(s) = {}
    BY <1>4, <1>6, <2>1 DEF CallInv
  <2>2. CASE ToSet(b) \cap Of(s) # {}
    <3>1. BatchesOf(s) # {}
      BY <1>4, <1>6, <2>2
    <3>2. PICK w \in Of(s) : fate[w] = "accepted"
      BY <2>2
    <3>3. QED
      BY <3>1, <3>2 DEF CallInv
  <2>3. QED
    BY <2>1, <2>2
<1>7. \A s \in Scope : Cancelled(s)' <=> Cancelled(s)
  BY DEF Cancelled
<1>8. QED
  BY <1>3, <1>5, <1>6, <1>7 DEF CallInv

LEMMA CallsStart == DispatcherInit => CallInv
<1> SUFFICES ASSUME DispatcherInit PROVE CallInv
  OBVIOUS
<1>1. ToSet(<< >>) = {} /\ Sorted(<< >>) /\ 1..Len(<< >>) = {}
  BY EmptySeq DEF ToSet, Sorted
<1>2. QED
  BY <1>1 DEF DispatcherInit, CallInv, Queued, Behind, BatchesOf

LEMMA FireKeepsCalls ==
  ASSUME DispatcherInv, CallInv, NEW w \in Write, NEW s \in Scope \cup {None}, Fire(w, s)
  PROVE  CallInv'
<1>1. /\ fate[w] = "unfired" /\ scopeOf' = [scopeOf EXCEPT ![w] = s]
      /\ s # None => call[s] \in {"open", "cancelled"}
      /\ queue' = queue \/ queue' = Append(queue, w)
      /\ \A v \in Write \ {w} : fate'[v] = fate[v] /\ scopeOf'[v] = scopeOf[v]
      /\ UNCHANGED <<buffer, batches, forced, call>>
  BY DEF Fire, DispatcherInv, DispatcherTypeOK
<1>2. /\ queue \in Seq(Item) /\ w \in Item /\ w \notin Scope
      /\ scopeOf \in [Write -> Scope \cup {None}]
  BY ItemsDiffer DEF DispatcherInv, DispatcherTypeOK, Item
<1>3. ToSet(queue') \subseteq ToSet(queue) \cup {w}
  <2>1. ToSet(Append(queue, w)) = ToSet(queue) \cup {w}
    BY <1>2, AppendHolds
  <2>2. QED
    BY <1>1, <2>1
<1>4. \A i \in 1..Len(batches) : \A v \in ToSet(batches[i]) :
        v \in Write /\ fate[v] = "handed" /\ v # w /\ scopeOf'[v] = scopeOf[v] /\ fate'[v] = fate[v]
  BY <1>1 DEF CallInv
<1>5. ASSUME NEW i \in 1..Len(batches)
      PROVE  Fine(batches[i], scopeOf')
  <2>1. Fine(batches[i], scopeOf)
    BY DEF CallInv
  <2>2. QED
    BY <1>4, <2>1 DEF Fine
<1>6. ASSUME NEW t \in Scope
      PROVE  /\ BatchesOf(t)' = BatchesOf(t) /\ (Cancelled(t)' <=> Cancelled(t))
             /\ call[t] = "returned" => Of(t)' \subseteq Of(t) \ {w}
             /\ Queued(t)' => Queued(t)
             /\ call[t] = "returned" => Behind(queue', t, Of(t)')
  <2>1. BatchesOf(t)' = BatchesOf(t)
    <3>1. ASSUME NEW i \in 1..Len(batches)
          PROVE  (\E v \in ToSet(batches[i]) : scopeOf'[v] = t)
                   <=> (\E v \in ToSet(batches[i]) : scopeOf[v] = t)
      BY <1>4
    <3>2. QED
      BY <1>1, <3>1 DEF BatchesOf
  <2>2. call[t] = "returned" => Of(t)' \subseteq Of(t) \ {w}
    <3>1. t # s \/ call[t] # "returned"
      BY <1>1, ItemsDiffer
    <3>2. scopeOf'[w] = s
      BY <1>1, <1>2
    <3>3. QED
      BY <1>1, <3>1, <3>2 DEF Of
  <2>3. Queued(t)' => Queued(t)
    BY <1>2, <1>3 DEF Queued
  <2>4. ASSUME call[t] = "returned" PROVE Behind(queue', t, Of(t)')
    <3>1. Behind(queue, t, Of(t)')
      BY <2>2, <2>4 DEF CallInv, Behind
    <3>2. w \notin Of(t)'
      BY <2>2, <2>4
    <3>3. Behind(Append(queue, w), t, Of(t)')
      BY <1>2, <3>1, <3>2, AppendBehind
    <3>4. QED
      BY <1>1, <3>1, <3>3
  <2>5. QED
    BY <1>1, <2>1, <2>2, <2>3, <2>4 DEF Cancelled
<1>7. ASSUME NEW t \in Scope, BatchesOf(t) # {}, t \notin forced, ~Cancelled(t)
      PROVE  call[t] = "returned" /\ \A v \in Of(t)' : fate'[v] # "accepted"
  <2>1. call[t] = "returned" /\ \A v \in Of(t) : fate[v] # "accepted"
    BY <1>7 DEF CallInv
  <2>2. QED
    BY <1>1, <1>6, <2>1 DEF Of
<1>8. /\ \A t \in Scope : Sorted(buffer'[t])
      /\ \A i \in 1..Len(batches') :
           Fine(batches'[i], scopeOf') /\ \A v \in ToSet(batches'[i]) : v \in Write /\ fate'[v] = "handed"
  BY <1>1, <1>4, <1>5 DEF CallInv
<1>9. ASSUME NEW t \in Scope
      PROVE  /\ Queued(t)' => call'[t] # "open"
             /\ call'[t] = "returned" => Behind(queue', t, Of(t)')
             /\ (BatchesOf(t)' # {} /\ t \notin forced' /\ ~Cancelled(t)') =>
                  call'[t] = "returned" /\ \A v \in Of(t)' : fate'[v] # "accepted"
             /\ (\E i, j \in BatchesOf(t)' : i # j) => t \in forced' \/ Cancelled(t)'
  <2>1. /\ Queued(t) => call[t] # "open"
        /\ (\E i, j \in BatchesOf(t) : i # j) => t \in forced \/ Cancelled(t)
    BY DEF CallInv
  <2>2. QED
    BY <1>1, <1>6, <1>7, <2>1
<1>10. QED
  BY <1>8, <1>9 DEF CallInv

LEMMA EndKeepsCalls ==
  ASSUME DispatcherInv, CallInv, NEW s \in Scope,
         ReturnCall(s) \/ CancelCall(s) \/ ThreadEnds(s)
  PROVE  CallInv'
<1>1. /\ queue' = queue \/ queue' = Append(queue, s)
      /\ call[s] \in {"open", "cancelled"} /\ call'[s] # "open"
      /\ call[s] = "cancelled" => call'[s] = "abandoned" /\ queue' = queue
      /\ \A t \in Scope \ {s} : call'[t] = call[t]
      /\ UNCHANGED <<buffer, batches, forced, scopeOf, fate>>
  BY DEF ReturnCall, CancelCall, ThreadEnds, EndScope, DispatcherInv, DispatcherTypeOK
<1>2. queue \in Seq(Item) /\ s \in Item /\ s \notin Write
  BY ItemsDiffer DEF DispatcherInv, DispatcherTypeOK, Item
<1>3. ToSet(queue') \subseteq ToSet(queue) \cup {s}
  <2>1. ToSet(Append(queue, s)) = ToSet(queue) \cup {s}
    BY <1>2, AppendHolds
  <2>2. QED
    BY <1>1, <2>1
<1>4. ASSUME NEW t \in Scope
      PROVE  /\ BatchesOf(t)' = BatchesOf(t) /\ Of(t)' = Of(t) /\ s \notin Of(t)
             /\ t # s => (Cancelled(t)' <=> Cancelled(t)) /\ (Queued(t)' => Queued(t))
             /\ Behind(queue, t, Of(t)) => Behind(queue', t, Of(t))
  <2>1. BatchesOf(t)' = BatchesOf(t) /\ Of(t)' = Of(t) /\ s \notin Of(t)
    BY <1>1, <1>2 DEF BatchesOf, Of
  <2>2. Behind(queue, t, Of(t)) => Behind(queue', t, Of(t))
    BY <1>1, <1>2, <2>1, AppendBehind
  <2>3. QED
    BY <1>1, <1>3, <2>1, <2>2 DEF Cancelled, Queued
<1>5. call[s] = "open" => Behind(queue, s, Of(s))
  <2>1. call[s] = "open" => s \notin ToSet(queue)
    BY DEF CallInv, Queued
  <2>2. QED
    BY <2>1 DEF Behind, ToSet
<1>6. ASSUME NEW t \in Scope
      PROVE  /\ Queued(t)' => call'[t] # "open"
             /\ call'[t] = "returned" => Behind(queue', t, Of(t)')
             /\ (BatchesOf(t)' # {} /\ t \notin forced' /\ ~Cancelled(t)') =>
                  call'[t] = "returned" /\ \A w \in Of(t)' : fate'[w] # "accepted"
             /\ (\E i, j \in BatchesOf(t)' : i # j) => t \in forced' \/ Cancelled(t)'
  <2>1. CASE t = s
    <3>1. call[s] = "cancelled" => Cancelled(s)'
      BY <1>1 DEF Cancelled
    <3>2. call[s] = "open" => BatchesOf(s) = {} \/ s \in forced
      BY DEF CallInv, Cancelled
    <3>3. call[s] = "open" /\ call'[s] = "returned" => Behind(queue', s, Of(s)')
      BY <1>4, <1>5
    <3>4. QED
      BY <1>1, <1>4, <2>1, <3>1, <3>2, <3>3
  <2>2. CASE t # s
    BY <1>1, <1>4, <2>2 DEF CallInv
  <2>3. QED
    BY <2>1, <2>2
<1>7. QED
  BY <1>1, <1>6 DEF CallInv

LEMMA FlushKeepsCalls ==
  ASSUME DispatcherInv, CallInv, NEW tokens \in Seq(Scope), NEW cause,
         EndsFollow(queue'), tokens # << >>, ToSet(tokens) \subseteq ToSet(open),
         cause = Head(tokens) => queue # << >> /\ Head(queue) = cause,
         FlushScopes(tokens, cause), UNCHANGED <<call, scopeOf>>
  PROVE  CallInv'
<1> DEFINE s == Head(tokens)
           b == buffer[s]
<1>1. s \in Scope /\ s \in ToSet(open)
  BY TailHolds
<1>2. /\ batches' = Append(batches, b)
      /\ fate' = [w \in Write |-> IF w \in ToSet(b) THEN "handed" ELSE fate[w]]
      /\ buffer' = [buffer EXCEPT ![s] = << >>]
      /\ forced' = IF cause = s THEN forced ELSE forced \cup {s}
  BY DEF FlushScopes, HandOver
<1> HIDE DEF s
<1>3. b \in Seq(Write) /\ buffer \in [Scope -> Seq(Write)] /\ queue \in Seq(Item)
  BY <1>1 DEF DispatcherInv, DispatcherTypeOK
<1>4. \A w \in ToSet(b) : w \in Write /\ fate[w] = "accepted" /\ scopeOf[w] = s
  BY <1>1, <1>3, HoldsOnly DEF DispatcherInv, BuffersAreOlder
<1>5. Fine(b, scopeOf)
  <2>1. DOMAIN b = 1..Len(b) /\ Sorted(b)
    BY <1>1, <1>3, LenProperties DEF CallInv
  <2>2. \A i \in DOMAIN b : b[i] \in Write
    BY <1>3, <2>1, ElementOfSeq
  <2>3. s # None
    BY <1>1, ItemsDiffer
  <2>4. \A i, j \in DOMAIN b : i < j => b[i] < b[j]
    BY <2>1, <2>2 DEF Sorted
  <2>5. QED
    BY <1>4, <2>3, <2>4 DEF Fine
<1>6. \A t \in Scope : Sorted(buffer'[t])
  <2>1. Sorted(<< >>)
    BY EmptySeq DEF Sorted
  <2>2. QED
    BY <1>1, <1>2, <1>3, <2>1 DEF CallInv
<1>7. ASSUME cause = s
      PROVE  call[s] # "open" /\ (call[s] = "returned" => \A w \in Of(s) : fate'[w] # "accepted")
  <2>1. Queued(s) /\ (call[s] = "returned" => ToSet(queue) \cap Of(s) = {})
    <3>1. queue # << >> /\ Head(queue) = s
      BY <1>7 DEF s
    <3>2. s \in ToSet(queue)
      BY <1>3, <3>1, TailHolds
    <3>3. call[s] = "returned" => Behind(queue, s, Of(s))
      BY <1>1 DEF CallInv
    <3>4. QED
      BY <1>3, <3>1, <3>2, <3>3, TailBehind DEF Queued
  <2>2. ASSUME call[s] = "returned", NEW w \in Of(s), fate'[w] = "accepted" PROVE FALSE
    <3>1. w \in Write /\ scopeOf[w] = s /\ ~Queued(w)
      BY <2>1, <2>2 DEF Of, Queued
    <3>2. fate[w] = "accepted" /\ w \notin ToSet(b)
      BY <1>2, <2>2, <3>1
    <3>3. QED
      BY <3>1, <3>2 DEF DispatcherInv, AcceptedIsHeld
  <2>3. QED
    BY <1>1, <2>1, <2>2 DEF CallInv
<1>8. ASSUME NEW t \in Scope, ToSet(b) \cap Of(t) # {}
      PROVE  \/ t \in forced' \/ Cancelled(t)
             \/ call[t] = "returned" /\ \A w \in Of(t) : fate'[w] # "accepted"
  <2>1. t = s
    BY <1>4, <1>8 DEF Of
  <2>2. call[s] \in {"open", "returned", "cancelled", "abandoned"}
    BY <1>1 DEF DispatcherInv, DispatcherTypeOK
  <2>3. QED
    BY <1>2, <1>7, <2>1, <2>2 DEF Cancelled
<1>9. forced \subseteq forced'
  BY <1>2
<1> HIDE DEF b
<1>10. \A w \in Write : fate'[w] = IF w \in ToSet(b) THEN "handed" ELSE fate[w]
  BY <1>2
<1>11. QED
  BY <1>2, <1>3, <1>4, <1>5, <1>6, <1>8, <1>9, <1>10, HandKeepsCalls

LEMMA TakeWriteKeepsCalls ==
  ASSUME DispatcherInv, CallInv, NEW w \in Write, queue # << >>, w = Head(queue),
         EndsFollow(queue'), TakeWrite(w), UNCHANGED <<call, scopeOf>>
  PROVE  CallInv'
<1>1. fate[w] = "accepted" /\ Queued(w) /\ scopeOf[w] \in Scope \cup {None}
  <2>1. w \in ToSet(queue)
    BY HeadIsTaken
  <2>2. QED
    BY <2>1 DEF DispatcherInv, DispatcherTypeOK, QueueInOrder, Queued
<1>2. CASE scopeOf[w] = None
  <2> DEFINE b == <<w>>
  <2>1. b \in Seq(Write) /\ ToSet(b) = {w} /\ Len(b) = 1 /\ DOMAIN b = {1}
    BY DEF ToSet
  <2>2. /\ batches' = Append(batches, b)
        /\ fate' = [v \in Write |-> IF v \in ToSet(b) THEN "handed" ELSE fate[v]]
        /\ UNCHANGED <<buffer, forced>>
    BY <1>2 DEF TakeWrite, HandOver
  <2> HIDE DEF b
  <2>3. Fine(b, scopeOf)
    BY <2>1 DEF Fine
  <2>4. \A s \in Scope : ToSet(b) \cap Of(s) = {}
    BY <1>2, <2>1, ItemsDiffer DEF Of
  <2>5. \A s \in Scope : Sorted(buffer'[s])
    BY <2>2 DEF CallInv
  <2>6. QED
    BY <1>1, <2>1, <2>2, <2>3, <2>4, <2>5, HandKeepsCalls
<1>3. CASE scopeOf[w] # None
  <2> DEFINE s == scopeOf[w]
  <2>1. /\ s \in Scope /\ buffer' = [buffer EXCEPT ![s] = Append(@, w)]
        /\ UNCHANGED <<fate, batches, forced>>
    BY <1>1, <1>3 DEF TakeWrite, BufferWrite
  <2> HIDE DEF s
  <2>2. buffer \in [Scope -> Seq(Write)]
    BY DEF DispatcherInv, DispatcherTypeOK
  <2>3. ASSUME NEW t \in Scope PROVE Sorted(buffer'[t])
    <3>1. \A v \in ToSet(buffer[s]) \cap Write : v < w
      BY <1>1, <2>1 DEF DispatcherInv, BuffersAreOlder
    <3>2. Sorted(buffer[s])
      BY <2>1 DEF CallInv
    <3>3. Sorted(Append(buffer[s], w))
      BY <2>1, <2>2, <3>1, <3>2, AppendSorted
    <3>4. QED
      BY <2>1, <2>2, <3>3 DEF CallInv
  <2>4. ASSUME NEW t \in Scope
        PROVE  Of(t)' = Of(t) /\ BatchesOf(t)' = BatchesOf(t) /\ (Cancelled(t)' <=> Cancelled(t))
    BY <2>1 DEF Of, BatchesOf, Cancelled
  <2>5. QED
    BY <2>1, <2>3, <2>4 DEF CallInv, EndsFollow, Queued
<1>4. QED
  BY <1>2, <1>3

LEMMA WorkerKeepsCalls ==
  ASSUME DispatcherInv, CallInv, WorkerSteps
  PROVE  CallInv'
<1>1. UNCHANGED <<call, scopeOf>>
  BY DEF WorkerSteps, Take, CallReturns
<1>2. ASSUME NEW cause, Finished(cause), EndsFollow(queue') PROVE CallInv'
  BY <1>1, <1>2, CallFrame DEF Finished
<1>3. CASE Take
  <2> DEFINE i == Head(queue)
  <2>1. queue # << >> /\ EndsFollow(queue') /\ open \in Seq(Scope)
    BY <1>3, TakeCases, EndsFollowTail DEF DispatcherInv, DispatcherTypeOK
  <2>2. \/ Finished(i)
        \/ open # << >> /\ FlushScopes(open, i)
        \/ i \in Scope /\ i \in ToSet(open) /\ FlushScopes(<<i>>, i)
        \/ i \in Write /\ TakeWrite(i)
    BY <1>3, TakeCases
  <2>3. CASE open # << >> /\ FlushScopes(open, i)
    BY <1>1, <2>1, <2>3, FlushKeepsCalls
  <2>4. CASE i \in Scope /\ i \in ToSet(open) /\ FlushScopes(<<i>>, i)
    <3>1. <<i>> \in Seq(Scope) /\ <<i>> # << >> /\ ToSet(<<i>>) = {i}
      BY <2>4 DEF ToSet
    <3>2. QED
      BY <1>1, <2>1, <2>4, <3>1, FlushKeepsCalls
  <2>5. CASE i \in Write /\ TakeWrite(i)
    BY <1>1, <2>1, <2>5, TakeWriteKeepsCalls
  <2>6. QED
    BY <1>2, <2>1, <2>2, <2>3, <2>4, <2>5
<1>4. CASE CallReturns
  <2>1. EndsFollow(queue')
    BY <1>4 DEF CallReturns, CallInv, EndsFollow, Queued
  <2>2. /\ worker.rest \in Seq(Scope) /\ ToSet(worker.rest) \subseteq ToSet(open)
        /\ worker.rest # << >> => worker.cause \in Drainer \cup {Stop}
        /\ \/ Finished(worker.cause)
           \/ worker.rest # << >> /\ FlushScopes(worker.rest, worker.cause)
    BY <1>4 DEF CallReturns, DispatcherInv, DispatcherTypeOK, OpenIsBuffered
  <2>3. worker.rest # << >> => worker.cause # Head(worker.rest)
    BY <2>2, TailHolds, ItemsDiffer
  <2>4. QED
    BY <1>1, <1>2, <2>1, <2>2, <2>3, FlushKeepsCalls
<1>5. QED
  BY <1>3, <1>4 DEF WorkerSteps

LEMMA CallsKeep ==
  ASSUME DispatcherInv, CallInv, [DispatcherNext]_dispatcherVars
  PROVE  CallInv'
<1>1. CASE Fires
  BY <1>1, FireKeepsCalls DEF Fires
<1>2. CASE Ends
  BY <1>2, EndKeepsCalls DEF Ends
<1>3. CASE WorkerSteps
  BY <1>3, WorkerKeepsCalls
<1>4. CASE CallKills \/ Drains \/ Closes \/ UNCHANGED dispatcherVars
  <2>1. /\ UNCHANGED <<buffer, batches, forced, call, scopeOf, fate>>
        /\ queue' = queue \/ \E x \in Drainer \cup {Stop} : queue' = Append(queue, x)
    BY <1>4 DEF CallKills, Drains, DrainBegins, DrainReturns, DrainTimesOut, Closes, CloseMarks,
                CloseStops, CloseJoins, dispatcherVars
  <2>2. \A x \in Drainer \cup {Stop} : x \in Item \ (Write \cup Scope)
    BY ItemsDiffer DEF Item
  <2>3. EndsFollow(queue')
    BY <2>1, <2>2, EndsFollowAppend
  <2>4. QED
    BY <2>1, <2>3, CallFrame
<1>5. QED
  BY <1>1, <1>2, <1>3, <1>4 DEF DispatcherNext

(* Every batch holds the writes of one call, or one write of none, in the  *)
(* order they were fired; and a call is handed over at once, unless a      *)
(* drain or a close came in the middle or the call was cancelled           *)
(* (write_callback.py:11-24, _commit_scope.py:23-26).                      *)
THEOREM OneCallOneCommitHolds == DispatcherSpec => []OneCallOneCommit
<1>1. DispatcherInv /\ CallInv /\ [DispatcherNext]_dispatcherVars => CallInv'
  BY CallsKeep
<1>2. CallInv => OneCallOneCommit
  BY DEF CallInv, OneCallOneCommit, Fine, Batch, Cancelled
<1>3. QED
  BY <1>1, <1>2, CallsStart, DispatcherInvariant, PTL DEF DispatcherSpec

-----------------------------------------------------------------------------
(* The git strategy behind it.                                             *)

(* The callback has committed its batch and is about to schedule a push;   *)
(* or a write is in its hands, with no commit yet.                         *)
Scheduling == worker.pc = "calling" /\ stage = "schedule"
InHand(w) == worker.pc = "calling" /\ stage # "schedule" /\ w \in ToSet(worker.batch)
Holding(p) == puller[p] \in {"quiesce", "git"}

(* What the clone knows of origin is there, and writes are in a history    *)
(* only once a push of them is, or is about to be, scheduled.              *)
FetchedIsRemote == fetched \subseteq remote
WritesAreScheduled == (local \cup remote) \cap Write = {} \/ scheduled \/ Scheduling

(* The strategy is closed after the dispatcher, and its last push has been *)
(* made or has failed.                                                     *)
ClosedInOrder ==
  /\ StrategyClosed => closer = "done"
  /\ \A w \in Write : fate[w] = "refused" => closed
LastPushSays ==
  (shut = "done" /\ late = {}) => local \cap Write \subseteq remote \/ "push" \in health

(* A write in no commit is still with the dispatcher, is in the hands of   *)
(* the callback, failed, was refused, or came to a strategy that was       *)
(* closed over a worker still at work.                                     *)
DirtyIsTold ==
  \A w \in dirty :
    \/ fate[w] \in {"accepted", "refused"}
    \/ InHand(w) \/ w \in failed
    \/ StrategyClosed /\ "join" \in late

(* The callback is done with whatever a drain answered True for.           *)
DrainedIsDone ==
  /\ \A d \in event : \A w \in before[d] : fate[w] = "handed" /\ ~InHand(w)
  /\ \A d \in Drainer : drain[d] = "true" => closed \/ d \in event \/ before[d] = {}

(* What the callback has in hand was handed to it.                         *)
HandIsHanded == \A w \in Write : InHand(w) => fate[w] = "handed"

(* Nothing is accepted between a pull's drain and its merge.               *)
PausedIsSeen == \A p \in Puller : Holding(p) => Accepted \subseteq before[p]

PushInv == FetchedIsRemote /\ UnpushedIsPending /\ WritesAreScheduled /\ LastPushSays
PauseInv == ClosedInOrder /\ DirtyIsTold /\ DrainedIsDone /\ HandIsHanded /\ PausedIsSeen
GitInv == GitTypeOK /\ DispatcherInv /\ PushInv /\ PauseInv

-----------------------------------------------------------------------------
(* The dispatcher under the strategy.                                      *)

(* A thread that drains again starts from a marker nobody waits for        *)
(* (write_callback.py:351-412).                                            *)
LEMMA NextDrainKeeps ==
  ASSUME DispatcherInv, NEW p \in Drainer, NextDrain(p)
  PROVE  DispatcherInv'
<1> USE DEF DispatcherInv, Queued, Calling, Known
<1>1. /\ ~Queued(p) /\ worker.cause # p
      /\ drain' = [drain EXCEPT ![p] = "ready"] /\ event' = event \ {p}
      /\ before' = [before EXCEPT ![p] = {}]
      /\ UNCHANGED <<queue, open, buffer, worker, closed, closer, call, scopeOf, fate, batches,
                     forced, late>>
  BY DEF NextDrain
<1>2. DispatcherTypeOK'
  BY <1>1 DEF DispatcherTypeOK
<1>3. QueueInOrder' /\ BuffersAreOlder' /\ AcceptedIsHeld' /\ OpenIsBuffered'
  BY <1>1 DEF QueueInOrder, BuffersAreOlder, AcceptedIsHeld, OpenIsBuffered
<1>4. MarkersInOrder'
  <2> SUFFICES ASSUME NEW d \in Drainer
               PROVE  /\ drain'[d] = "ready" => ~Queued(d)' /\ d \notin event' /\ ~Calling(d)'
                      /\ Behind(queue', d, before'[d])
                      /\ \A w \in before'[d] : Known(w)'
                      /\ Calling(d)' => \A w \in before'[d] : ~Queued(w)'
                      /\ d \in event' => \A w \in before'[d] : fate'[w] = "handed"
    BY DEF MarkersInOrder
  <2>1. CASE d = p
    <3>1. before'[d] = {} /\ ~Queued(d) /\ d \notin event' /\ ~Calling(d)'
      BY <1>1, <2>1 DEF DispatcherTypeOK
    <3>2. QED
      BY <1>1, <3>1 DEF Behind
  <2>2. CASE d # p
    <3>1. before'[d] = before[d] /\ drain'[d] = drain[d] /\ (d \in event' <=> d \in event)
      BY <1>1, <2>2 DEF DispatcherTypeOK
    <3>2. QED
      BY <1>1, <3>1 DEF MarkersInOrder
  <2>3. QED
    BY <2>1, <2>2
<1>5. ShutInOrder'
  BY <1>1 DEF ShutInOrder, Waiting, Alive
<1>6. QED
  BY <1>2, <1>3, <1>4, <1>5

(* What the strategy, the pulls and the shutdown do is a step of the       *)
(* dispatcher, or none, or makes a drain ready again.                      *)
LEMMA DispatcherBelow ==
  ASSUME GitNext
  PROVE  DispatcherNext \/ UNCHANGED dispatcherVars \/ \E p \in Puller : NextDrain(p)
<1> USE DEF DispatcherNext
<1>1. ASSUME NEW w \in Write, WriteFile(w) PROVE DispatcherNext
  BY <1>1 DEF WriteFile, Fires
<1>2. CASE CallbackSteps \/ InitFails \/ CommitFails \/ WorkerDies
  BY <1>2, Zenon DEF CallbackSteps, DispatcherTakes, CallbackChecks, CallbackInits, CallbackCommits,
                CallbackSchedules, InitFails, CommitFails, WorkerDies, WorkerSteps
<1>3. CASE TimerRipens \/ TimerPushes
  BY <1>3 DEF TimerRipens, TimerPushes
<1>4. ASSUME NEW p \in Puller, PullBegins(p) \/ PullSteps(p) \/ PullGivesUp(p)
      PROVE  DispatcherNext \/ UNCHANGED dispatcherVars
  <2>1. p \in Drainer
    BY PullersDrain
  <2>2. QED
    BY <1>4, <2>1, Zenon DEF PullBegins, PullSteps, PullGivesUp, PullDrained, PullLocks, PullGit, Drains
<1>5. CASE TickPushes \/ TickFails \/ \E p \in Tool : ToolPushes(p) \/ ToolEnds(p)
  BY <1>5, Zenon DEF TickPushes, TickFails, ToolPushes, ToolEnds, Puller
<1>6. ASSUME NEW e \in Ext, OthersPush(e) PROVE UNCHANGED dispatcherVars
  BY <1>6 DEF OthersPush
<1>7. CASE StopLoop \/ ShutdownSteps \/ JoinGivesUp
  BY <1>7, Zenon DEF StopLoop, ShutdownSteps, JoinGivesUp, LoopJoined, DispatcherCloses, StrategyMarks,
                FlushCancels, FlushPushes, Closes
<1>8. QED
  BY <1>1, <1>2, <1>3, <1>4, <1>5, <1>6, <1>7, Zenon DEF GitNext

(* The dispatcher's invariant holds under the strategy.                    *)
LEMMA DispatcherKeptBelow ==
  ASSUME DispatcherInv, [GitNext]_syncVars
  PROVE  DispatcherInv'
<1>1. CASE GitNext
  <2>1. DispatcherNext \/ UNCHANGED dispatcherVars => DispatcherInv'
    BY DispatcherKeeps
  <2>2. ASSUME NEW p \in Puller, NextDrain(p) PROVE DispatcherInv'
    BY <2>2, PullersDrain, NextDrainKeeps
  <2>3. QED
    BY <1>1, <2>1, <2>2, DispatcherBelow
<1>2. CASE UNCHANGED syncVars
  BY <1>2, DispatcherKeeps DEF syncVars
<1>3. QED
  BY <1>1, <1>2

(* A turn of the worker: it rests again, or it has a batch of writes that  *)
(* were accepted and nobody had; what a drain waits for is done only when  *)
(* it rests.                                                               *)
Turns ==
  \/ worker'.pc # "calling" /\ fate' = fate /\ event \subseteq event'
  \/ /\ worker'.pc = "calling" /\ event' = event
     /\ \A w \in ToSet(worker'.batch) : w \in Write /\ fate[w] = "accepted"
     /\ \A w \in Write : fate'[w] = IF w \in ToSet(worker'.batch) THEN "handed" ELSE fate[w]

(* A batch of an open call turns the worker to the callback                *)
(* (write_callback.py:227-251).                                            *)
LEMMA FlushTurns ==
  ASSUME DispatcherInv, NEW tokens \in Seq(Scope), NEW cause,
         tokens # << >>, ToSet(tokens) \subseteq ToSet(open), FlushScopes(tokens, cause)
  PROVE  Turns
<1> DEFINE s == Head(tokens)
<1>1. s \in Scope
  BY TailHolds
<1>2. /\ worker' = [pc |-> "calling", batch |-> buffer[s], rest |-> Tail(tokens), cause |-> cause]
      /\ fate' = [w \in Write |-> IF w \in ToSet(buffer[s]) THEN "handed" ELSE fate[w]]
      /\ event' = event
  BY DEF FlushScopes, HandOver
<1> HIDE DEF s
<1>3. ToSet(buffer[s]) \subseteq Write /\ \A w \in ToSet(buffer[s]) : fate[w] = "accepted"
  BY <1>1, BuffersHoldWrites DEF DispatcherInv, BuffersAreOlder
<1>4. worker'.pc = "calling" /\ worker'.batch = buffer[s]
  BY <1>2
<1>5. QED
  BY <1>2, <1>3, <1>4 DEF Turns

(* Whoever finishes rests or has left (write_callback.py:308-349).         *)
LEMMA FinishTurns ==
  ASSUME NEW cause, Finished(cause)
  PROVE  Turns /\ worker'.pc # "calling"
<1>1. worker'.pc = IF cause = Stop THEN "exited" ELSE "idle"
  BY DEF Finished, Resting
<1>2. QED
  BY <1>1 DEF Finished, Turns

(* Each step of the worker is a turn (write_callback.py:308-349).          *)
LEMMA WorkerTurns ==
  ASSUME DispatcherInv, WorkerSteps
  PROVE  Turns
<1>1. CASE Take
  <2> DEFINE i == Head(queue)
  <2>1. queue # << >> /\ worker.pc = "idle" /\ open \in Seq(Scope)
    BY <1>1, TakeCases DEF DispatcherInv, DispatcherTypeOK
  <2>2. \/ Finished(i)
        \/ open # << >> /\ FlushScopes(open, i)
        \/ i \in Scope /\ i \in ToSet(open) /\ FlushScopes(<<i>>, i)
        \/ i \in Write /\ TakeWrite(i)
    BY <1>1, TakeCases
  <2>3. CASE open # << >> /\ FlushScopes(open, i)
    BY <2>1, <2>3, FlushTurns
  <2>4. CASE i \in Scope /\ i \in ToSet(open) /\ FlushScopes(<<i>>, i)
    <3>1. <<i>> \in Seq(Scope) /\ <<i>> # << >> /\ ToSet(<<i>>) = {i}
      BY <2>4 DEF ToSet
    <3>2. QED
      BY <2>4, <3>1, FlushTurns
  <2>5. CASE i \in Write /\ TakeWrite(i)
    <3>1. CASE scopeOf[i] = None
      <4>1. ToSet(<<i>>) = {i}
        BY DEF ToSet
      <4>2. ToSet(queue) = {i} \cup ToSet(Tail(queue))
        BY <2>1, HeadIsTaken
      <4>3. fate[i] = "accepted"
        BY <2>5, <4>2 DEF DispatcherInv, QueueInOrder, Queued
      <4>4. /\ worker' = [pc |-> "calling", batch |-> <<i>>, rest |-> << >>, cause |-> i]
            /\ fate' = [v \in Write |-> IF v \in {i} THEN "handed" ELSE fate[v]]
            /\ event' = event
        BY <2>5, <3>1, <4>1 DEF TakeWrite, HandOver
      <4>5. worker'.pc = "calling" /\ worker'.batch = <<i>>
        BY <4>4
      <4>6. QED
        BY <2>5, <4>1, <4>3, <4>4, <4>5 DEF Turns
    <3>2. CASE scopeOf[i] # None
      BY <2>1, <2>5, <3>2 DEF TakeWrite, BufferWrite, Turns
    <3>3. QED
      BY <3>1, <3>2
  <2>6. QED
    BY <2>2, <2>3, <2>4, <2>5, FinishTurns
<1>2. CASE CallReturns
  <2>1. /\ worker.rest \in Seq(Scope) /\ ToSet(worker.rest) \subseteq ToSet(open)
        /\ \/ Finished(worker.cause)
           \/ worker.rest # << >> /\ FlushScopes(worker.rest, worker.cause)
    BY <1>2 DEF CallReturns, DispatcherInv, DispatcherTypeOK, OpenIsBuffered
  <2>2. QED
    BY <2>1, FlushTurns, FinishTurns
<1>3. QED
  BY <1>1, <1>2 DEF WorkerSteps

-----------------------------------------------------------------------------
(* The types, with the two locks and the place of the callback.            *)

(* The strategy starts with its locks free (strategy.py:167-235).          *)
LEMMA GitStarts == GitInit => GitInv
<1> SUFFICES ASSUME GitInit PROVE GitInv
  OBVIOUS
<1>1. DispatcherInv /\ DispatcherTypeOK
  BY DispatcherStarts DEF GitInit, DispatcherInv
<1>2. /\ fate = [w \in Write |-> "unfired"] /\ event = {} /\ drain = [d \in Drainer |-> "ready"]
      /\ worker.pc = "unstarted" /\ closed = FALSE
  BY DEF GitInit, DispatcherInit, Resting
<1>3. GitTypeOK
  <2>1. None \notin Puller /\ 0 \in 0..MaxFaults
    BY ItemsDiffer, PullersDrain, FaultsAreCounted
  <2>2. puller \in [Puller -> {"rest", "quiesce", "git", "after"}]
    BY DEF GitInit
  <2>3. \A p \in Puller : /\ fileLock = p <=> puller[p] \in {"quiesce", "git"}
                          /\ gitLock = p <=> puller[p] = "git"
    BY <2>1 DEF GitInit
  <2>4. QED
    BY <1>1, <2>1, <2>2, <2>3 DEF GitInit, GitTypeOK, Commit
<1>4. PushInv
  BY CommitsDiffer DEF GitInit, PushInv, FetchedIsRemote, UnpushedIsPending, WritesAreScheduled,
                       LastPushSays
<1>5. PauseInv
  BY <1>2 DEF GitInit, PauseInv, ClosedInOrder, DirtyIsTold, DrainedIsDone, PausedIsSeen, Holding,
              StrategyClosed, HandIsHanded, InHand
<1>6. QED
  BY <1>1, <1>3, <1>4, <1>5 DEF GitInv

(* What a step does to the worker while the callback is under way: nothing *)
(* but the steps of the callback itself.                                   *)
LEMMA FireLeavesCallback ==
  ASSUME DispatcherInv, NEW w \in Write, Fire(w, None)
  PROVE  worker' = worker \/ (worker.pc # "calling" /\ worker'.pc = "idle")
BY DEF Fire, Alive, Resting

(* One more failure, or none, is within the bound.                         *)
LEMMA FaultCounted ==
  ASSUME faults \in 0..MaxFaults, Fault \/ faults' = faults
  PROVE  faults' \in 0..MaxFaults
BY FaultsAreCounted DEF Fault

(* A push leaves the types as they were (push_scheduler.py:156-253).       *)
LEMMA PushTyped ==
  ASSUME GitTypeOK, PushSucceeds \/ PushFails \/ UNCHANGED <<remote, fetched, health, faults>>
  PROVE  /\ remote' \subseteq Commit /\ fetched' \subseteq Commit
         /\ health' \subseteq {"push", "pull"} /\ faults' \in 0..MaxFaults
<1>1. faults' \in 0..MaxFaults
  <2>1. Fault \/ faults' = faults
    BY DEF PushSucceeds, PushFails
  <2>2. QED
    BY <2>1, FaultCounted DEF GitTypeOK
<1>2. QED
  BY <1>1 DEF GitTypeOK, PushSucceeds, PushFails, PushArrives, PushIsRefused

(* do_push pushes or leaves all as it was (push_scheduler.py:156-195).     *)
LEMMA DoPushTyped ==
  ASSUME GitTypeOK, DoPush
  PROVE  /\ remote' \subseteq Commit /\ fetched' \subseteq Commit /\ pending' \in BOOLEAN
         /\ health' \subseteq {"push", "pull"} /\ faults' \in 0..MaxFaults
<1>1. PushSucceeds \/ PushFails \/ UNCHANGED <<remote, fetched, health, faults>>
  BY Zenon DEF DoPush
<1>2. pending' \in BOOLEAN
  BY DEF DoPush, GitTypeOK
<1>3. QED
  BY <1>1, <1>2, PushTyped

(* A step of a thread keeps the types and the locks (strategy.py:303-      *)
(* 491, strategy.py:782-1740).                                             *)
LEMMA GitTypesKept ==
  ASSUME GitTypeOK, DispatcherInv, DispatcherInv', GitNext
  PROVE  GitTypeOK'
<1> USE PullersDrain, ItemsDiffer, FaultsAreCounted DEF GitTypeOK
<1>t. DispatcherTypeOK'
  BY DEF DispatcherInv
<1>n. None \notin Puller
  OBVIOUS
<1>1. ASSUME NEW w \in Write, WriteFile(w) PROVE GitTypeOK'
  BY <1>t, <1>1, FireLeavesCallback DEF WriteFile
<1>2. CASE DispatcherTakes
  BY <1>t, <1>2 DEF DispatcherTakes, Take, gitVars
<1>3. CASE CallbackChecks
  BY <1>t, <1>3, Zenon DEF CallbackChecks, dispatcherVars
<1>b. ASSUME NEW w \in ToSet(worker.batch) PROVE w \in Write
  <2>1. worker.batch \in Seq(Write)
    BY DEF DispatcherInv, DispatcherTypeOK
  <2>2. QED
    BY <2>1, HoldsOnly
<1>4. CASE CallbackInits
  <2>1. CASE PushSucceeds \/ PushFails \/ UNCHANGED <<remote, fetched, health, faults>>
    BY <1>t, <1>4, <2>1, PushTyped DEF CallbackInits, dispatcherVars
  <2>2. CASE Fault /\ UNCHANGED <<remote, fetched, health>>
    BY <1>t, <1>4, <2>2, FaultCounted DEF CallbackInits, dispatcherVars
  <2>3. QED
    BY <1>4, <2>1, <2>2, Zenon DEF CallbackInits
<1>5. CASE CallbackCommits
  BY <1>t, <1>b, <1>5 DEF CallbackCommits, Commit, dispatcherVars
<1>6. CASE CommitFails
  BY <1>t, <1>b, <1>6 DEF CommitFails, Fault
<1>i. CASE InitFails
  <2>1. /\ remote' \subseteq Commit /\ fetched' \subseteq Commit
        /\ health' \subseteq {"push", "pull"}
    BY <1>i DEF InitFails, PushArrives, PushIsRefused
  <2>2. QED
    BY <1>t, <1>b, <1>i, <2>1, FaultCounted DEF InitFails
<1>q. CASE TickFails
  BY <1>t, <1>n, <1>q, FaultCounted DEF TickFails, NextDrain, Puller
<1>7. CASE CallbackSchedules
  BY <1>t, <1>7 DEF CallbackSchedules
<1>8. CASE WorkerDies
  BY <1>t, <1>b, <1>8 DEF WorkerDies, Fault
<1>9. CASE TimerRipens \/ TimerPushes
  <2>1. CASE TimerRipens
    BY <1>t, <2>1 DEF TimerRipens, dispatcherVars
  <2>2. CASE TimerPushes
    BY <1>t, <2>2, DoPushTyped DEF TimerPushes, dispatcherVars
  <2>3. QED
    BY <1>9, <2>1, <2>2
<1>10. ASSUME NEW p \in Puller, PullBegins(p) PROVE GitTypeOK'
  BY <1>t, <1>n, <1>10 DEF PullBegins, DrainBegins
<1>11. ASSUME NEW p \in Puller, PullDrained(p) \/ PullGivesUp(p) PROVE GitTypeOK'
  <2>1. CASE PullDrained(p)
    BY <1>t, <2>1 DEF PullDrained, DrainReturns, gitVars
  <2>2. CASE PullGivesUp(p)
    BY <1>t, <2>2, FaultCounted DEF PullGivesUp, DrainTimesOut
  <2>3. QED
    BY <1>11, <2>1, <2>2
<1>12. ASSUME NEW p \in Puller, PullLocks(p) PROVE GitTypeOK'
  BY <1>t, <1>n, <1>12 DEF PullLocks, dispatcherVars
<1>13. ASSUME NEW p \in Puller, PullGit(p) PROVE GitTypeOK'
  <2>1. /\ local' \subseteq Commit /\ fetched' \subseteq Commit /\ dirty' \subseteq Write
        /\ failed' \subseteq Write /\ health' \subseteq {"push", "pull"} /\ faults' \in 0..MaxFaults
    <3>1. CASE FetchFails
      BY <3>1, FaultCounted DEF FetchFails
    <3>2. CASE PullApplies
      BY <3>2 DEF PullApplies
    <3>3. CASE PullRefused
      <4>1. Fault \/ faults' = faults
        BY <3>3 DEF PullRefused
      <4>2. QED
        BY <3>3, <4>1, FaultCounted DEF PullRefused
    <3>4. CASE PullSavesSiblings
      <4>1. Fault \/ faults' = faults
        BY <3>4, Zenon DEF PullSavesSiblings
      <4>2. faults' \in 0..MaxFaults
        BY <4>1, FaultCounted
      <4>3. QED
        BY <3>4, <4>2 DEF PullSavesSiblings, Commit
    <3>5. CASE SiblingsUncommitted
      BY <3>5, FaultCounted DEF SiblingsUncommitted, Commit
    <3>6. QED
      BY <1>13, <3>1, <3>2, <3>3, <3>4, <3>5 DEF PullGit
  <2>2. QED
    BY <1>t, <1>n, <1>13, <2>1 DEF PullGit, dispatcherVars
<1>14. CASE TickPushes
  BY <1>t, <1>n, <1>14, DoPushTyped DEF TickPushes, NextDrain, Puller
<1>15. ASSUME NEW p \in Tool, ToolPushes(p) \/ ToolEnds(p) PROVE GitTypeOK'
  <2>1. /\ remote' \subseteq Commit /\ fetched' \subseteq Commit
        /\ health' \subseteq {"push", "pull"} /\ faults' \in 0..MaxFaults
    <3>1. CASE ToolPushes(p)
      <4>1. CASE fetched = local
        BY <3>1, <4>1 DEF ToolPushes
      <4>2. CASE fetched # local
        BY <3>1, <4>2, PushTyped DEF ToolPushes
      <4>3. QED
        BY <4>1, <4>2
    <3>2. CASE ToolEnds(p)
      BY <3>2 DEF ToolEnds
    <3>3. QED
      BY <1>15, <3>1, <3>2
  <2>2. /\ puller[p] = "after" /\ NextDrain(p)
        /\ UNCHANGED <<local, dirty, fileLock, gitLock, stage, initDone, pending, timer, shut,
                       failed, scheduled>>
    BY <1>15 DEF ToolPushes, ToolEnds
  <2>3. QED
    BY <1>t, <1>n, <2>1, <2>2 DEF NextDrain, Puller
<1>16. ASSUME NEW e \in Ext, OthersPush(e) PROVE GitTypeOK'
  BY <1>t, <1>16 DEF OthersPush, Commit, dispatcherVars
<1>17. CASE StopLoop \/ LoopJoined \/ StrategyMarks \/ FlushCancels
  <2>1. CASE StopLoop \/ LoopJoined \/ StrategyMarks
    <3>1. /\ UNCHANGED <<local, remote, fetched, dirty, failed, fileLock, gitLock, puller, stage>>
          /\ UNCHANGED <<initDone, pending, timer, health, faults, scheduled, worker>>
          /\ shut' \in {"joining", "stopped", "marked"}
      BY <2>1 DEF StopLoop, LoopJoined, StrategyMarks, dispatcherVars
    <3>2. QED
      BY <1>t, <3>1
  <2>2. CASE FlushCancels
    BY <1>t, <2>2 DEF FlushCancels, dispatcherVars
  <2>3. QED
    BY <1>17, <2>1, <2>2
<1>18. CASE DispatcherCloses \/ JoinGivesUp
  <2>1. worker' = worker
    BY <1>18 DEF DispatcherCloses, JoinGivesUp, CloseMarks, CloseStops, CloseJoins, dispatcherVars
  <2>2. QED
    <3>1. CASE DispatcherCloses
      BY <1>t, <2>1, <3>1 DEF DispatcherCloses, gitVars
    <3>2. CASE JoinGivesUp
      BY <1>t, <2>1, <3>2, FaultCounted DEF JoinGivesUp
    <3>3. QED
      BY <1>18, <3>1, <3>2
<1>19. CASE FlushPushes
  BY <1>t, <1>19, DoPushTyped DEF FlushPushes, dispatcherVars
<1>20. QED
  BY <1>1, <1>2, <1>3, <1>4, <1>5, <1>6, <1>7, <1>8, <1>9, <1>10, <1>11, <1>12, <1>13, <1>14,
     <1>15, <1>16, <1>17, <1>18, <1>19, <1>i, <1>q, Zenon
     DEF GitNext, CallbackSteps, PullSteps, ShutdownSteps

-----------------------------------------------------------------------------
(* What is not on origin is waited for.                                    *)

(* Once the strategy is closed the worker has ended, unless its join ran   *)
(* out of time (vault.py:1088-1122).                                       *)
LEMMA ClosedIsQuiet ==
  ASSUME DispatcherInv, ClosedInOrder, StrategyClosed, "join" \notin late
  PROVE  worker.pc # "calling" /\ ~Scheduling
<1>1. ~Alive
  BY DEF DispatcherInv, ShutInOrder, ClosedInOrder
<1>2. QED
  BY <1>1 DEF Alive, Scheduling

(* A step that pushes, commits and merges nothing, and forgets no failed   *)
(* push, leaves what is waited for as it was.                              *)
LEMMA PushFrame ==
  ASSUME PushInv, UNCHANGED <<local, remote, fetched, pending, scheduled>>,
         Scheduling => Scheduling', late \subseteq late',
         shut' = "done" => shut = "done",
         "push" \in health => "push" \in health'
  PROVE  PushInv'
<1> USE DEF PushInv
<1>1. FetchedIsRemote' /\ UnpushedIsPending' /\ WritesAreScheduled'
  BY DEF FetchedIsRemote, UnpushedIsPending, WritesAreScheduled, Scheduling
<1>2. LastPushSays'
  BY DEF LastPushSays
<1>3. QED
  BY <1>1, <1>2

(* A push brings origin up to the clone, or fails and says so              *)
(* (push_scheduler.py:156-195).                                            *)
LEMMA PushKeepsWaiting ==
  ASSUME PushInv, local' = local, scheduled' = scheduled, late' = late,
         \/ PushArrives
         \/ PushIsRefused /\ pending' = pending
         \/ UNCHANGED <<remote, fetched, pending>> /\ health \subseteq health',
         shut' = "done" => \/ shut = "done" \/ PushArrives \/ PushIsRefused
                           \/ local \cap Write \subseteq remote,
         Scheduling => Scheduling'
  PROVE  PushInv'
<1> USE DEF PushInv
<1>1. CASE PushArrives
  <2>1. remote' = local /\ fetched' = local /\ local' = local
    BY <1>1 DEF PushArrives
  <2>2. QED
    BY <2>1 DEF FetchedIsRemote, UnpushedIsPending, WritesAreScheduled, LastPushSays, Scheduling
<1>2. CASE PushIsRefused /\ pending' = pending
  <2>1. UNCHANGED <<remote, fetched, pending>> /\ "push" \in health'
    BY <1>2 DEF PushIsRefused
  <2>2. QED
    BY <2>1 DEF FetchedIsRemote, UnpushedIsPending, WritesAreScheduled, LastPushSays, Scheduling
<1>3. CASE /\ UNCHANGED <<remote, fetched, pending>> /\ health \subseteq health'
           /\ ~PushArrives /\ ~PushIsRefused
  <2>1. FetchedIsRemote' /\ UnpushedIsPending' /\ WritesAreScheduled'
    BY <1>3 DEF FetchedIsRemote, UnpushedIsPending, WritesAreScheduled, Scheduling
  <2>2. LastPushSays'
    BY <1>3 DEF LastPushSays
  <2>3. QED
    BY <2>1, <2>2
<1>4. QED
  BY <1>1, <1>2, <1>3

(* do_push is one of the ways of a push (push_scheduler.py:156-195).       *)
LEMMA DoPushWays ==
  ASSUME DoPush
  PROVE  \/ PushArrives
         \/ PushIsRefused /\ pending' = pending
         \/ UNCHANGED <<remote, fetched, pending>> /\ health \subseteq health' /\ ~pending
BY DEF DoPush, PushSucceeds, PushFails

(* With nothing pending and nobody about to schedule, every write of a     *)
(* commit is on origin (push_scheduler.py:156-165).                        *)
LEMMA NothingPending ==
  ASSUME PushInv, ~pending, ~Scheduling
  PROVE  local \cap Write \subseteq remote
BY DEF PushInv, FetchedIsRemote, UnpushedIsPending, WritesAreScheduled, Scheduling

(* A pull adds what is on origin, and commits of siblings; what it leaves  *)
(* unpushed was unpushed before (strategy.py:899-1228).                    *)
LEMMA PullKeepsWaiting ==
  ASSUME PushInv, NEW p \in Puller, PullGit(p)
  PROVE  PushInv'
<1>1. /\ local' \cap Write \subseteq local \cup remote /\ local' \subseteq local \cup remote \cup Sibling
      /\ UNCHANGED <<remote, pending, scheduled, shut, worker, stage, late>>
      /\ fetched' = fetched \/ fetched' = remote
      /\ "push" \in health => "push" \in health'
      /\ ~(local' \subseteq fetched') => ~(local \subseteq fetched)
  <2>1. UNCHANGED <<remote, pending, scheduled, shut, worker, stage, late>>
    BY DEF PullGit, dispatcherVars
  <2>2. CASE FetchFails
    BY <2>1, <2>2 DEF FetchFails
  <2>3. CASE PullApplies
    BY <2>1, <2>3 DEF PullApplies, PushInv, FetchedIsRemote
  <2>4. CASE PullRefused
    BY <2>1, <2>4 DEF PullRefused, PushInv, FetchedIsRemote
  <2>5. CASE PullSavesSiblings
    BY <2>1, <2>5, CommitsDiffer DEF PullSavesSiblings, PushInv, FetchedIsRemote
  <2>6. CASE SiblingsUncommitted
    BY <2>1, <2>6 DEF SiblingsUncommitted, PushInv, FetchedIsRemote
  <2>7. QED
    BY <2>2, <2>3, <2>4, <2>5, <2>6 DEF PullGit
<1>2. FetchedIsRemote' /\ UnpushedIsPending' /\ WritesAreScheduled'
  BY <1>1 DEF PushInv, FetchedIsRemote, UnpushedIsPending, WritesAreScheduled, Scheduling
<1>3. LastPushSays'
  BY <1>1 DEF PushInv, LastPushSays
<1>4. QED
  BY <1>2, <1>3 DEF PushInv

(* Every step leaves what is not on origin waited for.                     *)
LEMMA PushKept ==
  ASSUME GitTypeOK, DispatcherInv, PushInv, ClosedInOrder, GitNext
  PROVE  PushInv'
<1>s. stage # "check" => worker.pc = "calling"
  BY DEF GitTypeOK
<1>1. ASSUME NEW w \in Write, WriteFile(w) PROVE PushInv'
  <2>1. worker' = worker \/ worker.pc # "calling"
    BY <1>1, FireLeavesCallback DEF WriteFile
  <2>2. late' = late
    BY <1>1 DEF WriteFile, Fire
  <2>3. QED
    BY <1>1, <2>1, <2>2, PushFrame DEF WriteFile, Scheduling
<1>2. CASE DispatcherTakes
  <2>1. late' = late /\ ~Scheduling
    BY <1>2 DEF DispatcherTakes, Take, Scheduling
  <2>2. QED
    BY <1>2, <2>1, PushFrame DEF DispatcherTakes, gitVars
<1>3. CASE CallbackChecks
  <2>1. ~Scheduling /\ stage = "check"
    BY <1>3 DEF CallbackChecks, Scheduling
  <2>2. late' = late
    BY <1>3, Zenon DEF CallbackChecks, CallReturns, dispatcherVars
  <2>3. QED
    BY <1>3, <2>1, <2>2, PushFrame DEF CallbackChecks
<1>4. CASE CallbackInits
  <2>1. /\ ~Scheduling /\ UNCHANGED <<local, scheduled, late, pending, shut>>
        /\ PushArrives \/ PushIsRefused \/ UNCHANGED <<remote, fetched, health>>
    <3>1. stage = "init" /\ UNCHANGED <<local, scheduled, late, pending, shut>>
      BY <1>4 DEF CallbackInits, dispatcherVars
    <3>2. PushArrives \/ PushIsRefused \/ UNCHANGED <<remote, fetched, health>>
      BY <1>4, Zenon DEF CallbackInits, PushSucceeds, PushFails
    <3>3. QED
      BY <3>1, <3>2 DEF Scheduling
  <2>2. QED
    BY <2>1, PushKeepsWaiting
<1>5. CASE CallbackCommits
  <2>1. /\ worker.pc = "calling" /\ stage' = "schedule"
        /\ UNCHANGED <<worker, remote, fetched, pending, scheduled, shut, health, late>>
    BY <1>5 DEF CallbackCommits, dispatcherVars
  <2>2. Scheduling'
    BY <2>1 DEF Scheduling
  <2>3. ~(StrategyClosed /\ late = {})
    BY <2>1, ClosedIsQuiet
  <2>4. QED
    BY <2>1, <2>2, <2>3 DEF PushInv, FetchedIsRemote, UnpushedIsPending, WritesAreScheduled,
                            LastPushSays, Scheduling, StrategyClosed
<1>i. CASE InitFails
  <2>1. ~Scheduling /\ UNCHANGED <<local, scheduled, late, pending, shut>>
    BY <1>i DEF InitFails, CallReturns, Scheduling
  <2>2. PushArrives \/ PushIsRefused \/ UNCHANGED <<remote, fetched, health>>
    BY <1>i, Zenon DEF InitFails
  <2>3. QED
    BY <2>1, <2>2, PushKeepsWaiting
<1>q. CASE TickFails
  BY <1>q, PushFrame DEF TickFails, NextDrain, Scheduling
<1>6. CASE CommitFails \/ WorkerDies
  <2>1. /\ ~Scheduling /\ late \subseteq late'
        /\ UNCHANGED <<local, remote, fetched, pending, scheduled, shut, health>>
    BY <1>6 DEF CommitFails, WorkerDies, CallReturns, CallKills, Scheduling
  <2>2. QED
    BY <2>1, PushFrame
<1>7. CASE CallbackSchedules
  <2>1. /\ Scheduling /\ late' = late
        /\ UNCHANGED <<local, remote, fetched, shut, health>>
    BY <1>7 DEF CallbackSchedules, CallReturns, Scheduling
  <2>2. pending' /\ scheduled'
    BY <1>7 DEF CallbackSchedules
  <2>3. ~(StrategyClosed /\ late = {})
    BY <2>1, ClosedIsQuiet
  <2>4. QED
    BY <2>1, <2>2, <2>3 DEF PushInv, FetchedIsRemote, UnpushedIsPending, WritesAreScheduled,
                            LastPushSays, StrategyClosed
<1>8. CASE TimerRipens
  BY <1>8, PushFrame DEF TimerRipens, dispatcherVars, Scheduling
<1>9. CASE TimerPushes
  <2>1. DoPush /\ UNCHANGED <<local, scheduled, late, shut, worker, stage>>
    BY <1>9 DEF TimerPushes, dispatcherVars
  <2>2. QED
    BY <2>1, DoPushWays, PushKeepsWaiting DEF Scheduling
<1>10. ASSUME NEW p \in Puller,
              PullBegins(p) \/ PullDrained(p) \/ PullGivesUp(p) \/ PullLocks(p)
       PROVE  PushInv'
  <2>1. /\ worker' = worker /\ late \subseteq late'
        /\ UNCHANGED <<local, remote, fetched, pending, scheduled, stage, shut, health>>
    <3>1. CASE PullBegins(p)
      BY <3>1 DEF PullBegins, DrainBegins
    <3>2. CASE PullDrained(p)
      BY <3>2 DEF PullDrained, DrainReturns, gitVars
    <3>3. CASE PullGivesUp(p)
      BY <3>3 DEF PullGivesUp, DrainTimesOut
    <3>4. CASE PullLocks(p)
      BY <3>4 DEF PullLocks, dispatcherVars
    <3>5. QED
      BY <1>10, <3>1, <3>2, <3>3, <3>4
  <2>2. QED
    BY <2>1, PushFrame DEF Scheduling
<1>11. ASSUME NEW p \in Puller, PullGit(p) PROVE PushInv'
  BY <1>11, PullKeepsWaiting
<1>12. CASE TickPushes
  <2>1. DoPush /\ UNCHANGED <<local, scheduled, late, shut, worker, stage>>
    BY <1>12 DEF TickPushes, NextDrain
  <2>2. QED
    BY <2>1, DoPushWays, PushKeepsWaiting DEF Scheduling
<1>13. ASSUME NEW p \in Tool, ToolPushes(p) PROVE PushInv'
  <2>1. UNCHANGED <<local, scheduled, late, shut, worker, stage, pending>>
    BY <1>13 DEF ToolPushes, NextDrain
  <2>2. CASE fetched = local
    <3>1. UNCHANGED <<remote, fetched>>
      BY <1>13, <2>2 DEF ToolPushes
    <3>2. QED
      BY <2>1, <2>2, <3>1 DEF PushInv, FetchedIsRemote, UnpushedIsPending, WritesAreScheduled,
                              LastPushSays, Scheduling
  <2>3. CASE fetched # local
    <3>1. PushArrives \/ PushIsRefused
      BY <1>13, <2>3 DEF ToolPushes, PushSucceeds, PushFails
    <3>2. QED
      BY <2>1, <3>1, PushKeepsWaiting DEF Scheduling
  <2>4. QED
    BY <2>2, <2>3
<1>14. ASSUME NEW p \in Tool, ToolEnds(p) PROVE PushInv'
  BY <1>14, PushFrame DEF ToolEnds, NextDrain, Scheduling
<1>15. ASSUME NEW e \in Ext, OthersPush(e) PROVE PushInv'
  <2>1. /\ remote' = remote \cup {e} /\ e \notin Write
        /\ UNCHANGED <<local, fetched, pending, scheduled, shut, health, late, worker, stage>>
    BY <1>15, CommitsDiffer DEF OthersPush, dispatcherVars
  <2>2. QED
    BY <2>1 DEF PushInv, FetchedIsRemote, UnpushedIsPending, WritesAreScheduled, LastPushSays,
                Scheduling
<1>16. CASE StopLoop \/ LoopJoined \/ StrategyMarks
  BY <1>16, PushFrame DEF StopLoop, LoopJoined, StrategyMarks, dispatcherVars, Scheduling
<1>17. CASE DispatcherCloses \/ JoinGivesUp
  <2>1. /\ worker' = worker /\ late \subseteq late' /\ (shut' = "done" => shut = "done")
        /\ UNCHANGED <<local, remote, fetched, pending, scheduled, stage, health>>
    <3>1. CASE DispatcherCloses
      BY <3>1 DEF DispatcherCloses, CloseMarks, CloseStops, CloseJoins, gitVars
    <3>2. CASE JoinGivesUp
      BY <3>2 DEF JoinGivesUp, CloseJoins, dispatcherVars
    <3>3. QED
      BY <1>17, <3>1, <3>2
  <2>2. QED
    BY <2>1, PushFrame DEF Scheduling
<1>18. CASE FlushCancels
  <2>1. /\ shut = "marked" /\ shut' = IF pending THEN "flushing" ELSE "done"
        /\ UNCHANGED <<local, remote, fetched, pending, scheduled, health, late, worker, stage>>
    BY <1>18 DEF FlushCancels, dispatcherVars
  <2>2. late = {} => ~Scheduling
    BY <2>1, ClosedIsQuiet DEF StrategyClosed
  <2>3. LastPushSays'
    BY <2>1, <2>2, NothingPending DEF LastPushSays
  <2>4. QED
    BY <2>1, <2>3 DEF PushInv, FetchedIsRemote, UnpushedIsPending, WritesAreScheduled, Scheduling
<1>19. CASE FlushPushes
  <2>1. /\ shut = "flushing" /\ DoPush
        /\ UNCHANGED <<local, scheduled, late, worker, stage>>
    BY <1>19 DEF FlushPushes, dispatcherVars
  <2>2. CASE pending
    <3>1. PushArrives \/ (PushIsRefused /\ pending' = pending)
      BY <2>1, <2>2, DoPushWays, Zenon
    <3>2. QED
      BY <2>1, <3>1, PushKeepsWaiting DEF Scheduling
  <2>3. CASE ~pending
    <3>1. UNCHANGED <<remote, fetched, pending, health>>
      BY <2>1, <2>3 DEF DoPush
    <3>2. late = {} => ~Scheduling
      BY <2>1, ClosedIsQuiet DEF StrategyClosed
    <3>3. LastPushSays'
      BY <2>1, <2>3, <3>1, <3>2, NothingPending DEF LastPushSays
    <3>4. QED
      BY <2>1, <3>1, <3>3 DEF PushInv, FetchedIsRemote, UnpushedIsPending, WritesAreScheduled, Scheduling
  <2>4. QED
    BY <2>2, <2>3
<1>20. QED
  BY <1>1, <1>2, <1>3, <1>4, <1>5, <1>6, <1>7, <1>8, <1>9, <1>10, <1>11, <1>12, <1>13, <1>14,
     <1>15, <1>16, <1>17, <1>18, <1>19, <1>i, <1>q, Zenon
     DEF GitNext, CallbackSteps, PullSteps, ShutdownSteps

-----------------------------------------------------------------------------
(* Writes without a commit, and the drains of the pulls.                   *)

(* What the dispatcher does between two turns of its worker leaves who has *)
(* which write as it was.                                                  *)
LEMMA PauseFrame ==
  ASSUME GitTypeOK, PauseInv, UNCHANGED <<dirty, failed, fate, worker>>,
         Scheduling <=> Scheduling', closed => closed', late \subseteq late',
         closer = "done" => closer' = "done",
         StrategyClosed => StrategyClosed', StrategyClosed' => StrategyClosed \/ closer = "done",
         event' = event, before' = before,
         \A d \in Drainer : drain'[d] = "true" => drain[d] = "true" \/ d \in event,
         \A p \in Puller : Holding(p)' => Holding(p)
  PROVE  PauseInv'
<1> USE DEF PauseInv
<1>0. \A w : InHand(w)' <=> InHand(w)
  BY DEF InHand, Scheduling
<1>1. ClosedInOrder'
  BY DEF ClosedInOrder
<1>2. DirtyIsTold'
  BY <1>0 DEF DirtyIsTold
<1>3. DrainedIsDone'
  BY <1>0 DEF DrainedIsDone
<1>4. PausedIsSeen' /\ HandIsHanded'
  BY <1>0 DEF PausedIsSeen, Accepted, HandIsHanded
<1>5. QED
  BY <1>1, <1>2, <1>3, <1>4

(* Accepted writes are those the dispatcher keeps or has handed over; a    *)
(* turn of the worker accepts nothing (write_callback.py:263-294).         *)
LEMMA TurnAccepts ==
  ASSUME Turns
  PROVE  Accepted' = Accepted /\ \A w \in Write : fate'[w] = "refused" => fate[w] = "refused"
BY DEF Turns, Accepted

(* A turn of the worker while the callback has committed, given up or      *)
(* turned away what was in hand (strategy.py:344-491).                     *)
LEMMA TurnKeepsPause ==
  ASSUME GitTypeOK, DispatcherInv, DispatcherInv', PauseInv, Turns, stage' = "check",
         UNCHANGED <<dirty, closed, closer, drain, before, late, shut, puller>>,
         failed \subseteq failed',
         \A w \in dirty : InHand(w) => w \in failed' \/ (StrategyClosed /\ "join" \in late)
  PROVE  PauseInv'
<1> USE DEF PauseInv
<1>1. ClosedInOrder'
  BY TurnAccepts DEF ClosedInOrder, StrategyClosed
<1>2. DirtyIsTold'
  <2> SUFFICES ASSUME NEW w \in dirty
               PROVE  \/ fate'[w] \in {"accepted", "refused"} \/ InHand(w)' \/ w \in failed'
                      \/ StrategyClosed' /\ "join" \in late'
    BY DEF DirtyIsTold
  <2>1. w \in Write
    BY DEF GitTypeOK
  <2>2. CASE fate[w] \in {"accepted", "refused"}
    BY <2>1, <2>2 DEF Turns, InHand
  <2>3. CASE InHand(w)
    BY <2>3 DEF StrategyClosed
  <2>4. CASE w \in failed \/ (StrategyClosed /\ "join" \in late)
    BY <2>4 DEF StrategyClosed
  <2>5. QED
    BY <2>2, <2>3, <2>4 DEF DirtyIsTold
<1>3. DrainedIsDone'
  <2>1. \A d \in event' : \A w \in before'[d] : fate'[w] = "handed"
    BY DEF DispatcherInv, MarkersInOrder, DispatcherTypeOK
  <2>2. ASSUME NEW d \in event', NEW w \in before'[d] PROVE ~InHand(w)'
    <3>1. CASE worker'.pc # "calling"
      BY <3>1 DEF InHand
    <3>2. CASE worker'.pc = "calling"
      <4>1. event' = event /\ \A v \in ToSet(worker'.batch) : fate[v] = "accepted"
        BY <3>2 DEF Turns
      <4>2. fate[w] = "handed"
        BY <4>1 DEF DrainedIsDone
      <4>3. QED
        BY <4>1, <4>2 DEF InHand
    <3>3. QED
      BY <3>1, <3>2
  <2>3. event \subseteq event'
    BY DEF Turns
  <2>4. QED
    BY <2>1, <2>2, <2>3 DEF DrainedIsDone
<1>4. PausedIsSeen'
  BY TurnAccepts DEF PausedIsSeen, Holding
<1>5. HandIsHanded'
  BY DEF HandIsHanded, InHand, Turns
<1>6. QED
  BY <1>1, <1>2, <1>3, <1>4, <1>5

(* Every step keeps what is known of the writes that have no commit.       *)
LEMMA PauseKept ==
  ASSUME GitTypeOK, DispatcherInv, DispatcherInv', PauseInv, GitNext
  PROVE  PauseInv'
<1>s. stage # "check" => worker.pc = "calling"
  BY DEF GitTypeOK
<1>m. MarkersInOrder /\ ShutInOrder
  BY DEF DispatcherInv
<1>1. ASSUME NEW w \in Write, WriteFile(w) PROVE PauseInv'
  <2>1. /\ fileLock = None /\ dirty' = dirty \cup {w}
        /\ UNCHANGED <<stage, failed, shut, puller, closed, closer, late, event, before, drain>>
        /\ fate[w] = "unfired"
        /\ fate' = [fate EXCEPT ![w] = IF closed THEN "refused" ELSE "accepted"]
    BY <1>1 DEF WriteFile, Fire
  <2>2. worker' = worker \/ (worker.pc # "calling" /\ worker'.pc = "idle")
    BY <1>1, FireLeavesCallback DEF WriteFile
  <2>3. \A v \in Write : fate'[v] = IF v = w THEN (IF closed THEN "refused" ELSE "accepted")
                                             ELSE fate[v]
    BY <2>1 DEF DispatcherInv, DispatcherTypeOK
  <2>4. \A v : InHand(v)' <=> InHand(v)
    BY <2>1, <2>2 DEF InHand
  <2>5. /\ \A d \in Drainer : before[d] \subseteq Write
        /\ event \subseteq Drainer /\ dirty \subseteq Write
    BY DEF DispatcherInv, DispatcherTypeOK, GitTypeOK
  <2>6. ClosedInOrder'
    BY <2>1, <2>3 DEF PauseInv, ClosedInOrder, StrategyClosed
  <2>7. DirtyIsTold'
    BY <2>1, <2>3, <2>4, <2>5 DEF PauseInv, DirtyIsTold, StrategyClosed
  <2>8. DrainedIsDone'
    BY <2>1, <2>3, <2>4, <2>5 DEF PauseInv, DrainedIsDone
  <2>9. \A p \in Puller : ~Holding(p)'
    BY <2>1, ItemsDiffer, PullersDrain DEF GitTypeOK, Holding
  <2>10. HandIsHanded'
    BY <2>1, <2>3, <2>4 DEF PauseInv, HandIsHanded
  <2>11. QED
    BY <2>6, <2>7, <2>8, <2>9, <2>10 DEF PauseInv, PausedIsSeen
<1>2. CASE DispatcherTakes
  <2>1. /\ Turns /\ worker.pc = "idle"
        /\ UNCHANGED <<dirty, closed, closer, drain, before, late, shut, puller, failed, stage>>
    BY <1>2, WorkerTurns DEF DispatcherTakes, Take, WorkerSteps, gitVars
  <2>2. stage' = "check" /\ \A w : ~InHand(w)
    BY <1>s, <2>1 DEF InHand
  <2>3. QED
    BY <2>1, <2>2, TurnKeepsPause
<1>3. CASE CallbackChecks
  <2>1. /\ worker.pc = "calling" /\ stage = "check"
        /\ UNCHANGED <<dirty, failed, shut, puller>>
    BY <1>3 DEF CallbackChecks
  <2>2. CASE StrategyClosed
    <3>1. CallReturns /\ stage' = stage
      BY <1>3, <2>2 DEF CallbackChecks
    <3>2. Turns /\ UNCHANGED <<closed, closer, drain, before, late>>
      BY <3>1, WorkerTurns DEF CallReturns, WorkerSteps
    <3>3. "join" \in late
      BY <2>1, <2>2, ClosedIsQuiet DEF PauseInv
    <3>4. QED
      BY <2>1, <2>2, <3>1, <3>2, <3>3, TurnKeepsPause
  <2>3. CASE ~StrategyClosed
    <3>1. /\ stage' # "schedule"
          /\ UNCHANGED <<fate, worker, closed, closer, late, event, before, drain>>
      BY <1>3, <2>3 DEF CallbackChecks, dispatcherVars
    <3>2. QED
      BY <2>1, <3>1, PauseFrame DEF Scheduling, Holding, StrategyClosed
  <2>4. QED
    BY <2>2, <2>3
<1>4. CASE CallbackInits
  BY <1>4, PauseFrame DEF CallbackInits, dispatcherVars, Scheduling, Holding, StrategyClosed
<1>5. CASE CallbackCommits
  <2>1. /\ dirty' = dirty \ ToSet(worker.batch) /\ stage' = "schedule" /\ stage = "commit"
        /\ UNCHANGED <<fate, worker, closed, closer, late, event, before, drain, failed, shut, puller>>
    BY <1>5 DEF CallbackCommits, dispatcherVars
  <2>2. \A w : ~InHand(w)'
    BY <2>1 DEF InHand
  <2>3. \A w \in dirty' : w \in dirty /\ ~InHand(w)
    BY <2>1 DEF InHand
  <2>4. ClosedInOrder' /\ PausedIsSeen'
    BY <2>1 DEF PauseInv, ClosedInOrder, PausedIsSeen, Holding, Accepted, StrategyClosed
  <2>5. DirtyIsTold'
    BY <2>1, <2>3 DEF PauseInv, DirtyIsTold, StrategyClosed
  <2>6. DrainedIsDone' /\ HandIsHanded'
    BY <2>1, <2>2 DEF PauseInv, DrainedIsDone, HandIsHanded
  <2>7. QED
    BY <2>4, <2>5, <2>6 DEF PauseInv
<1>6. CASE InitFails \/ CommitFails
  <2>1. /\ CallReturns /\ stage' = "check" /\ failed' = failed \cup ToSet(worker.batch)
        /\ UNCHANGED <<dirty, shut, puller>>
    BY <1>6 DEF InitFails, CommitFails
  <2>2. Turns /\ UNCHANGED <<closed, closer, drain, before, late>>
    BY <2>1, WorkerTurns DEF CallReturns, WorkerSteps
  <2>3. QED
    BY <2>1, <2>2, TurnKeepsPause DEF InHand
<1>7. CASE CallbackSchedules
  <2>1. /\ CallReturns /\ stage = "schedule" /\ stage' = "check"
        /\ UNCHANGED <<dirty, failed, shut, puller>>
    BY <1>7 DEF CallbackSchedules
  <2>2. Turns /\ UNCHANGED <<closed, closer, drain, before, late>>
    BY <2>1, WorkerTurns DEF CallReturns, WorkerSteps
  <2>3. QED
    BY <2>1, <2>2, TurnKeepsPause DEF InHand
<1>8. CASE WorkerDies
  <2>1. /\ worker'.pc = "dead" /\ failed' = failed \cup ToSet(worker.batch) /\ late \subseteq late'
        /\ UNCHANGED <<dirty, shut, puller, fate, closed, closer, drain, event, before>>
    BY <1>8 DEF WorkerDies, CallKills, Resting
  <2>2. \A w : ~InHand(w)'
    BY <2>1 DEF InHand
  <2>3. ClosedInOrder' /\ PausedIsSeen'
    BY <2>1 DEF PauseInv, ClosedInOrder, PausedIsSeen, Holding, Accepted, StrategyClosed
  <2>4. DirtyIsTold'
    BY <2>1 DEF PauseInv, DirtyIsTold, StrategyClosed, InHand
  <2>5. DrainedIsDone' /\ HandIsHanded'
    BY <2>1, <2>2 DEF PauseInv, DrainedIsDone, HandIsHanded
  <2>6. QED
    BY <2>3, <2>4, <2>5 DEF PauseInv
<1>9. CASE TimerRipens \/ TimerPushes
  BY <1>9, PauseFrame DEF TimerRipens, TimerPushes, dispatcherVars, Scheduling, Holding, StrategyClosed
<1>10. ASSUME NEW p \in Puller, PullBegins(p) PROVE PauseInv'
  <2>1. /\ DrainBegins(p) /\ puller' = [puller EXCEPT ![p] = "quiesce"]
        /\ UNCHANGED <<dirty, failed, stage, shut>>
    BY <1>10 DEF PullBegins
  <2>2. /\ drain[p] = "ready" /\ before' = [before EXCEPT ![p] = Accepted]
        /\ late \subseteq late'
        /\ drain'[p] = "true" => closed \/ worker.pc = "unstarted"
        /\ \A d \in Drainer : d # p => drain'[d] = drain[d]
        /\ UNCHANGED <<worker, closed, closer, event, fate>>
    BY <2>1, PullersDrain DEF DrainBegins, DispatcherInv, DispatcherTypeOK
  <2>3. /\ p \notin event /\ p \in Drainer
        /\ before'[p] = Accepted /\ \A d \in Drainer : d # p => before'[d] = before[d]
        /\ worker.pc = "unstarted" => Accepted = {}
    BY <1>m, <2>2, PullersDrain DEF MarkersInOrder, ShutInOrder, Known, Accepted, DispatcherInv,
                                    DispatcherTypeOK
  <2>4. ClosedInOrder' /\ DirtyIsTold' /\ HandIsHanded'
    BY <2>1, <2>2 DEF PauseInv, ClosedInOrder, DirtyIsTold, InHand, StrategyClosed, HandIsHanded
  <2>5. DrainedIsDone'
    <3>1. event \subseteq Drainer
      BY DEF DispatcherInv, DispatcherTypeOK
    <3>2. \A w : InHand(w)' <=> InHand(w)
      BY <2>1, <2>2 DEF InHand
    <3>3. QED
      BY <2>2, <2>3, <3>1, <3>2 DEF PauseInv, DrainedIsDone
  <2>6. PausedIsSeen'
    <3>1. \A q \in Puller : q # p => puller'[q] = puller[q]
      BY <2>1 DEF GitTypeOK
    <3>2. Accepted' = Accepted
      BY <2>2 DEF Accepted
    <3>3. QED
      BY <2>3, <3>1, <3>2, PullersDrain DEF PauseInv, PausedIsSeen, Holding
  <2>7. QED
    BY <2>4, <2>5, <2>6 DEF PauseInv
<1>11. ASSUME NEW p \in Puller, PullDrained(p) PROVE PauseInv'
  <2>1. /\ p \in event /\ drain' = [drain EXCEPT ![p] = "true"]
        /\ UNCHANGED <<dirty, failed, stage, shut, puller>>
        /\ UNCHANGED <<worker, fate, closed, closer, late, event, before>>
    BY <1>11 DEF PullDrained, DrainReturns, gitVars
  <2>2. \A d \in Drainer : drain'[d] = "true" => drain[d] = "true" \/ d \in event
    BY <2>1 DEF DispatcherInv, DispatcherTypeOK
  <2>3. QED
    BY <2>1, <2>2, PauseFrame DEF Scheduling, Holding, StrategyClosed
<1>12. ASSUME NEW p \in Puller, PullGivesUp(p) PROVE PauseInv'
  <2>1. /\ drain' = [drain EXCEPT ![p] = "false"]
        /\ UNCHANGED <<dirty, failed, stage, shut, puller>>
        /\ UNCHANGED <<worker, fate, closed, closer, late, event, before>>
    BY <1>12 DEF PullGivesUp, DrainTimesOut
  <2>2. \A d \in Drainer : drain'[d] = "true" => drain[d] = "true" \/ d \in event
    BY <2>1 DEF DispatcherInv, DispatcherTypeOK
  <2>3. QED
    BY <2>1, <2>2, PauseFrame DEF Scheduling, Holding, StrategyClosed
<1>13. ASSUME NEW p \in Puller, PullLocks(p) PROVE PauseInv'
  <2>1. /\ puller[p] = "quiesce" /\ puller' = [puller EXCEPT ![p] = "git"]
        /\ UNCHANGED <<dirty, failed, stage, shut>>
        /\ UNCHANGED <<worker, fate, closed, closer, late, event, before, drain>>
    BY <1>13 DEF PullLocks, dispatcherVars
  <2>2. \A q \in Puller : Holding(q)' => Holding(q)
    BY <2>1 DEF GitTypeOK, Holding
  <2>3. QED
    BY <2>1, <2>2, PauseFrame DEF Scheduling, StrategyClosed
<1>14. ASSUME NEW p \in Puller, PullGit(p) PROVE PauseInv'
  <2>1. /\ puller[p] = "git" /\ puller' = [puller EXCEPT ![p] = "after"]
        /\ UNCHANGED <<stage, shut>>
        /\ UNCHANGED <<worker, fate, closed, closer, late, event, before, drain>>
    BY <1>14 DEF PullGit, dispatcherVars
  <2>2. failed \subseteq failed' /\ \A w \in dirty' : w \in dirty \/ w \in failed'
    <3>1. CASE FetchFails \/ PullApplies \/ PullRefused \/ PullSavesSiblings
      BY <3>1 DEF FetchFails, PullApplies, PullRefused, PullSavesSiblings
    <3>2. CASE SiblingsUncommitted
      BY <3>2 DEF SiblingsUncommitted
    <3>3. QED
      BY <1>14, <3>1, <3>2 DEF PullGit
  <2>3. \A q \in Puller : Holding(q)' => Holding(q)
    BY <2>1 DEF GitTypeOK, Holding
  <2>4. \A w : InHand(w)' <=> InHand(w)
    BY <2>1 DEF InHand
  <2>5. ClosedInOrder' /\ DrainedIsDone' /\ HandIsHanded'
    BY <2>1, <2>4 DEF PauseInv, ClosedInOrder, DrainedIsDone, HandIsHanded, StrategyClosed
  <2>6. PausedIsSeen'
    BY <2>1, <2>3 DEF PauseInv, PausedIsSeen, Accepted
  <2>7. DirtyIsTold'
    BY <2>1, <2>2, <2>4 DEF PauseInv, DirtyIsTold, StrategyClosed
  <2>8. QED
    BY <2>5, <2>6, <2>7 DEF PauseInv
<1>15. ASSUME NEW p \in Puller, NextDrain(p), UNCHANGED <<dirty, failed, stage, shut>>
       PROVE  PauseInv'
  <2>1. /\ drain' = [drain EXCEPT ![p] = "ready"] /\ event' = event \ {p}
        /\ before' = [before EXCEPT ![p] = {}] /\ puller' = [puller EXCEPT ![p] = "rest"]
        /\ UNCHANGED <<worker, fate, closed, closer, late>>
    BY <1>15 DEF NextDrain
  <2>2. \A d \in Drainer : d # p => drain'[d] = drain[d] /\ before'[d] = before[d]
    BY <2>1 DEF DispatcherInv, DispatcherTypeOK
  <2>3. p \in Drainer /\ drain'[p] = "ready"
    BY <2>1, PullersDrain DEF DispatcherInv, DispatcherTypeOK
  <2>4. \A w : InHand(w)' <=> InHand(w)
    BY <1>15, <2>1 DEF InHand
  <2>5. event \subseteq Drainer
    BY DEF DispatcherInv, DispatcherTypeOK
  <2>6. ClosedInOrder' /\ DirtyIsTold' /\ HandIsHanded'
    BY <1>15, <2>1, <2>4 DEF PauseInv, ClosedInOrder, DirtyIsTold, HandIsHanded, StrategyClosed
  <2>7. DrainedIsDone'
    BY <2>1, <2>2, <2>3, <2>4, <2>5 DEF PauseInv, DrainedIsDone
  <2>8. \A q \in Puller : Holding(q)' => q # p /\ Holding(q)
    BY <2>1 DEF GitTypeOK, Holding
  <2>9. Accepted' = Accepted
    BY <2>1 DEF Accepted
  <2>10. PausedIsSeen'
    BY <2>2, <2>8, <2>9, PullersDrain DEF PauseInv, PausedIsSeen
  <2>11. QED
    BY <2>6, <2>7, <2>10 DEF PauseInv
<1>16. CASE TickPushes \/ TickFails \/ \E p \in Tool : ToolPushes(p) \/ ToolEnds(p)
  BY <1>15, <1>16 DEF TickPushes, TickFails, ToolPushes, ToolEnds, Puller
<1>17. ASSUME NEW e \in Ext, OthersPush(e) PROVE PauseInv'
  BY <1>17, PauseFrame DEF OthersPush, dispatcherVars, Scheduling, Holding, StrategyClosed
<1>18. CASE StopLoop \/ LoopJoined \/ StrategyMarks \/ FlushCancels \/ FlushPushes
  <2>1. /\ UNCHANGED <<dirty, failed, stage, puller>>
        /\ UNCHANGED <<worker, fate, closed, closer, late, event, before, drain>>
    BY <1>18 DEF StopLoop, LoopJoined, StrategyMarks, FlushCancels, FlushPushes, dispatcherVars
  <2>2. StrategyClosed => StrategyClosed'
    BY <1>18 DEF StopLoop, LoopJoined, StrategyMarks, FlushCancels, FlushPushes, StrategyClosed
  <2>3. StrategyClosed' => StrategyClosed \/ closer = "done"
    BY <1>18 DEF StopLoop, LoopJoined, StrategyMarks, FlushCancels, FlushPushes, StrategyClosed
  <2>4. QED
    BY <2>1, <2>2, <2>3, PauseFrame DEF Scheduling, Holding
<1>19. CASE DispatcherCloses \/ JoinGivesUp
  <2>1. /\ UNCHANGED <<dirty, failed, stage, puller>>
        /\ UNCHANGED <<worker, fate, event, before, drain>> /\ late \subseteq late'
        /\ closed => closed'
        /\ closer = "done" => closer' = "done"
        /\ StrategyClosed <=> StrategyClosed'
    <3>1. CASE DispatcherCloses
      BY <3>1 DEF DispatcherCloses, CloseMarks, CloseStops, CloseJoins, gitVars, StrategyClosed
    <3>2. CASE JoinGivesUp
      BY <3>2 DEF JoinGivesUp, CloseJoins, dispatcherVars, StrategyClosed
    <3>3. QED
      BY <1>19, <3>1, <3>2
  <2>2. QED
    BY <2>1, PauseFrame DEF Scheduling, Holding
<1>20. QED
  BY <1>1, <1>2, <1>3, <1>4, <1>5, <1>6, <1>7, <1>8, <1>9, <1>10, <1>11, <1>12, <1>13, <1>14,
     <1>16, <1>17, <1>18, <1>19, Zenon
     DEF GitNext, CallbackSteps, PullSteps, ShutdownSteps

-----------------------------------------------------------------------------
(* What follows.                                                           *)

(* Each step keeps the invariant, and so does standing still.              *)
LEMMA GitKept ==
  ASSUME GitInv, [GitNext]_syncVars
  PROVE  GitInv'
<1>1. DispatcherInv'
  BY DispatcherKeptBelow DEF GitInv
<1>2. CASE GitNext
  BY <1>1, <1>2, GitTypesKept, PushKept, PauseKept DEF GitInv, PauseInv
<1>3. CASE UNCHANGED syncVars
  <2>1. DispatcherTypeOK'
    BY <1>1 DEF DispatcherInv
  <2>2. UNCHANGED <<queue, open, buffer, worker, closed, closer, drain, event, call, scopeOf, fate>>
        /\ UNCHANGED <<before, batches, forced, late>>
        /\ UNCHANGED gitVars
    BY <1>3 DEF syncVars, dispatcherVars
  <2>3. GitTypeOK'
    BY <2>1, <2>2 DEF GitInv, GitTypeOK, gitVars
  <2>4. PushInv'
    BY <2>2, PushFrame DEF GitInv, Scheduling, gitVars
  <2>5. PauseInv'
    BY <2>2, PauseFrame DEF GitInv, Scheduling, Holding, StrategyClosed, gitVars
  <2>6. QED
    BY <1>1, <2>3, <2>4, <2>5 DEF GitInv
<1>4. QED
  BY <1>2, <1>3

(* For every number of writes, pulls, commits and failures, the invariant  *)
(* holds of the dispatcher, the strategy, the pulls and the shutdown.      *)
THEOREM GitInvariant == GitSpec => []GitInv
<1>1. GitInv /\ [GitNext]_syncVars => GitInv'
  BY GitKept
<1>2. QED
  BY <1>1, GitStarts, PTL DEF GitSpec

(* A pull whose drain answered True merges over no write that is on disk   *)
(* and in no commit, save one whose commit failed: what it waited for was  *)
(* accepted before it paused the writes, and nothing is accepted since     *)
(* (strategy.py:1593-1619, write_callback.py:66-71).                       *)
THEOREM MergeFindsWritesCommittedHolds == GitSpec => []MergeFindsWritesCommitted
<1>1. ASSUME GitInv PROVE MergeFindsWritesCommitted
  <2> SUFFICES ASSUME NEW p \in Puller, puller[p] = "git", drain[p] = "true", ~StrategyClosed,
                      ~closed, NEW w \in dirty, w \notin failed
               PROVE  FALSE
    BY <1>1 DEF GitInv, MergeFindsWritesCommitted
  <2>1. w \in Write /\ p \in Drainer
    BY <1>1, PullersDrain DEF GitInv, GitTypeOK
  <2>2. fate[w] = "accepted" \/ InHand(w)
    BY <1>1, <2>1 DEF GitInv, PauseInv, DirtyIsTold, ClosedInOrder
  <2>3. /\ Accepted \subseteq before[p]
        /\ \/ p \in event /\ \A v \in before[p] : fate[v] = "handed" /\ ~InHand(v)
           \/ before[p] = {}
    BY <1>1, <2>1 DEF GitInv, PauseInv, PausedIsSeen, Holding, DrainedIsDone
  <2>4. w \in Accepted
    <3>1. CASE fate[w] = "accepted"
      BY <2>1, <3>1 DEF Accepted
    <3>2. CASE InHand(w)
      BY <1>1, <2>1, <3>2 DEF GitInv, PauseInv, HandIsHanded, Accepted
    <3>3. QED
      BY <2>2, <3>1, <3>2
  <2>5. QED
    BY <2>2, <2>3, <2>4
<1>2. QED
  BY <1>1, GitInvariant, PTL

(* Every commit of this clone that is not on origin is waited for          *)
(* (push_scheduler.py:156-165, strategy.py:396).                           *)
THEOREM UnpushedIsPendingHolds == GitSpec => []UnpushedIsPending
<1>1. GitInv => UnpushedIsPending
  BY DEF GitInv, PushInv
<1>2. QED
  BY <1>1, GitInvariant, PTL

(* A shutdown that waited for its threads leaves no write behind of which  *)
(* nothing is said (vault.py:1088-1122, strategy.py:1735-1744).            *)
THEOREM ShutdownLeavesNothingUnsaidHolds == GitSpec => []ShutdownLeavesNothingUnsaid
<1>1. ASSUME GitInv, shut = "done", late = {}
      PROVE  /\ local \cap Write \subseteq remote \/ "push" \in health
             /\ \A w \in dirty : w \in failed \/ fate[w] = "refused"
  <2>1. local \cap Write \subseteq remote \/ "push" \in health
    BY <1>1 DEF GitInv, PushInv, LastPushSays
  <2>2. StrategyClosed /\ closer = "done"
    BY <1>1 DEF StrategyClosed, GitInv, PauseInv, ClosedInOrder
  <2>3. worker.pc \in {"unstarted", "exited"}
    BY <1>1, <2>2 DEF GitInv, DispatcherInv, DispatcherTypeOK, ShutInOrder, Alive
  <2>4. Waiting = {}
    BY <1>1, <2>3 DEF GitInv, DispatcherInv, ShutInOrder, Known, Waiting
  <2>5. \A w \in dirty : w \in Write /\ fate[w] # "accepted" /\ ~InHand(w)
    BY <1>1, <2>3, <2>4 DEF GitInv, GitTypeOK, Waiting, InHand
  <2>6. QED
    BY <1>1, <2>1, <2>5 DEF GitInv, PauseInv, DirtyIsTold
<1>2. GitInv => ShutdownLeavesNothingUnsaid
  BY <1>1 DEF ShutdownLeavesNothingUnsaid
<1>3. QED
  BY <1>2, GitInvariant, PTL

=============================================================================
