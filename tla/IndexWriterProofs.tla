-------------------------- MODULE IndexWriterProofs --------------------------
(***************************************************************************)
(* What is proved about IndexWriter for any set of Futures, kinds and      *)
(* close() calls.  The invariant WriterInv says where every unsettled      *)
(* Future is; NoOrphanFuture and CloseTrueIsFinal follow from it.          *)
(***************************************************************************)
EXTENDS IndexWriter, SequenceTheorems, TLAPS

Occurs(x, q) == \E i \in 1..Len(q) : q[i] = x

Queued(x) == Occurs(x, queue)

(* A pending Future is queued, held by the worker, or about to be          *)
(* cancelled by it.                                                        *)
PendingIsHeld ==
  \A f \in Future : state[f] = "pending" => Queued(f) \/ cur = f \/ f \in doomed

(* Only the Future the worker holds runs, and only while its runner does.  *)
RunningIsHeld ==
  \A f \in Future : state[f] = "running" => cur = f /\ pc = "running"

(* What the worker holds and claims at each place of the loop.             *)
WorkerHolds ==
  /\ pc = "running" => state[cur] = "running"
  /\ pc \in {"settled", "crashing", "aborting"} => state[cur] \in {"done", "failed"}
  /\ pc \in {"idle", "popped", "exited"} => inFlight = None

(* A sentinel, and an end of the worker, mean closed; after a crash only   *)
(* sentinels are queued, after a drain nothing is.                         *)
ShutdownOrder ==
  /\ (sentinelSeen \/ crashed \/ pc \in {"aborting", "exited"}) => closed
  /\ Queued(Sentinel) => closed
  /\ \A c \in Closer : closer[c] # "start" => closed
  /\ pc = "aborting" => crashed
  /\ doomed # {} => pc = "aborting"
  /\ pc \in {"aborting", "exited"} => \A f \in Future : ~Queued(f)
  /\ \A c \in Closer : closer[c] = "stopped" => pc = "exited"

WriterInv ==
  WriterTypeOK /\ PendingIsHeld /\ RunningIsHeld /\ WorkerHolds /\ ShutdownOrder
-----------------------------------------------------------------------------
(* What put() and get() do to membership of a queue.                       *)

(* put() adds the element it puts to what the queue holds and nothing else. *)
LEMMA OccursAppend ==
  ASSUME NEW S, NEW q \in Seq(S), NEW e \in S, NEW x
  PROVE  Occurs(x, Append(q, e)) <=> Occurs(x, q) \/ x = e
<1>1. /\ Append(q, e) \in Seq(S)
      /\ Len(Append(q, e)) = Len(q) + 1
      /\ \A i \in 1..Len(q) : Append(q, e)[i] = q[i]
      /\ Append(q, e)[Len(q) + 1] = e
  BY AppendProperties
<1>2. Len(q) \in Nat
  BY LenProperties
<1>3. ASSUME Occurs(x, Append(q, e))
      PROVE  Occurs(x, q) \/ x = e
  <2>1. PICK i \in 1..(Len(q) + 1) : Append(q, e)[i] = x
    BY <1>1, <1>3 DEF Occurs
  <2>2. CASE i = Len(q) + 1
    BY <1>1, <2>1, <2>2
  <2>3. CASE i \in 1..Len(q)
    BY <1>1, <2>1, <2>3 DEF Occurs
  <2>4. QED
    BY <1>2, <2>2, <2>3
<1>4. ASSUME Occurs(x, q)
      PROVE  Occurs(x, Append(q, e))
  <2>1. PICK i \in 1..Len(q) : q[i] = x
    BY <1>4 DEF Occurs
  <2>2. i \in 1..(Len(q) + 1) /\ Append(q, e)[i] = x
    BY <1>1, <1>2, <2>1
  <2>3. QED
    BY <1>1, <2>2 DEF Occurs
<1>5. ASSUME x = e
      PROVE  Occurs(x, Append(q, e))
  <2>1. Len(q) + 1 \in 1..(Len(q) + 1)
    BY <1>2
  <2>2. QED
    BY <1>1, <1>5, <2>1 DEF Occurs
<1>6. QED
  BY <1>3, <1>4, <1>5

(* get() takes the head away and may leave other copies of it.             *)
LEMMA OccursTail ==
  ASSUME NEW S, NEW q \in Seq(S), q # << >>, NEW x
  PROVE  /\ Occurs(x, q) <=> Occurs(x, Tail(q)) \/ x = Head(q)
         /\ Head(q) \in S
         /\ Tail(q) \in Seq(S)
<1>1. /\ Head(q) \in S
      /\ Tail(q) \in Seq(S)
      /\ Len(Tail(q)) = Len(q) - 1
      /\ \A i \in 1..Len(Tail(q)) : Tail(q)[i] = q[i + 1]
  BY HeadTailProperties
<1>2. Len(q) \in Nat \ {0}
  BY EmptySeq
<1>3. Head(q) = q[1]
  OBVIOUS
<1>4. ASSUME Occurs(x, q)
      PROVE  Occurs(x, Tail(q)) \/ x = Head(q)
  <2>1. PICK i \in 1..Len(q) : q[i] = x
    BY <1>4 DEF Occurs
  <2>2. CASE i = 1
    BY <1>3, <2>1, <2>2
  <2>3. CASE i > 1
    <3>1. i - 1 \in 1..Len(Tail(q)) /\ Tail(q)[i - 1] = x
      <4>1. i - 1 \in 1..Len(Tail(q))
        BY <1>1, <1>2, <2>1, <2>3
      <4>2. (i - 1) + 1 = i
        BY <2>1
      <4>3. QED
        BY <1>1, <2>1, <4>1, <4>2
    <3>2. QED
      BY <3>1 DEF Occurs
  <2>4. QED
    BY <2>1, <2>2, <2>3
<1>5. ASSUME Occurs(x, Tail(q))
      PROVE  Occurs(x, q)
  <2>1. PICK i \in 1..Len(Tail(q)) : Tail(q)[i] = x
    BY <1>5 DEF Occurs
  <2>2. i + 1 \in 1..Len(q) /\ q[i + 1] = x
    BY <1>1, <1>2, <2>1
  <2>3. QED
    BY <2>2 DEF Occurs
<1>6. ASSUME x = Head(q)
      PROVE  Occurs(x, q)
  <2>1. 1 \in 1..Len(q) /\ q[1] = x
    BY <1>2, <1>3, <1>6
  <2>2. QED
    BY <2>1 DEF Occurs
<1>7. QED
  BY <1>1, <1>4, <1>5, <1>6

(* An empty queue holds nothing.                                           *)
LEMMA OccursEmpty == \A x : ~Occurs(x, << >>)
<1>1. Len(<< >>) = 0
  OBVIOUS
<1>2. 1..0 = {}
  OBVIOUS
<1>3. QED
  BY <1>1, <1>2 DEF Occurs

-----------------------------------------------------------------------------
(* The type invariant is inductive on its own.                             *)

(* submit(): the queue, states and kinds keep their types, and the queue   *)
(* holds the new Future besides.                                           *)
LEMMA EnqueueType ==
  ASSUME WriterTypeOK, NEW f \in Future, NEW k \in Kind, Enqueue(f, k)
  PROVE  /\ queue' \in Seq(Future \cup {Sentinel})
         /\ state' \in [Future -> {"free"} \cup Active \cup Settled]
         /\ kind' \in [Future -> Kind \cup {None}]
         /\ \A x : Queued(x)' <=> Queued(x) \/ x = f
<1> DEFINE S == Future \cup {Sentinel}
<1>1. queue \in Seq(S) /\ f \in S /\ queue' = Append(queue, f)
  BY DEF WriterTypeOK, Enqueue
<1>2. queue' \in Seq(S)
  BY <1>1, AppendProperties
<1>3. \A x : Queued(x)' <=> Queued(x) \/ x = f
  <2> TAKE x
  <2> HIDE DEF S
  <2>1. Occurs(x, Append(queue, f)) <=> Occurs(x, queue) \/ x = f
    BY <1>1, OccursAppend
  <2>2. QED
    BY <1>1, <2>1 DEF Queued
<1>4. QED
  BY <1>2, <1>3 DEF WriterTypeOK, Enqueue, Active, Settled

(* The sentinel close() posts keeps the type of the queue.                 *)
LEMMA PostType ==
  ASSUME WriterTypeOK, queue' = Append(queue, Sentinel)
  PROVE  /\ queue' \in Seq(Future \cup {Sentinel})
         /\ \A x : Queued(x)' <=> Queued(x) \/ x = Sentinel
<1> DEFINE S == Future \cup {Sentinel}
<1>1. queue \in Seq(S) /\ Sentinel \in S
  BY DEF WriterTypeOK
<1>2. queue' \in Seq(S)
  BY <1>1, AppendProperties
<1>3. \A x : Queued(x)' <=> Queued(x) \/ x = Sentinel
  <2> TAKE x
  <2> HIDE DEF S
  <2>1. Occurs(x, Append(queue, Sentinel)) <=> Occurs(x, queue) \/ x = Sentinel
    BY <1>1, OccursAppend
  <2>2. QED
    BY <2>1 DEF Queued
<1>4. QED
  BY <1>2, <1>3

(* get(): what it returns and what is left have their types.               *)
LEMMA PopType ==
  ASSUME WriterTypeOK, queue # << >>, queue' = Tail(queue)
  PROVE  /\ queue' \in Seq(Future \cup {Sentinel})
         /\ Head(queue) \in Future \cup {Sentinel}
         /\ \A x : Queued(x) <=> Queued(x)' \/ x = Head(queue)
<1> DEFINE S == Future \cup {Sentinel}
<1>1. queue \in Seq(S)
  BY DEF WriterTypeOK
<1>2. Head(queue) \in S /\ Tail(queue) \in Seq(S)
  BY <1>1, HeadTailProperties
<1>3. \A x : Queued(x) <=> Queued(x)' \/ x = Head(queue)
  <2> TAKE x
  <2> HIDE DEF S
  <2>1. Occurs(x, queue) <=> Occurs(x, Tail(queue)) \/ x = Head(queue)
    BY <1>1, OccursTail
  <2>2. QED
    BY <2>1 DEF Queued
<1>4. QED
  BY <1>2, <1>3

(* OccursEmpty, said of the writer's queue.                                *)
LEMMA EmptyQueue == queue = << >> => \A x : ~Queued(x)
  BY OccursEmpty DEF Queued

(* The queue after _abort_pending has the type of a queue.                 *)
LEMMA EmptyType == << >> \in Seq(Future \cup {Sentinel})
  BY EmptySeq

(* The writer as constructed is well typed.                                *)
LEMMA WriterTypeInit == WriterInit => WriterTypeOK
<1> SUFFICES ASSUME WriterInit
             PROVE  WriterTypeOK
  OBVIOUS
<1>1. queue \in Seq(Future \cup {Sentinel})
  BY EmptyType DEF WriterInit
<1>2. /\ state \in [Future -> {"free"} \cup Active \cup Settled]
      /\ kind \in [Future -> Kind \cup {None}]
      /\ closer \in [Closer -> CloserPC]
  BY DEF WriterInit, CloserPC
<1>3. QED
  BY <1>1, <1>2 DEF WriterInit, WriterTypeOK, WorkerPC

(* Every step of any thread keeps the types.                               *)
LEMMA WriterTypeNext == WriterTypeOK /\ [WriterNext]_writerVars => WriterTypeOK'
<1> SUFFICES ASSUME WriterTypeOK, [WriterNext]_writerVars
             PROVE  WriterTypeOK'
  OBVIOUS
<1> USE DEF Active, Settled, WorkerPC, CloserPC
<1>1. ASSUME NEW f \in Future, NEW k \in Kind, SubmitExternal(f, k) \/ SubmitOnWorker(f, k)
      PROVE  WriterTypeOK'
  <2>1. Enqueue(f, k)
    BY <1>1 DEF SubmitExternal, SubmitOnWorker
  <2>2. QED
    BY <1>1, <2>1, EnqueueType DEF WriterTypeOK, SubmitExternal, SubmitOnWorker
<1>2. ASSUME NEW f \in Future, Cancel(f)
      PROVE  WriterTypeOK'
  BY <1>2 DEF WriterTypeOK, Cancel
<1>3. CASE Pop
  <2>1. /\ queue' \in Seq(Future \cup {Sentinel})
        /\ Head(queue) \in Future \cup {Sentinel}
    BY <1>3, PopType DEF Pop
  <2>2. QED
    BY <1>3, <2>1, WriterAssumption DEF WriterTypeOK, Pop
<1>4. CASE Exit
  BY <1>4 DEF WriterTypeOK, Exit
<1>5. CASE Claim
  BY <1>5 DEF WriterTypeOK, Claim
<1>6. CASE Start
  BY <1>6 DEF WriterTypeOK, Start
<1>7. CASE Skip
  BY <1>7 DEF WriterTypeOK, Skip
<1>8. CASE Release
  BY <1>8 DEF WriterTypeOK, Release
<1>9. CASE Abort
  <2>1. doomed' \subseteq Future
    BY <1>9, LenProperties DEF WriterTypeOK, Abort
  <2>2. QED
    BY <1>9, <2>1, EmptyType DEF WriterTypeOK, Abort
<1>10. CASE Die
  BY <1>10 DEF WriterTypeOK, Die
<1>11. ASSUME NEW f \in Future, CancelDoomed(f)
       PROVE  WriterTypeOK'
  BY <1>11 DEF WriterTypeOK, CancelDoomed
<1>12. ASSUME NEW o \in {"done", "failed"}, Settle(o)
       PROVE  WriterTypeOK'
  BY <1>12 DEF WriterTypeOK, Settle
<1>13. CASE Interrupt
  BY <1>13 DEF WriterTypeOK, Interrupt
<1>14. ASSUME NEW c \in Closer, CloseMark(c)
       PROVE  WriterTypeOK'
  BY <1>14 DEF WriterTypeOK, CloseMark
<1>15. ASSUME NEW c \in Closer, ClosePost(c)
       PROVE  WriterTypeOK'
  BY <1>15, PostType DEF WriterTypeOK, ClosePost
<1>16. ASSUME NEW c \in Closer, CloseJoin(c)
       PROVE  WriterTypeOK'
  BY <1>16 DEF WriterTypeOK, CloseJoin
<1>17. CASE UNCHANGED writerVars
  BY <1>17 DEF WriterTypeOK, writerVars
<1>18. QED
  BY <1>1, <1>2, <1>3, <1>4, <1>5, <1>6, <1>7, <1>8, <1>9, <1>10, <1>11, <1>12,
     <1>13, <1>14, <1>15, <1>16, <1>17 DEF WriterNext, WorkerLoop, CloserStep

(* Every reachable state of the writer is well typed: the Futures, the     *)
(* queue and the worker's position never leave the ranges _run assumes.    *)
THEOREM WriterTypeInvariant == WriterSpec => []WriterTypeOK
  BY WriterTypeInit, WriterTypeNext, PTL DEF WriterSpec

-----------------------------------------------------------------------------
(* The inductive invariant.                                                *)

(* The invariant holds of the writer as constructed.                       *)
LEMMA WriterInvInit == WriterInit => WriterInv
<1> SUFFICES ASSUME WriterInit
             PROVE  WriterInv
  OBVIOUS
<1>1. WriterTypeOK
  BY WriterTypeInit
<1>2. \A x : ~Queued(x)
  BY EmptyQueue DEF WriterInit
<1>3. PendingIsHeld /\ RunningIsHeld
  BY DEF WriterInit, PendingIsHeld, RunningIsHeld
<1>4. WorkerHolds
  BY DEF WriterInit, WorkerHolds
<1>5. ShutdownOrder
  BY <1>2 DEF WriterInit, ShutdownOrder
<1>6. QED
  BY <1>1, <1>3, <1>4, <1>5 DEF WriterInv

(* Every step of any thread keeps the invariant.                           *)
LEMMA WriterInvNext == WriterInv /\ [WriterNext]_writerVars => WriterInv'
<1> SUFFICES ASSUME WriterInv, [WriterNext]_writerVars
             PROVE  WriterInv'
  OBVIOUS
<1> USE WriterAssumption
<1>0. WriterTypeOK /\ WriterTypeOK'
  BY WriterTypeNext DEF WriterInv
<1> DEFINE Parts == PendingIsHeld /\ RunningIsHeld /\ WorkerHolds /\ ShutdownOrder
<1> SUFFICES Parts'
  BY <1>0 DEF WriterInv
<1>1. ASSUME NEW f \in Future, NEW k \in Kind, SubmitExternal(f, k) \/ SubmitOnWorker(f, k)
      PROVE  Parts'
  <2>1. /\ state[f] = "free"
        /\ state' = [state EXCEPT ![f] = "pending"]
        /\ \A x : Queued(x)' <=> Queued(x) \/ x = f
        /\ UNCHANGED <<closed, crashed, pc, cur, sentinelSeen, inFlight, doomed, closer>>
    BY <1>0, <1>1, EnqueueType DEF SubmitExternal, SubmitOnWorker, Enqueue
  <2>2. pc \notin {"aborting", "exited"}
    BY <1>1 DEF WriterInv, ShutdownOrder, SubmitExternal, SubmitOnWorker, Accepts
  <2>3. f # cur \/ pc \in {"popped", "claimed"}
    BY <1>0, <2>1, <2>2 DEF WriterInv, WorkerHolds, WriterTypeOK, WorkerPC
  <2>4. PendingIsHeld' /\ RunningIsHeld'
    BY <1>0, <2>1 DEF WriterInv, PendingIsHeld, RunningIsHeld, WriterTypeOK
  <2>5. WorkerHolds'
    BY <1>0, <2>1, <2>3 DEF WriterInv, WorkerHolds, WriterTypeOK
  <2>6. ShutdownOrder'
    BY <2>1, <2>2 DEF WriterInv, ShutdownOrder
  <2>7. QED
    BY <2>4, <2>5, <2>6
<1>2. ASSUME NEW f \in Future, Cancel(f)
      PROVE  Parts'
  <2>1. \A x : Queued(x)' <=> Queued(x)
    BY <1>2 DEF Cancel, Queued, Occurs
  <2>2. PendingIsHeld' /\ RunningIsHeld'
    BY <1>0, <1>2, <2>1 DEF WriterInv, PendingIsHeld, RunningIsHeld, WriterTypeOK, Cancel
  <2>3. WorkerHolds'
    BY <1>0, <1>2 DEF WriterInv, WorkerHolds, WriterTypeOK, Cancel
  <2>4. ShutdownOrder'
    BY <1>2, <2>1 DEF WriterInv, ShutdownOrder, Cancel
  <2>5. QED
    BY <2>2, <2>3, <2>4
<1>3. CASE Pop
  <2>1. \A x : Queued(x) <=> Queued(x)' \/ x = Head(queue)
    BY <1>0, <1>3, PopType DEF Pop
  <2>2. /\ pc = "idle" /\ cur = None /\ closed' = closed
        /\ UNCHANGED <<state, crashed, inFlight, doomed, closer>>
    BY <1>0, <1>3 DEF Pop, WriterTypeOK
  <2>3. CASE Head(queue) = Sentinel
    <3>1. sentinelSeen' /\ pc' = pc /\ cur' = cur
      BY <1>3, <2>3 DEF Pop
    <3>2. PendingIsHeld' /\ RunningIsHeld' /\ WorkerHolds'
      BY <2>1, <2>2, <2>3, <3>1 DEF WriterInv, PendingIsHeld, RunningIsHeld, WorkerHolds
    <3>3. ShutdownOrder'
      BY <2>1, <2>2, <2>3, <3>1 DEF WriterInv, ShutdownOrder
    <3>4. QED
      BY <3>2, <3>3
  <2>4. CASE Head(queue) # Sentinel
    <3>1. cur' = Head(queue) /\ pc' = "popped" /\ sentinelSeen' = sentinelSeen
      BY <1>3, <2>4 DEF Pop
    <3>2. PendingIsHeld' /\ RunningIsHeld' /\ WorkerHolds'
      BY <2>1, <2>2, <2>4, <3>1 DEF WriterInv, PendingIsHeld, RunningIsHeld, WorkerHolds
    <3>3. ShutdownOrder'
      BY <2>1, <2>2, <2>4, <3>1 DEF WriterInv, ShutdownOrder
    <3>4. QED
      BY <3>2, <3>3
  <2>5. QED
    BY <2>3, <2>4
<1>4. CASE Exit
  <2>1. \A x : ~Queued(x) /\ ~Queued(x)'
    BY <1>4, EmptyQueue DEF Exit, Queued, Occurs
  <2>2. PendingIsHeld' /\ RunningIsHeld' /\ WorkerHolds'
    BY <1>4, <2>1 DEF WriterInv, PendingIsHeld, RunningIsHeld, WorkerHolds, Exit
  <2>3. ShutdownOrder'
    BY <1>4, <2>1 DEF WriterInv, ShutdownOrder, Exit
  <2>4. QED
    BY <2>2, <2>3
<1>5. ASSUME Claim \/ Start \/ Skip \/ Release \/ Interrupt
      PROVE  Parts'
  <2>1. \A x : Queued(x)' <=> Queued(x)
    BY <1>5 DEF Claim, Start, Skip, Release, Interrupt, Queued, Occurs
  <2>2. PendingIsHeld'
    BY <1>0, <1>5, <2>1 DEF WriterInv, PendingIsHeld, WorkerHolds, WriterTypeOK,
      Claim, Start, Skip, Release, Interrupt
  <2>3. RunningIsHeld'
    BY <1>0, <1>5 DEF WriterInv, RunningIsHeld, WorkerHolds, WriterTypeOK,
      Claim, Start, Skip, Release, Interrupt
  <2>4. WorkerHolds'
    BY <1>0, <1>5 DEF WriterInv, WorkerHolds, WriterTypeOK,
      Claim, Start, Skip, Release, Interrupt
  <2>5. ShutdownOrder'
    BY <1>5, <2>1 DEF WriterInv, ShutdownOrder, Claim, Start, Skip, Release, Interrupt
  <2>6. QED
    BY <2>2, <2>3, <2>4, <2>5
<1>6. CASE Abort
  <2>1. \A x : ~Queued(x)'
    BY <1>6, OccursEmpty DEF Abort, Queued
  <2>2. \A f \in Future : Queued(f) => f \in doomed'
    BY <1>0, <1>6, LenProperties DEF Abort, Queued, Occurs, WriterTypeOK
  <2>3. PendingIsHeld' /\ RunningIsHeld'
    BY <1>6, <2>2 DEF WriterInv, PendingIsHeld, RunningIsHeld, ShutdownOrder, Abort
  <2>4. WorkerHolds'
    BY <1>6 DEF WriterInv, WorkerHolds, Abort
  <2>5. ShutdownOrder'
    BY <1>6, <2>1 DEF WriterInv, ShutdownOrder, Abort
  <2>6. QED
    BY <2>3, <2>4, <2>5
<1>7. CASE Die
  <2>1. \A x : Queued(x)' <=> Queued(x)
    BY <1>7 DEF Die, Queued, Occurs
  <2>2. PendingIsHeld' /\ RunningIsHeld'
    BY <1>0, <1>7, <2>1 DEF WriterInv, PendingIsHeld, RunningIsHeld, WorkerHolds,
      ShutdownOrder, WriterTypeOK, Die
  <2>3. WorkerHolds' /\ ShutdownOrder'
    BY <1>7, <2>1 DEF WriterInv, WorkerHolds, ShutdownOrder, Die
  <2>4. QED
    BY <2>2, <2>3
<1>8. ASSUME NEW f \in Future, CancelDoomed(f)
      PROVE  Parts'
  <2>1. \A x : Queued(x)' <=> Queued(x)
    BY <1>8 DEF CancelDoomed, Queued, Occurs
  <2>2. PendingIsHeld' /\ RunningIsHeld'
    BY <1>0, <1>8, <2>1 DEF WriterInv, PendingIsHeld, RunningIsHeld, WriterTypeOK,
      CancelDoomed
  <2>3. WorkerHolds'
    BY <1>0, <1>8 DEF WriterInv, WorkerHolds, WriterTypeOK, CancelDoomed
  <2>4. ShutdownOrder'
    BY <1>8, <2>1 DEF WriterInv, ShutdownOrder, CancelDoomed
  <2>5. QED
    BY <2>2, <2>3, <2>4
<1>9. ASSUME NEW o \in {"done", "failed"}, Settle(o)
      PROVE  Parts'
  <2>1. \A x : Queued(x)' <=> Queued(x)
    BY <1>9 DEF Settle, Queued, Occurs
  <2>2. PendingIsHeld' /\ RunningIsHeld'
    BY <1>0, <1>9, <2>1 DEF WriterInv, PendingIsHeld, RunningIsHeld, WorkerHolds,
      WriterTypeOK, Settle
  <2>3. WorkerHolds'
    BY <1>0, <1>9 DEF WriterInv, WorkerHolds, WriterTypeOK, Settle
  <2>4. ShutdownOrder'
    BY <1>9, <2>1 DEF WriterInv, ShutdownOrder, Settle
  <2>5. QED
    BY <2>2, <2>3, <2>4
<1>10. ASSUME NEW c \in Closer, CloseMark(c)
       PROVE  Parts'
  <2>1. \A x : Queued(x)' <=> Queued(x)
    BY <1>10 DEF CloseMark, Queued, Occurs
  <2>2. PendingIsHeld' /\ RunningIsHeld' /\ WorkerHolds'
    BY <1>10, <2>1 DEF WriterInv, PendingIsHeld, RunningIsHeld, WorkerHolds, CloseMark
  <2>3. ShutdownOrder'
    BY <1>0, <1>10, <2>1 DEF WriterInv, ShutdownOrder, WriterTypeOK, CloseMark
  <2>4. QED
    BY <2>2, <2>3
<1>11. ASSUME NEW c \in Closer, ClosePost(c)
       PROVE  Parts'
  <2>1. \A x : Queued(x)' <=> Queued(x) \/ x = Sentinel
    BY <1>0, <1>11, PostType DEF ClosePost
  <2>2. closed
    BY <1>11 DEF WriterInv, ShutdownOrder, ClosePost
  <2>3. PendingIsHeld' /\ RunningIsHeld' /\ WorkerHolds'
    BY <1>11, <2>1 DEF WriterInv, PendingIsHeld, RunningIsHeld, WorkerHolds, ClosePost
  <2>4. ShutdownOrder'
    BY <1>0, <1>11, <2>1, <2>2 DEF WriterInv, ShutdownOrder, WriterTypeOK, ClosePost
  <2>5. QED
    BY <2>3, <2>4
<1>12. ASSUME NEW c \in Closer, CloseJoin(c)
       PROVE  Parts'
  <2>1. \A x : Queued(x)' <=> Queued(x)
    BY <1>12 DEF CloseJoin, Queued, Occurs
  <2>2. PendingIsHeld' /\ RunningIsHeld' /\ WorkerHolds'
    BY <1>12, <2>1 DEF WriterInv, PendingIsHeld, RunningIsHeld, WorkerHolds, CloseJoin
  <2>3. ShutdownOrder'
    BY <1>0, <1>12, <2>1 DEF WriterInv, ShutdownOrder, WriterTypeOK, CloseJoin
  <2>4. QED
    BY <2>2, <2>3
<1>13. CASE UNCHANGED writerVars
  <2>1. \A x : Queued(x)' <=> Queued(x)
    BY <1>13 DEF writerVars, Queued, Occurs
  <2>2. QED
    BY <1>13, <2>1 DEF WriterInv, PendingIsHeld, RunningIsHeld, WorkerHolds,
      ShutdownOrder, writerVars
<1>14. QED
  BY <1>1, <1>2, <1>3, <1>4, <1>5, <1>6, <1>7, <1>8, <1>9, <1>10, <1>11, <1>12,
     <1>13 DEF WriterNext, WorkerLoop, CloserStep

(* The inductive invariant holds in every reachable state.                 *)
THEOREM WriterInvariant == WriterSpec => []WriterInv
  BY WriterInvInit, WriterInvNext, PTL DEF WriterSpec

(* No Future is left unsettled by a worker that has ended, by either way   *)
(* out, however submits, callbacks, cancels and close() calls interleave   *)
(* with it (index_writer.py:351-357).                                      *)
THEOREM WriterLeavesNoOrphan == WriterSpec => []NoOrphanFuture
<1>1. WriterInv => NoOrphanFuture
  <2> SUFFICES ASSUME WriterInv, pc = "exited", NEW f \in Future
               PROVE  state[f] \notin Active
    BY DEF NoOrphanFuture
  <2>1. cur = None /\ cur # f
    BY WriterAssumption DEF WriterInv, WriterTypeOK
  <2>2. doomed = {} /\ ~Queued(f)
    BY DEF WriterInv, ShutdownOrder
  <2>3. QED
    BY <2>1, <2>2 DEF WriterInv, PendingIsHeld, RunningIsHeld, Active
<1>2. QED
  BY <1>1, WriterInvariant, PTL

(* A close() that answered True found the worker ended for good: nothing   *)
(* in flight, nothing left to run (index_writer.py:199-203).               *)
THEOREM CloseTrueHolds == WriterSpec => []CloseTrueIsFinal
<1>1. WriterInv /\ NoOrphanFuture => CloseTrueIsFinal
  BY DEF WriterInv, ShutdownOrder, WorkerHolds, NoOrphanFuture, CloseTrueIsFinal
<1>2. QED
  BY <1>1, WriterInvariant, WriterLeavesNoOrphan, PTL
=============================================================================
