----------------------------- MODULE CommitPromise -----------------------------
(***************************************************************************)
(* What the write dispatcher promises its callers (write_callback.py):     *)
(* no queue, no buffer and no thread, only what becomes of each write and  *)
(* of each drain.  WriteDispatcher implements it.                          *)
(***************************************************************************)
EXTENDS Naturals

CONSTANTS
  Writes,    \* how many writes are fired
  Scope,     \* tool calls
  Drainer,   \* calls of drain
  None       \* no tool call

Write == 1..Writes

VARIABLES
  fate,      \* of each write: unfired, refused, accepted, handed to the callback
  scopeOf,   \* the tool call a write belongs to
  asked,     \* the writes accepted when a drain was asked
  answer,    \* of each drain: ready, waiting, true, false
  closing    \* close has begun

promiseVars == <<fate, scopeOf, asked, answer, closing>>

PromiseInit ==
  /\ fate = [w \in Write |-> "unfired"]
  /\ scopeOf = [w \in Write |-> None]
  /\ asked = [d \in Drainer |-> {}]
  /\ answer = [d \in Drainer |-> "ready"]
  /\ closing = FALSE

-----------------------------------------------------------------------------
(* A write is accepted, or refused once close has begun.                   *)
Accept(w, s) ==
  /\ fate[w] = "unfired"
  /\ fate' = [fate EXCEPT ![w] = IF closing THEN "refused" ELSE "accepted"]
  /\ scopeOf' = [scopeOf EXCEPT ![w] = s]
  /\ UNCHANGED <<asked, answer, closing>>

(* The callback gets some writes of one call, or one write of none, and    *)
(* none of them before an earlier one of the same call.                    *)
Hand(batch) ==
  /\ batch # {} /\ \A w \in batch : fate[w] = "accepted"
  /\ \A v, w \in batch : scopeOf[v] = scopeOf[w] /\ (v # w => scopeOf[v] # None)
  /\ \A w \in batch, v \in Write :
       (v < w /\ scopeOf[v] = scopeOf[w] /\ fate[v] = "accepted") => v \in batch
  /\ fate' = [w \in Write |-> IF w \in batch THEN "handed" ELSE fate[w]]
  /\ UNCHANGED <<scopeOf, asked, answer, closing>>

Covered(d) == \A w \in asked[d] : fate[w] = "handed"

(* A drain is asked, and perhaps answered at once.                         *)
Ask(d) ==
  /\ answer[d] = "ready"
  /\ asked' = [asked EXCEPT ![d] = {w \in Write : fate[w] \in {"accepted", "handed"}}]
  /\ \E a \in {"waiting", "false", "true"} :
       /\ a = "true" => closing \/ \A w \in asked'[d] : fate[w] = "handed"
       /\ answer' = [answer EXCEPT ![d] = a]
  /\ UNCHANGED <<fate, scopeOf, closing>>

(* It answers True only when the callback has had all it asked for.        *)
Answer(d) ==
  /\ answer[d] = "waiting"
  /\ \E a \in {"false", "true"} :
       /\ a = "true" => Covered(d)
       /\ answer' = [answer EXCEPT ![d] = a]
  /\ UNCHANGED <<fate, scopeOf, asked, closing>>

BeginClose == closing' = TRUE /\ UNCHANGED <<fate, scopeOf, asked, answer>>

PromiseNext ==
  \/ \E w \in Write, s \in Scope \cup {None} : Accept(w, s)
  \/ \E batch \in SUBSET Write : Hand(batch)
  \/ \E d \in Drainer : Ask(d) \/ Answer(d)
  \/ BeginClose

PromiseSpec == PromiseInit /\ [][PromiseNext]_promiseVars
=============================================================================
