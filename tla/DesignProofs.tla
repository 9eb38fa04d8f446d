---------------------------- MODULE DesignProofs ----------------------------
(***************************************************************************)
(* Theorems about what serves and assembles a design: DynamicBatcher, for  *)
(* any set of requests, any set of shutdown() calls and any batch size;    *)
(* Decoding, for any tokens, prefixes, model, length and number of         *)
(* guesses; MemoryLog, for any processes and any number of appends,        *)
(* crashes and truncations; WorkflowOrchestrator, for any stages,          *)
(* dependencies and order of registration; CadTree, for any features,      *)
(* references, parameters and expressions.                                 *)
(***************************************************************************)
EXTENDS DesignLayer, CadProofs, ListProofs, SequenceTheorems, FiniteSetTheorems, TLAPS

-----------------------------------------------------------------------------
(* What appending, popping and splitting do to the members of a list.      *)

\* self._pending.append(r).
LEMMA AppendHeld ==
  ASSUME NEW q \in Seq(Requests), NEW r \in Requests
  PROVE  /\ Append(q, r) \in Seq(Requests)
         /\ ToSet(Append(q, r)) = ToSet(q) \cup {r}
         /\ IsInjective(q) /\ r \notin ToSet(q) => IsInjective(Append(q, r))
<1>1. /\ Len(q) \in Nat /\ DOMAIN q = 1 .. Len(q)
      /\ Append(q, r) \in Seq(Requests)
      /\ Len(Append(q, r)) = Len(q) + 1
      /\ \A i \in 1 .. Len(q) : Append(q, r)[i] = q[i]
      /\ Append(q, r)[Len(q) + 1] = r
  BY AppendProperties, LenProperties
<1>2. DOMAIN Append(q, r) = 1 .. (Len(q) + 1)
  BY <1>1, LenProperties
<1>3. 1 .. (Len(q) + 1) = (1 .. Len(q)) \cup {Len(q) + 1}
  BY <1>1
<1>4. ToSet(Append(q, r)) = ToSet(q) \cup {r}
  BY <1>1, <1>2, <1>3 DEF ToSet
<1>5. IsInjective(q) /\ r \notin ToSet(q) => IsInjective(Append(q, r))
  BY <1>1, <1>2, <1>3 DEF ToSet, IsInjective
<1>6. QED
  BY <1>1, <1>4, <1>5

\* One future of a batch or of a drained list is done, the others remain.
LEMMA TailHeld ==
  ASSUME NEW q \in Seq(Requests), q # <<>>
  PROVE  /\ Tail(q) \in Seq(Requests)
         /\ Head(q) \in Requests
         /\ ToSet(q) = ToSet(Tail(q)) \cup {Head(q)}
         /\ IsInjective(q) => IsInjective(Tail(q)) /\ Head(q) \notin ToSet(Tail(q))
<1>1. /\ Len(q) \in Nat \ {0} /\ DOMAIN q = 1 .. Len(q)
      /\ Head(q) = q[1] /\ Head(q) \in Requests
      /\ Tail(q) \in Seq(Requests)
      /\ Len(Tail(q)) = Len(q) - 1
      /\ \A i \in 1 .. Len(Tail(q)) : Tail(q)[i] = q[i + 1]
  BY HeadTailProperties, LenProperties, EmptySeq
<1>2. DOMAIN Tail(q) = 1 .. (Len(q) - 1)
  BY <1>1, LenProperties
<1>3. ToSet(q) = ToSet(Tail(q)) \cup {Head(q)}
  <2>1. \A i \in 1 .. Len(q) : i = 1 \/ (i - 1) \in 1 .. (Len(q) - 1)
    BY <1>1
  <2>2. \A i \in 1 .. (Len(q) - 1) : (i + 1) \in 1 .. Len(q)
    BY <1>1
  <2>3. ASSUME NEW x \in ToSet(q) PROVE x \in ToSet(Tail(q)) \cup {Head(q)}
    <3>1. PICK i \in 1 .. Len(q) : x = q[i]
      BY <1>1 DEF ToSet
    <3>2. CASE i = 1
      BY <3>1, <3>2, <1>1
    <3>3. CASE i # 1
      <4>1. (i - 1) \in 1 .. (Len(q) - 1) /\ (i - 1) + 1 = i
        BY <2>1, <3>3, <1>1
      <4>2. x = Tail(q)[i - 1]
        BY <4>1, <3>1, <1>1
      <4>3. QED
        BY <4>1, <4>2, <1>2 DEF ToSet
    <3>4. QED
      BY <3>2, <3>3
  <2>4. ASSUME NEW x \in ToSet(Tail(q)) PROVE x \in ToSet(q)
    BY <2>2, <1>1, <1>2 DEF ToSet
  <2>5. Head(q) \in ToSet(q)
    BY <1>1 DEF ToSet
  <2>6. QED
    BY <2>3, <2>4, <2>5
<1>4. IsInjective(q) => IsInjective(Tail(q)) /\ Head(q) \notin ToSet(Tail(q))
  BY <1>1, <1>2 DEF ToSet, IsInjective
<1>5. QED
  BY <1>1, <1>3, <1>4

\* The worker splits self._pending in the batch and what it leaves.
LEMMA SplitHeld ==
  ASSUME NEW q \in Seq(Requests)
  PROVE  /\ Prefix(q) \in Seq(Requests) /\ Rest(q) \in Seq(Requests)
         /\ ToSet(q) = ToSet(Prefix(q)) \cup ToSet(Rest(q))
         /\ IsInjective(q) => /\ IsInjective(Prefix(q)) /\ IsInjective(Rest(q))
                              /\ ToSet(Prefix(q)) \cap ToSet(Rest(q)) = {}
<1> DEFINE n == IF Len(q) < MaxBatch THEN Len(q) ELSE MaxBatch
<1>1. /\ Len(q) \in Nat /\ DOMAIN q = 1 .. Len(q)
      /\ \A i \in 1 .. Len(q) : q[i] \in Requests
  BY LenProperties, ElementOfSeq
<1>2. n \in 0 .. Len(q)
  BY <1>1, MaxBatchAssumption
<1>3. /\ Prefix(q) \in Seq(Requests) /\ Len(Prefix(q)) = n
      /\ \A i \in 1 .. n : Prefix(q)[i] = q[i]
  BY <1>1, <1>2, SubSeqProperties DEF Prefix
<1>4. /\ Rest(q) \in Seq(Requests) /\ Len(Rest(q)) = Len(q) - n
      /\ \A i \in 1 .. (Len(q) - n) : Rest(q)[i] = q[n + i]
  BY <1>1, <1>2, <1>3, SubSeqProperties DEF Rest
<1>5. DOMAIN Prefix(q) = 1 .. n /\ DOMAIN Rest(q) = 1 .. (Len(q) - n)
  BY <1>3, <1>4, LenProperties
<1> HIDE DEF n
<1>6. ToSet(q) = ToSet(Prefix(q)) \cup ToSet(Rest(q))
  <2>1. ASSUME NEW x \in ToSet(q) PROVE x \in ToSet(Prefix(q)) \cup ToSet(Rest(q))
    <3>1. PICK i \in 1 .. Len(q) : x = q[i]
      BY <1>1 DEF ToSet
    <3>2. CASE i \in 1 .. n
      BY <3>1, <3>2, <1>3, <1>5 DEF ToSet
    <3>3. CASE i \notin 1 .. n
      <4>1. (i - n) \in 1 .. (Len(q) - n) /\ n + (i - n) = i
        BY <3>3, <1>1, <1>2
      <4>2. x = Rest(q)[i - n]
        BY <4>1, <3>1, <1>4
      <4>3. QED
        BY <4>1, <4>2, <1>5 DEF ToSet
    <3>4. QED
      BY <3>2, <3>3
  <2>2. \A i \in 1 .. (Len(q) - n) : (n + i) \in 1 .. Len(q)
    BY <1>1, <1>2
  <2>3. \A i \in 1 .. n : i \in 1 .. Len(q)
    BY <1>1, <1>2
  <2>4. ASSUME NEW x \in ToSet(Prefix(q)) \cup ToSet(Rest(q)) PROVE x \in ToSet(q)
    BY <2>2, <2>3, <1>1, <1>3, <1>4, <1>5 DEF ToSet
  <2>5. QED
    BY <2>1, <2>4
<1>7. ASSUME IsInjective(q)
      PROVE  /\ IsInjective(Prefix(q)) /\ IsInjective(Rest(q))
             /\ ToSet(Prefix(q)) \cap ToSet(Rest(q)) = {}
  <2>1. \A i, j \in 1 .. Len(q) : q[i] = q[j] => i = j
    BY <1>7, <1>1 DEF IsInjective
  <2>2. IsInjective(Prefix(q))
    BY <2>1, <1>1, <1>2, <1>3, <1>5 DEF IsInjective
  <2>3. IsInjective(Rest(q))
    BY <2>1, <1>1, <1>2, <1>4, <1>5 DEF IsInjective
  <2>4. ASSUME NEW i \in 1 .. n, NEW j \in 1 .. (Len(q) - n) PROVE Prefix(q)[i] # Rest(q)[j]
    BY <2>1, <1>1, <1>2, <1>3, <1>4
  <2>5. QED
    BY <2>2, <2>3, <2>4, <1>5 DEF ToSet
<1>8. QED
  BY <1>3, <1>4, <1>6, <1>7

\* The lists that shutdown() and __init__ reset.
LEMMA EmptyHeld == /\ <<>> \in Seq(Requests)
                      /\ ToSet(<<>>) = {}
                      /\ IsInjective(<<>>)
<1>1. <<>> \in Seq(Requests) /\ DOMAIN <<>> = {}
  BY EmptySeq, LenProperties
<1>2. QED
  BY <1>1 DEF ToSet, IsInjective

-----------------------------------------------------------------------------
(* Type correctness                                                        *)

\* One step keeps the types.
LEMMA TypeStep == TypeOK /\ [Next]_vars => TypeOK'
<1> SUFFICES ASSUME TypeOK, [Next]_vars PROVE TypeOK'
  OBVIOUS
<1> USE DEF TypeOK
<1>1. ASSUME NEW r \in Requests, CallerStep(r) PROVE TypeOK'
  <2>1. CASE SubmitCheck(r)
    BY <2>1 DEF SubmitCheck, listVars, workerVars, closerVars
  <2>2. CASE SubmitAppend(r)
    BY <2>2, AppendHeld DEF SubmitAppend, Notify, closerVars
  <2>3. CASE Cancel(r)
    BY <2>3 DEF Cancel, listVars, workerVars, closerVars
  <2>4. QED
    BY <1>1, <2>1, <2>2, <2>3 DEF CallerStep
<1>2. CASE WorkerStep
  <2>1. CASE WorkerExit
    BY <2>1 DEF WorkerExit, listVars, clientVars, closerVars
  <2>2. CASE WorkerWait
    BY <2>2 DEF WorkerWait, listVars, clientVars, closerVars
  <2>3. CASE WorkerTakeBatch
    BY <2>3, SplitHeld DEF WorkerTakeBatch, clientVars, closerVars
  <2>4. CASE WorkerDispatched
    BY <2>4 DEF WorkerDispatched, listVars, clientVars, closerVars
  <2>5. CASE WorkerNext
    BY <2>5 DEF WorkerNext, listVars, clientVars, closerVars
  <2>6. CASE WorkerResolve
    <3>1. Tail(batch) \in Seq(Requests)
      BY <2>6, TailHeld DEF WorkerResolve
    <3>2. QED
      BY <2>6, <3>1 DEF WorkerResolve, ResolveHead, listVars, closerVars
  <2>7. CASE WorkerTestDone
    <3>1. Tail(batch) \in Seq(Requests)
      BY <2>7, TailHeld DEF WorkerTestDone
    <3>2. QED
      BY <2>7, <3>1 DEF WorkerTestDone, listVars, clientVars, closerVars
  <2>8. QED
    BY <1>2, <2>1, <2>2, <2>3, <2>4, <2>5, <2>6, <2>7 DEF WorkerStep
<1>3. ASSUME NEW c \in Closers, CloserDrain(c) PROVE TypeOK'
  BY <1>3, EmptyHeld DEF CloserDrain, Notify, clientVars
<1>4. ASSUME NEW c \in Closers, CloserStep(c) PROVE TypeOK'
  <2>1. CASE CloserResolve(c)
    <3>1. Tail(drained[c]) \in Seq(Requests)
      BY <2>1, TailHeld DEF CloserResolve
    <3>2. QED
      BY <2>1, <3>1 DEF CloserResolve, listVars, workerVars
  <2>2. CASE CloserReturn(c)
    BY <2>2 DEF CloserReturn, listVars, clientVars, workerVars
  <2>3. QED
    BY <1>4, <2>1, <2>2 DEF CloserStep
<1>5. CASE UNCHANGED vars
  BY <1>5 DEF vars, listVars, clientVars, workerVars, closerVars
<1>6. QED
  BY <1>1, <1>2, <1>3, <1>4, <1>5 DEF Next, Terminating

\* Every variable keeps its type (DynamicBatcher.__init__ and every critical
\* section).
THEOREM TypeCorrect == Spec => []TypeOK
<1>1. Init => TypeOK
  BY EmptyHeld DEF Init, TypeOK
<1>2. QED
  BY <1>1, TypeStep, PTL DEF Spec

-----------------------------------------------------------------------------
(* The inductive invariant: who holds which request                        *)

\* A future exists exactly for the calls of submit() that returned.
CallerInv == \A r \in Requests : caller[r] = "returned" <=> future[r] # "none"

\* Nobody completes a future that somebody else still holds, except its client.
HeldInv ==
  /\ \A r \in ToSet(pending) : future[r] \in {"pending", "cancelled"}
  /\ \A r \in ToSet(batch) : future[r] \in {"pending", "cancelled"}
  /\ \A c \in Closers : \A r \in ToSet(drained[c]) : future[r] \in {"pending", "cancelled"}

\* A batch is only there while the worker works on it (or died working on it), and
\* a list was taken only by a shutdown() that has begun.
WorkerInv ==
  /\ worker = "guarded" => outcome = "error"
  /\ worker \notin {"dispatch", "resolve", "guarded", "crashed"} => batch = <<>>
  /\ \A c \in Closers : closer[c] = "idle" => drained[c] = <<>>

\* NoneDropped, with the holder named.
HolderInv ==
  \A r \in Requests :
    future[r] = "pending" =>
      \/ r \in ToSet(pending)
      \/ r \in ToSet(batch)
      \/ \E c \in Closers : r \in ToSet(drained[c])

IInv ==
  /\ TypeOK
  /\ CallerInv
  /\ HeldInv
  /\ WorkerInv
  /\ HolderInv
  /\ OneHolder
  /\ FailsOnlyOnCancel

LEMMA InitIInv == Init => IInv
  BY EmptyHeld
  DEF Init, IInv, TypeOK, CallerInv, HeldInv, WorkerInv, HolderInv, OneHolder,
      FailsOnlyOnCancel

\* submit() and cancel().
LEMMA CallerKeeps ==
  ASSUME IInv, TypeOK', NEW r \in Requests, CallerStep(r)
  PROVE  IInv'
<1> USE DEF IInv
<1>1. CASE SubmitCheck(r)
  BY <1>1 DEF SubmitCheck, listVars, workerVars, closerVars, TypeOK, CallerInv, HeldInv,
     WorkerInv, HolderInv, OneHolder, FailsOnlyOnCancel
<1>2. CASE SubmitAppend(r)
  <2>1. future[r] = "none"
    BY <1>2 DEF SubmitAppend, CallerInv
  <2>2. /\ r \notin ToSet(pending) /\ r \notin ToSet(batch)
        /\ \A c \in Closers : r \notin ToSet(drained[c])
    BY <2>1 DEF HeldInv
  <2>3. /\ ToSet(pending') = ToSet(pending) \cup {r}
        /\ IsInjective(pending) => IsInjective(pending')
    BY <1>2, <2>2, AppendHeld DEF SubmitAppend, TypeOK
  <2>4. /\ future' = [future EXCEPT ![r] = "pending"]
        /\ caller' = [caller EXCEPT ![r] = "returned"]
        /\ UNCHANGED <<batch, outcome, closer, drained>>
        /\ worker' = worker \/ (worker = "parked" /\ worker' = "top")
    BY <1>2 DEF SubmitAppend, Notify, closerVars
  <2>5. CallerInv' /\ HeldInv' /\ HolderInv'
    BY <2>3, <2>4 DEF CallerInv, HeldInv, HolderInv, TypeOK
  <2>6. WorkerInv'
    BY <2>4 DEF WorkerInv
  <2>7. OneHolder'
    BY <2>2, <2>3, <2>4 DEF OneHolder
  <2>8. FailsOnlyOnCancel'
    <3>1. \A x \in Requests : future[x] = "cancelled" => future'[x] = "cancelled"
      BY <2>1, <2>4 DEF TypeOK
    <3>2. batch # <<>> => Head(batch) \in Requests
      BY TailHeld DEF TypeOK
    <3>3. \A c \in Closers : drained[c] # <<>> => Head(drained[c]) \in Requests
      BY TailHeld DEF TypeOK
    <3>4. QED
      BY <2>4, <3>1, <3>2, <3>3 DEF FailsOnlyOnCancel
  <2>9. QED
    BY <2>5, <2>6, <2>7, <2>8
<1>3. CASE Cancel(r)
  <2>1. /\ future' = [future EXCEPT ![r] = "cancelled"] /\ future[r] = "pending"
        /\ UNCHANGED <<listVars, caller, workerVars, closerVars>>
    BY <1>3 DEF Cancel
  <2>2. CallerInv' /\ HeldInv' /\ HolderInv' /\ WorkerInv' /\ OneHolder'
    BY <2>1 DEF listVars, workerVars, closerVars, CallerInv, HeldInv, WorkerInv, HolderInv,
       OneHolder, TypeOK
  <2>3. FailsOnlyOnCancel'
    BY <2>1 DEF FailsOnlyOnCancel, TypeOK, workerVars, closerVars
  <2>4. QED
    BY <2>2, <2>3
<1>4. QED
  BY <1>1, <1>2, <1>3 DEF CallerStep

\* _run() and _execute().
LEMMA WorkerKeeps ==
  ASSUME IInv, TypeOK', WorkerStep
  PROVE  IInv'
<1> USE DEF IInv
<1>1. CASE WorkerExit
  BY <1>1 DEF WorkerExit, listVars, clientVars, closerVars, CallerInv, HeldInv, WorkerInv,
     HolderInv, OneHolder, FailsOnlyOnCancel
<1>2. CASE WorkerWait
  BY <1>2 DEF WorkerWait, listVars, clientVars, closerVars, CallerInv, HeldInv, WorkerInv,
     HolderInv, OneHolder, FailsOnlyOnCancel
<1>3. CASE WorkerTakeBatch
  <2>1. /\ batch = <<>> /\ worker' = "dispatch"
        /\ batch' = Prefix(pending) /\ pending' = Rest(pending)
        /\ UNCHANGED <<stopped, clientVars, outcome, closerVars>>
    BY <1>3 DEF WorkerTakeBatch, WorkerInv
  <2>2. /\ ToSet(pending) = ToSet(batch') \cup ToSet(pending')
        /\ IsInjective(batch') /\ IsInjective(pending')
        /\ ToSet(batch') \cap ToSet(pending') = {}
    BY <2>1, SplitHeld DEF TypeOK, OneHolder
  <2>3. ToSet(batch) = {}
    BY <2>1, EmptyHeld
  <2>4. CallerInv' /\ HeldInv' /\ HolderInv'
    BY <2>1, <2>2, <2>3 DEF clientVars, closerVars, CallerInv, HeldInv, HolderInv
  <2>5. WorkerInv' /\ FailsOnlyOnCancel'
    BY <2>1 DEF clientVars, closerVars, WorkerInv, FailsOnlyOnCancel
  <2>6. OneHolder'
    BY <2>1, <2>2 DEF closerVars, OneHolder
  <2>7. QED
    BY <2>4, <2>5, <2>6
<1>4. CASE WorkerDispatched
  BY <1>4 DEF WorkerDispatched, listVars, clientVars, closerVars, CallerInv, HeldInv,
     WorkerInv, HolderInv, OneHolder, FailsOnlyOnCancel
<1>5. CASE WorkerNext
  BY <1>5 DEF WorkerNext, listVars, clientVars, closerVars, CallerInv, HeldInv, WorkerInv,
     HolderInv, OneHolder, FailsOnlyOnCancel
<1>6. CASE WorkerResolve
  <2> DEFINE h == Head(batch)
  <2>1. /\ batch # <<>> /\ batch \in Seq(Requests)
        /\ outcome \in {"result", "error"}
        /\ UNCHANGED <<stopped, pending, caller, outcome, closer, drained>>
        /\ worker \in {"resolve", "guarded"}
    BY <1>6 DEF WorkerResolve, WorkerInv, TypeOK, listVars, closerVars
  <2>2. /\ h \in Requests
        /\ ToSet(batch) = ToSet(Tail(batch)) \cup {h}
        /\ IsInjective(Tail(batch)) /\ h \notin ToSet(Tail(batch))
    BY <2>1, TailHeld DEF OneHolder
  <2> HIDE DEF h
  <2>3. CASE future[h] = "pending"
    <3>1. /\ future' = [future EXCEPT ![h] = outcome]
          /\ batch' = Tail(batch) /\ worker' = "resolve"
      BY <1>6, <2>3 DEF WorkerResolve, ResolveHead, h
    <3>2. /\ h \notin ToSet(pending) /\ h \notin ToSet(batch')
          /\ \A c \in Closers : h \notin ToSet(drained[c])
      BY <2>2, <3>1 DEF OneHolder
    <3>3. /\ future'[h] = outcome
          /\ \A r \in Requests : r # h => future'[r] = future[r]
      BY <2>2, <3>1 DEF TypeOK
    <3>4. CallerInv' /\ HolderInv'
      BY <2>1, <2>2, <2>3, <3>1, <3>3 DEF CallerInv, HolderInv
    <3>5. HeldInv'
      BY <2>1, <2>2, <3>1, <3>2 DEF HeldInv, TypeOK
    <3>6. WorkerInv'
      BY <2>1, <3>1 DEF WorkerInv
    <3>7. OneHolder'
      BY <2>1, <2>2, <3>1 DEF OneHolder
    <3>8. FailsOnlyOnCancel'
      <4>2. \A r \in Requests : future[r] = "cancelled" => future'[r] = "cancelled"
        BY <2>3, <3>3
      <4>3. \A c \in Closers : drained[c] # <<>> => Head(drained[c]) \in Requests
        BY TailHeld DEF TypeOK
      <4>4. QED
        BY <2>1, <3>1, <4>2, <4>3 DEF FailsOnlyOnCancel
    <3>9. QED
      BY <3>4, <3>5, <3>6, <3>7, <3>8
  <2>4. CASE future[h] # "pending"
    <3>1. worker' = "crashed" /\ UNCHANGED <<future, batch>>
      BY <1>6, <2>4 DEF WorkerResolve, ResolveHead, h
    <3>2. future[h] = "cancelled"
      BY <2>2, <2>4 DEF HeldInv
    <3>3. CallerInv' /\ HeldInv' /\ HolderInv' /\ WorkerInv' /\ OneHolder'
      BY <2>1, <3>1 DEF CallerInv, HeldInv, HolderInv, WorkerInv, OneHolder
    <3>4. FailsOnlyOnCancel'
      BY <2>1, <3>1, <3>2 DEF FailsOnlyOnCancel, h
    <3>5. QED
      BY <3>3, <3>4
  <2>5. QED
    BY <2>3, <2>4
<1>7. CASE WorkerTestDone
  <2>1. /\ batch # <<>> /\ batch \in Seq(Requests) /\ outcome = "error"
        /\ UNCHANGED <<stopped, pending, future, caller, outcome, closer, drained>>
        /\ worker = "resolve"
    BY <1>7 DEF WorkerTestDone, TypeOK, listVars, clientVars, closerVars
  <2>2. /\ Head(batch) \in Requests
        /\ ToSet(batch) = ToSet(Tail(batch)) \cup {Head(batch)}
        /\ IsInjective(Tail(batch)) /\ Head(batch) \notin ToSet(Tail(batch))
    BY <2>1, TailHeld DEF OneHolder
  <2>3. CASE future[Head(batch)] = "pending"
    BY <1>7, <2>1, <2>3 DEF WorkerTestDone, CallerInv, HeldInv, WorkerInv, HolderInv,
       OneHolder, FailsOnlyOnCancel
  <2>4. CASE future[Head(batch)] # "pending"
    <3>1. batch' = Tail(batch) /\ worker' = worker
      BY <1>7, <2>4 DEF WorkerTestDone
    <3>2. CallerInv' /\ HeldInv' /\ HolderInv'
      BY <2>1, <2>2, <2>4, <3>1 DEF CallerInv, HeldInv, HolderInv
    <3>3. WorkerInv' /\ FailsOnlyOnCancel'
      BY <2>1, <3>1 DEF WorkerInv, FailsOnlyOnCancel
    <3>4. OneHolder'
      BY <2>1, <2>2, <3>1 DEF OneHolder
    <3>5. QED
      BY <3>2, <3>3, <3>4
  <2>5. QED
    BY <2>3, <2>4
<1>8. QED
  BY <1>1, <1>2, <1>3, <1>4, <1>5, <1>6, <1>7 DEF WorkerStep

\* shutdown().
LEMMA CloserKeeps ==
  ASSUME IInv, TypeOK', NEW c \in Closers, CloserDrain(c) \/ CloserStep(c)
  PROVE  IInv'
<1> USE DEF IInv
<1>1. CASE CloserDrain(c)
  <2>1. /\ drained[c] = <<>> /\ drained' = [drained EXCEPT ![c] = pending]
        /\ pending' = <<>> /\ closer' = [closer EXCEPT ![c] = "draining"]
        /\ UNCHANGED <<caller, future, batch, outcome>>
        /\ worker' = worker \/ (worker = "parked" /\ worker' = "top")
    BY <1>1 DEF CloserDrain, Notify, clientVars, WorkerInv
  <2>2. ToSet(pending') = {} /\ IsInjective(pending') /\ ToSet(drained[c]) = {}
    BY <2>1, EmptyHeld
  <2>3. /\ drained'[c] = pending /\ closer'[c] = "draining"
        /\ \A d \in Closers : d # c => drained'[d] = drained[d] /\ closer'[d] = closer[d]
    BY <2>1 DEF TypeOK
  <2>4. CallerInv' /\ HeldInv' /\ HolderInv'
    BY <2>1, <2>2, <2>3 DEF CallerInv, HeldInv, HolderInv
  <2>5. WorkerInv' /\ FailsOnlyOnCancel'
    BY <2>1, <2>3 DEF WorkerInv, FailsOnlyOnCancel
  <2>6. OneHolder'
    BY <2>1, <2>2, <2>3 DEF OneHolder
  <2>7. QED
    BY <2>4, <2>5, <2>6
<1>2. CASE CloserResolve(c)
  <2> DEFINE h == Head(drained[c])
  <2>1. /\ drained[c] # <<>> /\ drained[c] \in Seq(Requests) /\ closer[c] = "draining"
        /\ UNCHANGED <<stopped, pending, caller, worker, batch, outcome>>
    BY <1>2 DEF CloserResolve, TypeOK, listVars, workerVars
  <2>2. /\ h \in Requests
        /\ ToSet(drained[c]) = ToSet(Tail(drained[c])) \cup {h}
        /\ IsInjective(Tail(drained[c])) /\ h \notin ToSet(Tail(drained[c]))
    BY <2>1, TailHeld DEF OneHolder
  <2> HIDE DEF h
  <2>3. CASE future[h] = "pending"
    <3>1. /\ future' = [future EXCEPT ![h] = "error"]
          /\ drained' = [drained EXCEPT ![c] = Tail(drained[c])]
          /\ closer' = closer
      BY <1>2, <2>3 DEF CloserResolve, h
    <3>2. /\ drained'[c] = Tail(drained[c])
          /\ \A d \in Closers : d # c => drained'[d] = drained[d]
      BY <3>1 DEF TypeOK
    <3>3. /\ future'[h] = "error"
          /\ \A r \in Requests : r # h => future'[r] = future[r]
      BY <2>2, <3>1 DEF TypeOK
    <3>4. /\ h \notin ToSet(pending) /\ h \notin ToSet(batch)
          /\ \A d \in Closers : h \notin ToSet(drained'[d])
      BY <2>2, <3>2 DEF OneHolder
    <3>5. CallerInv' /\ HolderInv'
      BY <2>1, <2>2, <2>3, <3>2, <3>3 DEF CallerInv, HolderInv
    <3>6. HeldInv'
      BY <2>1, <2>2, <3>1, <3>2, <3>4 DEF HeldInv, TypeOK
    <3>7. WorkerInv'
      BY <2>1, <3>1, <3>2 DEF WorkerInv
    <3>8. OneHolder'
      BY <2>1, <2>2, <3>2 DEF OneHolder
    <3>9. FailsOnlyOnCancel'
      <4>1. \A r \in Requests : future[r] = "cancelled" => future'[r] = "cancelled"
        BY <2>3, <3>3
      <4>2. batch # <<>> => Head(batch) \in Requests
        BY TailHeld DEF TypeOK
      <4>3. \A d \in Closers : drained[d] # <<>> => Head(drained[d]) \in Requests
        BY TailHeld DEF TypeOK
      <4>4. QED
        BY <2>1, <3>1, <3>2, <4>1, <4>2, <4>3 DEF FailsOnlyOnCancel
    <3>10. QED
      BY <3>5, <3>6, <3>7, <3>8, <3>9
  <2>4. CASE future[h] # "pending"
    <3>1. closer' = [closer EXCEPT ![c] = "raised"] /\ UNCHANGED <<future, drained>>
      BY <1>2, <2>4 DEF CloserResolve, h
    <3>2. future[h] = "cancelled"
      BY <2>2, <2>4 DEF HeldInv
    <3>3. /\ closer'[c] = "raised"
          /\ \A d \in Closers : d # c => closer'[d] = closer[d]
      BY <3>1 DEF TypeOK
    <3>4. CallerInv' /\ HeldInv' /\ HolderInv' /\ OneHolder'
      BY <2>1, <3>1 DEF CallerInv, HeldInv, HolderInv, OneHolder
    <3>5. WorkerInv'
      BY <2>1, <3>1, <3>3 DEF WorkerInv
    <3>6. FailsOnlyOnCancel'
      BY <2>1, <3>1, <3>2, <3>3 DEF FailsOnlyOnCancel, h
    <3>7. QED
      BY <3>4, <3>5, <3>6
  <2>5. QED
    BY <2>3, <2>4
<1>3. CASE CloserReturn(c)
  <2>1. /\ UNCHANGED <<stopped, pending, caller, future, worker, batch, outcome, drained>>
        /\ closer' = [closer EXCEPT ![c] = "returned"]
    BY <1>3 DEF CloserReturn, listVars, clientVars, workerVars
  <2>2. \A d \in Closers : closer'[d] # "returned" => closer'[d] = closer[d]
    BY <2>1 DEF TypeOK
  <2>3. QED
    BY <2>1, <2>2 DEF CallerInv, HeldInv, HolderInv, WorkerInv, OneHolder, FailsOnlyOnCancel
<1>4. QED
  BY <1>1, <1>2, <1>3 DEF CloserStep

LEMMA NextIInv == IInv /\ [Next]_vars => IInv'
<1> SUFFICES ASSUME IInv, [Next]_vars PROVE IInv'
  OBVIOUS
<1>1. TypeOK'
  BY TypeStep DEF IInv
<1>2. CASE UNCHANGED vars
  BY <1>2, <1>1 DEF vars, listVars, clientVars, workerVars, closerVars, IInv, CallerInv,
     HeldInv, HolderInv, WorkerInv, OneHolder, FailsOnlyOnCancel
<1>3. CASE Next
  BY <1>1, <1>2, <1>3, CallerKeeps, WorkerKeeps, CloserKeeps DEF Next, Terminating
<1>4. QED
  BY <1>2, <1>3

LEMMA Invariance == Spec => []IInv
  BY InitIInv, NextIInv, PTL DEF Spec

\* A request is in the list, in the batch or with one shutdown() call, once.
THEOREM HoldersExclusive == Spec => []OneHolder
  BY Invariance, PTL DEF IInv

\* No future is lost between submit(), the worker and shutdown().
THEOREM NothingDropped == Spec => []NoneDropped
<1>1. IInv => NoneDropped
  BY DEF IInv, HolderInv, NoneDropped, Held
<1>2. QED
  BY <1>1, Invariance, PTL

LEMMA HoldersActStep == ASSUME IInv, HoldersAct, [Next]_vars PROVE HoldersAct'
<1> USE DEF HoldersAct
<1>1. TypeOK /\ WorkerInv
  BY DEF IInv
<1>2. ASSUME NEW r \in Requests, CallerStep(r) PROVE HoldersAct'
  BY <1>2 DEF CallerStep, SubmitCheck, SubmitAppend, Cancel, Notify, listVars, workerVars, closerVars
<1>3. CASE WorkerStep
  <2>1. UNCHANGED <<stopped, closer, drained>>
    BY <1>3 DEF WorkerStep, WorkerExit, WorkerWait, WorkerTakeBatch, WorkerDispatched, WorkerNext,
                WorkerResolve, WorkerTestDone, listVars, closerVars
  <2>2. worker' = "parked" => pending' = <<>> /\ ~stopped
    BY <1>3 DEF WorkerStep, WorkerExit, WorkerWait, WorkerTakeBatch, WorkerDispatched, WorkerNext,
                WorkerResolve, ResolveHead, WorkerTestDone, listVars
  <2>3. worker' = "exited" => stopped
    BY <1>3 DEF WorkerStep, WorkerExit, WorkerWait, WorkerTakeBatch, WorkerDispatched, WorkerNext,
                WorkerResolve, ResolveHead, WorkerTestDone
  <2>4. batch' # <<>> => worker' \in {"dispatch", "resolve", "guarded", "crashed"}
    BY <1>1, <1>3 DEF WorkerInv, WorkerStep, WorkerExit, WorkerWait, WorkerTakeBatch, WorkerDispatched,
                WorkerNext, WorkerResolve, ResolveHead, WorkerTestDone
  <2> QED
    BY <2>1, <2>2, <2>3, <2>4
<1>4. ASSUME NEW c \in Closers, CloserDrain(c) PROVE HoldersAct'
  BY <1>1, <1>4 DEF TypeOK, CloserDrain, Notify
<1>5. ASSUME NEW c \in Closers, CloserStep(c) PROVE HoldersAct'
  <2>1. UNCHANGED <<listVars, workerVars>>
    BY <1>5 DEF CloserStep, CloserResolve, CloserReturn
  <2>2. ASSUME NEW d \in Closers, d # c PROVE drained'[d] = drained[d] /\ closer'[d] = closer[d]
    BY <1>1, <1>5, <2>2 DEF TypeOK, CloserStep, CloserResolve, CloserReturn
  <2>3. drained'[c] # <<>> => closer'[c] \in {"draining", "raised"}
    BY <1>1, <1>5 DEF TypeOK, CloserStep, CloserResolve, CloserReturn
  <2> QED
    BY <2>1, <2>2, <2>3 DEF listVars, workerVars
<1>6. CASE UNCHANGED vars
  BY <1>6 DEF vars, listVars, workerVars, closerVars
<1> QED
  BY <1>2, <1>3, <1>4, <1>5, <1>6 DEF Next, Terminating

\* Nobody falls asleep over a request, or leaves with it (the waits of _run, and the end of
\* shutdown).
THEOREM NobodySleeps == Spec => []HoldersAct
<1>1. Init => HoldersAct
  BY DEF Init, HoldersAct
<1> QED
  BY <1>1, HoldersActStep, Invariance, PTL DEF Spec

\* A request that is not done has one holder: neither none nor two, nor one that sleeps.
THEOREM OneHolderAlways == Spec => []HeldByOne
  BY HoldersExclusive, NothingDropped, NobodySleeps, PTL DEF HeldByOne

\* The worker thread dies, and shutdown() raises, only on a cancelled future.
THEOREM OnlyCancelKills == Spec => []FailsOnlyOnCancel
  BY Invariance, PTL DEF IInv

-----------------------------------------------------------------------------
(* The batcher implements FutureService                                    *)

\* Every step of the batcher is a step of the service or leaves it alone.
LEMMA ServiceStep == IInv /\ TypeOK' /\ [Next]_vars => [Service!Next]_(Service!vars)
<1> SUFFICES ASSUME IInv, TypeOK', [Next]_vars
             PROVE  Service!Next \/ UNCHANGED Service!vars
  OBVIOUS
<1> USE DEF IInv
<1> USE DEF Service!Next, Service!vars, Service!Admit, Service!Submit, Service!Complete,
            Service!Close
<1>1. ASSUME NEW r \in Requests, CallerStep(r)
      PROVE  Service!Next \/ UNCHANGED Service!vars
  <2>1. CASE SubmitCheck(r)
    <3>1. /\ UNCHANGED <<stopped, future>> /\ caller[r] = "idle"
          /\ caller' = [caller EXCEPT ![r] = IF stopped THEN "refused" ELSE "admitted"]
      BY <2>1 DEF SubmitCheck, listVars
    <3>2. CASE stopped
      <4>1. \A x \in Requests : caller'[x] \in {"admitted", "returned"}
                             <=> caller[x] \in {"admitted", "returned"}
        BY <3>1, <3>2 DEF TypeOK
      <4>2. QED
        BY <3>1, <4>1
    <3>3. CASE ~stopped
      <4>1. \A x \in Requests : caller'[x] \in {"admitted", "returned"}
                             <=> x = r \/ caller[x] \in {"admitted", "returned"}
        BY <3>1, <3>3 DEF TypeOK
      <4>2. QED
        BY <3>1, <3>3, <4>1
    <3>4. QED
      BY <3>2, <3>3
  <2>2. CASE SubmitAppend(r)
    <3>1. future[r] = "none" /\ future' = [future EXCEPT ![r] = "pending"]
      BY <2>2 DEF SubmitAppend, CallerInv
    <3>2. /\ \A x \in Requests : caller'[x] \in {"admitted", "returned"}
                               <=> caller[x] \in {"admitted", "returned"}
          /\ caller[r] = "admitted" /\ stopped' = stopped
      BY <2>2 DEF SubmitAppend, TypeOK
    <3>3. QED
      BY <3>1, <3>2
  <2>3. CASE Cancel(r)
    BY <2>3 DEF Cancel, listVars
  <2>4. QED
    BY <1>1, <2>1, <2>2, <2>3 DEF CallerStep
<1>2. ASSUME WorkerStep PROVE Service!Next \/ UNCHANGED Service!vars
  <2>1. UNCHANGED <<stopped, caller>>
    BY <1>2 DEF WorkerStep, WorkerExit, WorkerWait, WorkerTakeBatch, WorkerDispatched,
       WorkerNext, WorkerResolve, WorkerTestDone, listVars, clientVars
  <2>2. CASE WorkerResolve
    <3>1. batch # <<>> /\ outcome \in {"result", "error"}
      BY <2>2 DEF WorkerResolve, WorkerInv
    <3>2. Head(batch) \in Requests
      BY <3>1, TailHeld DEF TypeOK
    <3>3. \/ UNCHANGED future
          \/ /\ future[Head(batch)] = "pending"
             /\ future' = [future EXCEPT ![Head(batch)] = outcome]
      BY <2>2 DEF WorkerResolve, ResolveHead
    <3>4. QED
      BY <2>1, <3>1, <3>2, <3>3
  <2>3. CASE ~WorkerResolve
    <3>1. UNCHANGED future
      BY <1>2, <2>3 DEF WorkerStep, WorkerExit, WorkerWait, WorkerTakeBatch,
         WorkerDispatched, WorkerNext, WorkerTestDone, clientVars
    <3>2. QED
      BY <2>1, <3>1
  <2>4. QED
    BY <2>2, <2>3
<1>3. ASSUME NEW c \in Closers, CloserDrain(c)
      PROVE  Service!Next \/ UNCHANGED Service!vars
  BY <1>3 DEF CloserDrain, clientVars
<1>4. ASSUME NEW c \in Closers, CloserStep(c)
      PROVE  Service!Next \/ UNCHANGED Service!vars
  <2>1. CASE CloserResolve(c)
    <3>1. drained[c] # <<>> /\ UNCHANGED <<stopped, caller>>
      BY <2>1 DEF CloserResolve, listVars
    <3>2. Head(drained[c]) \in Requests
      BY <3>1, TailHeld DEF TypeOK
    <3>3. \/ UNCHANGED future
          \/ /\ future[Head(drained[c])] = "pending"
             /\ future' = [future EXCEPT ![Head(drained[c])] = "error"]
      BY <2>1 DEF CloserResolve
    <3>4. QED
      BY <3>1, <3>2, <3>3
  <2>2. CASE CloserReturn(c)
    BY <2>2 DEF CloserReturn, listVars, clientVars
  <2>3. QED
    BY <1>4, <2>1, <2>2 DEF CloserStep
<1>5. CASE UNCHANGED vars
  BY <1>5 DEF vars, listVars, clientVars
<1>6. QED
  BY <1>1, <1>2, <1>3, <1>4, <1>5 DEF Next, Terminating

\* submit(), the worker and shutdown() refine the service: nobody is admitted after
\* shutdown() began, a Future is made only for an admitted request, and it
\* completes once.
THEOREM Refinement == Spec => ImplementsService
<1>1. Init => Service!Init
  BY DEF Init, Service!Init
<1>2. QED
  BY <1>1, Invariance, ServiceStep, TypeCorrect, PTL DEF Spec, Service!Spec, ImplementsService

-----------------------------------------------------------------------------
(* Decoding                                                                *)

\* Appending an id, and what remains of a prefix.
LEMMA GrowIds ==
  ASSUME NEW S, NEW s \in Seq(S), NEW t \in S
  PROVE  /\ Append(s, t) \in Seq(S) \ {<<>>}
         /\ Len(Append(s, t)) = Len(s) + 1
         /\ Append(s, t)[Len(s) + 1] = t
         /\ \A i \in 1..Len(s) : Append(s, t)[i] = s[i]
  BY AppendProperties, EmptySeq

LEMMA PrefixIds ==
  ASSUME NEW S, NEW s \in Seq(S), NEW m \in 1..(Len(s) + 1), NEW n \in (m - 1)..Len(s)
  PROVE  /\ SubSeq(s, m, n) \in Seq(S)
         /\ Len(SubSeq(s, m, n)) = n - m + 1
         /\ \A i \in 1..(n - m + 1) : SubSeq(s, m, n)[i] = s[m + i - 1]
<1>1. Len(s) \in Nat /\ m \in Int /\ n \in Int
  BY LenProperties
<1>2. \A i \in m..n : s[i] \in S
  BY <1>1, ElementOfSeq
<1>3. QED
  BY <1>1, <1>2, SubSeqProperties

LEMMA LastOfIds ==
  ASSUME NEW S, NEW s \in Seq(S) \ {<<>>}
  PROVE  /\ Len(s) \in Nat \ {0}
         /\ s[Len(s)] \in S
         /\ s[1] \in S
  BY LenProperties, EmptySeq, ElementOfSeq

LEMMA BestIsToken ==
  ASSUME DecodingTypeOK, NEW ids \in Seq(Ids)
  PROVE  Best(ids) \subseteq Tokens
  BY DEF DecodingTypeOK, Best, OnPath

LEMMA GuessesBounded ==
  ASSUME DecodingTypeOK, Room
  PROVE  /\ Limit \in Nat
         /\ Limit <= MaxLen - Len(tgt)
  BY DecodingAssumption, LastOfIds DEF DecodingTypeOK, Room, Limit, Smaller

LEMMA NgramDraftTyped ==
  ASSUME NEW ids \in Seq(Ids), NEW k \in Nat, NEW d \in NgramDrafts(ids, k)
  PROVE  /\ d \in Seq(Ids)
         /\ Len(d) <= k
         /\ \A i \in 1..Len(d) : \E j \in 1..Len(ids) : j > 1 /\ d[i] = ids[j]
<1>1. CASE d = <<>>
  BY <1>1, EmptySeq
<1>2. CASE d # <<>>
  <2>1. PICK s \in Matches(ids) : d = SubSeq(ids, s + Ngram, Smaller(s + Ngram + k - 1, Len(ids)))
    BY <1>2 DEF NgramDrafts
  <2>2. /\ Len(ids) \in Nat /\ s \in Nat \ {0} /\ s + Ngram < Len(ids) /\ Ngram \in Nat \ {0}
    BY <2>1, DecodingAssumption, LenProperties DEF Matches
  <2> DEFINE m == s + Ngram
             n == Smaller(m + k - 1, Len(ids))
  <2>3. m \in 1..(Len(ids) + 1) /\ n \in (m - 1)..Len(ids) /\ n - m + 1 <= k
    BY <2>2 DEF Smaller
  <2> HIDE DEF m, n
  <2>4. /\ SubSeq(ids, m, n) \in Seq(Ids)
        /\ Len(SubSeq(ids, m, n)) = n - m + 1
        /\ \A i \in 1..(n - m + 1) : SubSeq(ids, m, n)[i] = ids[m + i - 1]
    BY <2>3, PrefixIds
  <2>5. d = SubSeq(ids, m, n)
    BY <2>1 DEF m, n
  <2>6. m > 1
    BY <2>2 DEF m
  <2>7. \A i \in 1..(n - m + 1) : m + i - 1 \in 1..Len(ids) /\ m + i - 1 > 1
    BY <2>3, <2>6, <2>2
  <2>8. QED
    BY <2>3, <2>4, <2>5, <2>7
<1>3. QED
  BY <1>1, <1>2

LEMMA EagleDraftTyped ==
  ASSUME NEW k \in Nat, NEW d \in EagleDrafts(k)
  PROVE  d \in Seq(Ids) /\ Len(d) = k
<1>1. /\ d \in Seq(Ids)
  BY SMT DEF EagleDrafts, Ids
<1>2. DOMAIN d = 1..k /\ DOMAIN d = 1..Len(d) /\ Len(d) \in Nat
  BY <1>1, LenProperties DEF EagleDrafts
<1>3. QED
  BY <1>1, <1>2

\* What one token does to the sequence.
LEMMA AdvanceTyped ==
  ASSUME DecodingTypeOK, NEW t \in Tokens, NEW next \in {"loop", "verify"}, Advance(t, next)
  PROVE  /\ tgt' \in Seq(Ids) \ {<<>>} /\ Len(tgt') = Len(tgt) + 1
         /\ tgt'[Len(tgt')] = t
         /\ \A i \in 1..Len(tgt) : tgt'[i] = tgt[i]
         /\ ended' \in BOOLEAN /\ pc' \in {"loop", "verify", "done"}
<1>1. t \in Ids /\ tgt \in Seq(Ids) /\ tgt' = Append(tgt, t)
  BY DEF DecodingTypeOK, Advance, Ids
<1>2. /\ tgt' \in Seq(Ids) \ {<<>>} /\ Len(tgt') = Len(tgt) + 1
      /\ tgt'[Len(tgt) + 1] = t
      /\ \A i \in 1..Len(tgt) : tgt'[i] = tgt[i]
  BY <1>1, GrowIds
<1>3. QED
  BY <1>2 DEF Advance

LEMMA FeedTyped ==
  ASSUME DecodingTypeOK, Feed
  PROVE  cache' \in Seq(Ids) /\ confs' \in Seq(Seq(Ids))
<1>1. tgt[Len(tgt)] \in Ids
  BY LastOfIds DEF DecodingTypeOK
<1>2. cache' \in Seq(Ids)
  BY <1>1, GrowIds DEF DecodingTypeOK, Feed
<1>3. QED
  BY <1>2, GrowIds DEF DecodingTypeOK, Feed

\* Each variable of the decoders keeps its type: Decoding's DecodingTypeOK.
LEMMA DecodingTypeStep ==
  ASSUME DecodingTypeOK, [DecodingNext]_decodingVars
  PROVE  DecodingTypeOK'
<1> USE DEF DecodingTypeOK
<1>1. CASE FullStep
  <2>1. PICK t \in Best(tgt) : Advance(t, "loop")
    BY <1>1 DEF FullStep
  <2>2. t \in Tokens
    BY BestIsToken
  <2>3. confs' \in Seq(Seq(Ids))
    BY <1>1, GrowIds DEF FullStep
  <2>4. QED
    BY <1>1, <2>1, <2>2, <2>3, AdvanceTyped DEF FullStep
<1>2. CASE CachedStep
  <2>1. cache' \in Seq(Ids) /\ confs' \in Seq(Seq(Ids))
    BY <1>2, FeedTyped DEF CachedStep
  <2>2. PICK t \in Best(cache') : Advance(t, "loop")
    BY <1>2 DEF CachedStep
  <2>3. t \in Tokens
    BY <2>1, BestIsToken
  <2>4. QED
    BY <1>2, <2>1, <2>2, <2>3, AdvanceTyped DEF CachedStep
<1>3. CASE SamplePrefill
  BY <1>3 DEF SamplePrefill
<1>4. CASE SampleStep
  <2>1. cache' \in Seq(Ids) /\ confs' \in Seq(Seq(Ids))
    BY <1>4, FeedTyped DEF SampleStep
  <2>2. PICK t \in Tokens : Advance(t, "loop")
    BY <1>4 DEF SampleStep
  <2>3. QED
    BY <1>4, <2>1, <2>2, AdvanceTyped DEF SampleStep
<1>5. CASE SampleFull
  BY <1>5, GrowIds DEF SampleFull
<1>6. CASE NgramRound
  <2>1. PICK d \in NgramDrafts(tgt, Limit) : input' = tgt \o d
    BY <1>6 DEF NgramRound
  <2>2. d \in Seq(Ids)
    BY <1>6, GuessesBounded, NgramDraftTyped DEF NgramRound
  <2>3. input' \in Seq(Ids)
    BY <2>1, <2>2, ConcatProperties
  <2>4. confs' \in Seq(Seq(Ids))
    BY <1>6, <2>3, GrowIds DEF NgramRound
  <2>5. QED
    BY <1>6, <2>3, <2>4 DEF NgramRound
<1>7. CASE NgramVerify \/ NgramTail
  <2>1. PICK ids \in Seq(Ids) : \E t \in Best(ids) : tgt' = Append(tgt, t)
    <3>1. CASE NgramVerify
      <4>1. SubSeq(input, 1, Len(tgt)) \in Seq(Ids)
        BY <3>1, PrefixIds, LenProperties DEF NgramVerify
      <4>2. QED
        BY <3>1, <4>1 DEF NgramVerify
    <3>2. CASE NgramTail
      BY <3>2 DEF NgramTail
    <3>3. QED
      BY <1>7, <3>1, <3>2
  <2>2. Best(ids) \subseteq Ids
    BY BestIsToken DEF Ids
  <2>3. tgt' \in Seq(Ids) \ {<<>>}
    <3>1. PICK t \in Ids : tgt' = Append(tgt, t)
      BY <2>1, <2>2
    <3>2. Append(tgt, t) \in Seq(Ids) \ {<<>>}
      BY <3>1, GrowIds
    <3>3. QED
      BY <3>1, <3>2
  <2>4. QED
    BY <1>7, <2>3 DEF NgramVerify, NgramTail
<1>8. CASE NgramSettle
  BY <1>8 DEF NgramSettle
<1>9. CASE EagleRound
  <2>1. cache' \in Seq(Ids) /\ confs' \in Seq(Seq(Ids))
    BY <1>9, FeedTyped DEF EagleRound
  <2>2. PICK t \in Best(cache'), d \in EagleDrafts(Limit) :
          /\ input' = tgt \o d
          /\ Advance(t, IF d # <<>> /\ d[1] = t THEN "verify" ELSE "loop")
    BY <1>9 DEF EagleRound
  <2>3. t \in Tokens
    BY <2>1, BestIsToken
  <2>4. d \in Seq(Ids)
    BY <1>9, GuessesBounded, EagleDraftTyped DEF EagleRound
  <2>5. input' \in Seq(Ids)
    BY <2>2, <2>4, ConcatProperties
  <2>6. QED
    BY <1>9, <2>1, <2>2, <2>3, <2>5, AdvanceTyped DEF EagleRound
<1>10. CASE EagleVerify \/ EagleTail
  <2>1. cache' \in Seq(Ids) /\ confs' \in Seq(Seq(Ids))
    BY <1>10, FeedTyped DEF EagleVerify, EagleTail
  <2>2. PICK t \in Best(cache'), next \in {"loop", "verify"} : Advance(t, next)
    BY <1>10 DEF EagleVerify, EagleTail
  <2>3. t \in Tokens
    BY <2>1, BestIsToken
  <2>4. QED
    BY <1>10, <2>1, <2>2, <2>3, AdvanceTyped DEF EagleVerify, EagleTail
<1>11. CASE Exhausted
  BY <1>11 DEF Exhausted
<1>12. CASE UNCHANGED decodingVars
  BY <1>12 DEF decodingVars
<1>13. QED
  BY <1>1, <1>2, <1>3, <1>4, <1>5, <1>6, <1>7, <1>8, <1>9, <1>10, <1>11, <1>12 DEF DecodingNext

-----------------------------------------------------------------------------
(* What a decoder knows between two steps.                                 *)

\* The last generated token is the end token.
AtEnd == Len(tgt) > Len(start) /\ tgt[Len(tgt)] = Eos

Stages ==
  /\ Len(start) <= Len(tgt)
  /\ method \in Greedy => start = <<Bos>> /\ pc \notin {"prefill", "raised"}
  /\ pc = "settle" => method = "ngram"
  /\ pc = "verify" => method \in {"ngram", "eagle"}

EndKnown ==
  /\ pc \in {"prefill", "loop", "verify"} => ~AtEnd
  /\ pc \notin {"done"} => ~ended
  /\ pc = "done" => (ended <=> AtEnd)

\* The sequence follows the greedy path, and the guesses leave room for one more token.
GreedyPath == method \in Greedy =>
  /\ Len(tgt) <= MaxLen + 1 /\ tgt[1] = Bos
  /\ \A i \in 2..Len(tgt) : tgt[i] = target[i - 1]
  /\ pc = "done" /\ ~ended => Len(tgt) = MaxLen + 1
  /\ pc = "verify" => Len(tgt) <= Len(input) /\ Len(input) <= MaxLen

CacheFollows == method \in {"cached", "eagle"} => cache = SubSeq(tgt, 1, Len(tgt) - 1)

\* A draft repeats earlier ids, of which none is the end token: the round ends before.
DraftsGoOn == method = "ngram" =>
  /\ \A i \in 1..(Len(tgt) - 1) : tgt[i] # Eos
  /\ pc = "verify" => /\ \A i \in 1..Len(tgt) : input[i] = tgt[i]
                      /\ \A i \in 1..Len(input) : input[i] # Eos

DecodingInv == DecodingTypeOK /\ Stages /\ EndKnown /\ GreedyPath /\ CacheFollows /\ DraftsGoOn

LEMMA BestOfPath ==
  ASSUME DecodingInv, method \in Greedy, Len(tgt) <= MaxLen
  PROVE  Best(tgt) = {target[Len(tgt)]}
  BY LastOfIds DEF DecodingInv, DecodingTypeOK, GreedyPath, Best, OnPath

\* After decode_step() the cache holds the whole sequence.
LEMMA FeedFills ==
  ASSUME DecodingInv, method \in {"cached", "eagle"}, Feed
  PROVE  cache' = tgt
<1>1. tgt \in Seq(Ids) /\ Len(tgt) \in Nat \ {0} /\ tgt[Len(tgt)] \in Ids
  BY LastOfIds DEF DecodingInv, DecodingTypeOK
<1>2. /\ cache \in Seq(Ids) /\ Len(cache) = Len(tgt) - 1
      /\ \A i \in 1..(Len(tgt) - 1) : cache[i] = tgt[i]
  <2>1. 1 \in 1..(Len(tgt) + 1) /\ Len(tgt) - 1 \in (1 - 1)..Len(tgt)
    BY <1>1
  <2>2. cache = SubSeq(tgt, 1, Len(tgt) - 1)
    BY DEF DecodingInv, CacheFollows
  <2>3. /\ SubSeq(tgt, 1, Len(tgt) - 1) \in Seq(Ids)
        /\ Len(SubSeq(tgt, 1, Len(tgt) - 1)) = (Len(tgt) - 1) - 1 + 1
        /\ \A i \in 1..((Len(tgt) - 1) - 1 + 1) : SubSeq(tgt, 1, Len(tgt) - 1)[i] = tgt[1 + i - 1]
    BY <1>1, <2>1, PrefixIds
  <2>4. QED
    BY <1>1, <2>2, <2>3
<1>3. /\ cache' \in Seq(Ids) /\ Len(cache') = Len(tgt)
      /\ \A i \in 1..Len(tgt) : cache'[i] = tgt[i]
  BY <1>1, <1>2, GrowIds DEF Feed
<1>4. QED
  BY <1>1, <1>3, SeqEqual

\* A token added to the sequence: the one of the greedy path where the search is greedy,
\* the end token only as the last one.
Grows(t) ==
  /\ pc \in {"loop", "verify"}
  /\ t \in Tokens
  /\ tgt' = Append(tgt, t)
  /\ IF method \in Greedy THEN Len(tgt) <= MaxLen /\ t = target[Len(tgt)] ELSE Len(tgt) < MaxLen
  /\ \/ t = Eos /\ pc' = "done" /\ ended' = TRUE
     \/ pc' = "settle" /\ ended' = FALSE /\ method = "ngram"
     \/ t # Eos /\ pc' \in {"loop", "verify"} /\ ended' = FALSE
  /\ pc' = "verify" => method \in {"ngram", "eagle"}
  /\ UNCHANGED <<method, target, start>>

LEMMA GreedyRoom ==
  ASSUME DecodingTypeOK, Room
  PROVE  Len(tgt) <= MaxLen
  BY LastOfIds, DecodingAssumption DEF DecodingTypeOK, Room

LEMMA StepGrows ==
  ASSUME DecodingInv,
         \/ FullStep \/ CachedStep \/ SampleStep \/ NgramVerify \/ NgramTail
         \/ EagleRound \/ EagleVerify \/ EagleTail
  PROVE  \E t \in Tokens : Grows(t)
<1>0. DecodingTypeOK /\ tgt \in Seq(Ids) /\ Len(tgt) \in Nat \ {0} /\ MaxLen \in Nat
  BY LastOfIds, DecodingAssumption DEF DecodingInv, DecodingTypeOK
<1>t. target[Len(tgt)] \in Tokens \/ ~(Len(tgt) <= MaxLen)
  BY <1>0 DEF DecodingTypeOK
<1>1. CASE FullStep
  BY <1>0, <1>t, <1>1, BestOfPath, GreedyRoom DEF FullStep, Advance, Grows, Greedy
<1>2. CASE CachedStep
  <2>1. cache' = tgt
    BY <1>2, FeedFills DEF CachedStep
  <2>2. Len(tgt) <= MaxLen /\ method \in Greedy
    BY <1>0, <1>2, GreedyRoom DEF CachedStep, Greedy
  <2>3. Best(cache') = {target[Len(tgt)]}
    BY <2>1, <2>2, BestOfPath
  <2>4. QED
    BY <1>t, <1>2, <2>2, <2>3 DEF CachedStep, Advance, Grows
<1>3. CASE SampleStep
  BY <1>3 DEF SampleStep, Advance, Grows, Greedy
<1>4. CASE NgramVerify
  <2>1. /\ Len(tgt) <= MaxLen /\ Len(tgt) < Len(input) /\ input \in Seq(Ids)
        /\ method \in Greedy /\ Len(input) \in Nat /\ ~ended
        /\ \A i \in 1..Len(tgt) : input[i] = tgt[i]
        /\ \A i \in 1..Len(input) : input[i] # Eos
    BY <1>0, <1>4, LenProperties
       DEF DecodingInv, DecodingTypeOK, GreedyPath, DraftsGoOn, EndKnown, NgramVerify, Greedy
  <2>2. SubSeq(input, 1, Len(tgt)) = tgt
    <3>1. /\ SubSeq(input, 1, Len(tgt)) \in Seq(Ids)
          /\ Len(SubSeq(input, 1, Len(tgt))) = Len(tgt)
          /\ \A i \in 1..Len(tgt) : SubSeq(input, 1, Len(tgt))[i] = input[i]
      BY <1>0, <2>1, PrefixIds
    <3>2. QED
      BY <1>0, <2>1, <3>1, SeqEqual
  <2>3. Best(SubSeq(input, 1, Len(tgt))) = {target[Len(tgt)]}
    BY <2>1, <2>2, BestOfPath
  <2>4. input[Len(tgt) + 1] # Eos
    BY <1>0, <2>1
  <2>5. QED
    BY <1>t, <1>4, <2>1, <2>3, <2>4 DEF NgramVerify, Grows, DecodingTypeOK
<1>5. CASE NgramTail
  <2>1. /\ Len(tgt) <= MaxLen /\ Len(tgt) = Len(input) /\ input \in Seq(Ids)
        /\ method \in Greedy /\ ~ended
        /\ \A i \in 1..Len(tgt) : input[i] = tgt[i]
    BY <1>0, <1>5 DEF DecodingInv, DecodingTypeOK, GreedyPath, DraftsGoOn, EndKnown, NgramTail, Greedy
  <2>2. input = tgt
    BY <1>0, <2>1, SeqEqual
  <2>3. Best(input) = {target[Len(tgt)]}
    BY <2>1, <2>2, BestOfPath
  <2>4. QED
    BY <1>0, <1>t, <1>5, <2>1, <2>3 DEF NgramTail, Grows, DecodingTypeOK
<1>6. CASE EagleRound \/ EagleVerify \/ EagleTail
  <2>1. cache' = tgt
    BY <1>6, FeedFills DEF EagleRound, EagleVerify, EagleTail
  <2>2. Len(tgt) <= MaxLen /\ method \in Greedy
    <3>1. method = "eagle"
      BY <1>6 DEF EagleRound, EagleVerify, EagleTail
    <3>2. CASE EagleRound
      BY <1>0, <3>1, <3>2, GreedyRoom DEF EagleRound, Greedy
    <3>3. CASE ~EagleRound
      <4>1. pc = "verify" /\ Len(tgt) <= Len(input) /\ Len(input) <= MaxLen /\ Len(input) \in Nat
        BY <1>6, <3>1, <3>3, LenProperties
           DEF EagleVerify, EagleTail, DecodingInv, DecodingTypeOK, GreedyPath, Greedy
      <4>2. QED
        BY <1>0, <3>1, <4>1 DEF Greedy
    <3>4. QED
      BY <3>2, <3>3
  <2>3. Best(cache') = {target[Len(tgt)]}
    BY <2>1, <2>2, BestOfPath
  <2>4. \E next \in {"loop", "verify"} : Advance(target[Len(tgt)], next)
    BY <1>6, <2>3 DEF EagleRound, EagleVerify, EagleTail
  <2>5. method = "eagle" /\ pc \in {"loop", "verify"} /\ UNCHANGED <<method, target, start>>
    BY <1>6 DEF EagleRound, EagleVerify, EagleTail
  <2>6. QED
    BY <1>t, <2>2, <2>4, <2>5 DEF Advance, Grows
<1>7. QED
  BY <1>1, <1>2, <1>3, <1>4, <1>5, <1>6

\* The other steps leave the sequence alone.
LEMMA GrowthKeeps ==
  ASSUME DecodingInv, NEW t \in Tokens, Grows(t)
  PROVE  /\ Len(tgt') = Len(tgt) + 1 /\ Len(tgt) \in Nat \ {0}
         /\ tgt'[Len(tgt) + 1] = t
         /\ \A i \in 1..Len(tgt) : tgt'[i] = tgt[i]
         /\ Stages' /\ EndKnown'
         /\ method \in Greedy => /\ Len(tgt') <= MaxLen + 1 /\ tgt'[1] = Bos
                                 /\ \A i \in 2..Len(tgt') : tgt'[i] = target[i - 1]
         /\ method = "ngram" => \A i \in 1..(Len(tgt') - 1) : tgt'[i] # Eos
<1>1. /\ tgt \in Seq(Ids) /\ Len(tgt) \in Nat \ {0} /\ t \in Ids /\ MaxLen \in Nat
      /\ Len(start) \in Nat /\ Len(start) <= Len(tgt)
  BY LastOfIds, DecodingAssumption DEF DecodingInv, DecodingTypeOK, Stages, Ids
<1>2. /\ Len(tgt') = Len(tgt) + 1
      /\ tgt'[Len(tgt) + 1] = t
      /\ \A i \in 1..Len(tgt) : tgt'[i] = tgt[i]
  BY <1>1, GrowIds DEF Grows
<1>3. Stages'
  BY <1>1, <1>2 DEF DecodingInv, Stages, Grows
<1>4. EndKnown'
  <2>1. AtEnd' <=> t = Eos
    BY <1>1, <1>2 DEF AtEnd, Grows
  <2>2. QED
    BY <2>1 DEF EndKnown, Grows
<1>5. ASSUME method \in Greedy
      PROVE  /\ Len(tgt') <= MaxLen + 1 /\ tgt'[1] = Bos
             /\ \A i \in 2..Len(tgt') : tgt'[i] = target[i - 1]
  BY <1>1, <1>2, <1>5 DEF DecodingInv, GreedyPath, Grows
<1>6. ASSUME method = "ngram" PROVE \A i \in 1..(Len(tgt') - 1) : tgt'[i] # Eos
  <2>1. tgt[Len(tgt)] # Eos
    <3>1. start = <<Bos>> /\ tgt[1] = Bos /\ Bos # Eos /\ ~AtEnd
      BY <1>6, DecodingAssumption DEF DecodingInv, Stages, EndKnown, GreedyPath, Grows, Greedy
    <3>2. CASE Len(tgt) = 1
      BY <3>1, <3>2
    <3>3. CASE Len(tgt) > 1
      BY <3>1, <3>3 DEF AtEnd
    <3>4. QED
      BY <1>1, <3>2, <3>3, SMTT(30)
  <2>2. \A i \in 1..(Len(tgt) - 1) : tgt[i] # Eos
    BY <1>6 DEF DecodingInv, DraftsGoOn
  <2>3. QED
    BY <1>1, <1>2, <2>1, <2>2
<1>7. QED
  BY <1>1, <1>2, <1>3, <1>4, <1>5, <1>6

\* The first ids of a sequence that has grown.
LEMMA GrownPrefix ==
  ASSUME NEW S, NEW s \in Seq(S), NEW t \in S, s # <<>>
  PROVE  SubSeq(Append(s, t), 1, Len(s)) = s
<1>1. /\ Append(s, t) \in Seq(S) /\ Len(s) \in Nat /\ Len(Append(s, t)) = Len(s) + 1
      /\ \A i \in 1..Len(s) : Append(s, t)[i] = s[i]
  BY GrowIds, LenProperties
<1>2. /\ SubSeq(Append(s, t), 1, Len(s)) \in Seq(S)
      /\ Len(SubSeq(Append(s, t), 1, Len(s))) = Len(s)
      /\ \A i \in 1..Len(s) : SubSeq(Append(s, t), 1, Len(s))[i] = Append(s, t)[i]
  BY <1>1, PrefixIds
<1>3. QED
  BY <1>1, <1>2, SeqEqual

LEMMA DecodingInvStep ==
  ASSUME DecodingInv, [DecodingNext]_decodingVars
  PROVE  DecodingInv'
<1>0. /\ DecodingTypeOK /\ DecodingTypeOK'
      /\ tgt \in Seq(Ids) /\ Len(tgt) \in Nat \ {0} /\ MaxLen \in Nat
  BY DecodingTypeStep, LastOfIds, DecodingAssumption DEF DecodingInv, DecodingTypeOK
<1> DEFINE Growth == \/ FullStep \/ CachedStep \/ SampleStep \/ NgramVerify \/ NgramTail
                     \/ EagleRound \/ EagleVerify \/ EagleTail
<1>1. CASE Growth
  <2>1. PICK t \in Tokens : Grows(t)
    BY <1>1, StepGrows
  <2>2. /\ Len(tgt') = Len(tgt) + 1
        /\ tgt'[Len(tgt) + 1] = t
        /\ \A i \in 1..Len(tgt) : tgt'[i] = tgt[i]
        /\ Stages' /\ EndKnown'
        /\ method \in Greedy => /\ Len(tgt') <= MaxLen + 1 /\ tgt'[1] = Bos
                                /\ \A i \in 2..Len(tgt') : tgt'[i] = target[i - 1]
        /\ method = "ngram" => \A i \in 1..(Len(tgt') - 1) : tgt'[i] # Eos
    BY <2>1, GrowthKeeps
  <2>3. UNCHANGED <<method, target, start>> /\ tgt' = Append(tgt, t) /\ t \in Ids
    BY <2>1 DEF Grows, Ids
  <2>4. pc' = "verify" => Len(tgt') <= Len(input') /\ Len(input') <= MaxLen
    <3>1. CASE FullStep \/ CachedStep \/ SampleStep \/ NgramTail \/ EagleTail
      BY <3>1 DEF FullStep, CachedStep, SampleStep, NgramTail, EagleTail, Advance
    <3>2. CASE NgramVerify \/ EagleVerify
      <4>1. /\ pc = "verify" /\ method \in Greedy /\ input' = input
            /\ Len(tgt) < Len(input) /\ Len(input) \in Nat
        BY <3>2, <1>0, LenProperties DEF NgramVerify, EagleVerify, Greedy, DecodingTypeOK
      <4>2. Len(input) <= MaxLen
        BY <4>1 DEF DecodingInv, GreedyPath
      <4>3. QED
        BY <1>0, <2>2, <4>1, <4>2
    <3>3. CASE EagleRound
      <4>1. PICK d \in EagleDrafts(Limit) :
               /\ input' = tgt \o d
               /\ pc' = "verify" => d # <<>>
        BY <3>3 DEF EagleRound, Advance
      <4>2. Limit \in Nat /\ Limit <= MaxLen - Len(tgt)
        BY <1>0, <3>3, GuessesBounded DEF EagleRound
      <4>3. d \in Seq(Ids) /\ Len(d) = Limit
        BY <4>2, EagleDraftTyped
      <4>4. Len(input') = Len(tgt) + Len(d)
        BY <1>0, <4>1, <4>3, ConcatProperties
      <4>5. d # <<>> => Len(d) >= 1
        BY <4>3, EmptySeq
      <4>6. QED
        BY <1>0, <2>2, <4>1, <4>2, <4>3, <4>4, <4>5
    <3>4. QED
      BY <1>1, <3>1, <3>2, <3>3
  <2>5. pc' = "done" => ended'
    BY <2>1 DEF Grows
  <2>6. GreedyPath'
    BY <2>2, <2>3, <2>4, <2>5 DEF GreedyPath
  <2>7. CacheFollows'
    <3>1. ASSUME method \in {"cached", "eagle"} PROVE cache' = tgt
      BY <1>1, <3>1, FeedFills DEF FullStep, CachedStep, SampleStep, NgramVerify, NgramTail,
           EagleRound, EagleVerify, EagleTail
    <3>2. SubSeq(tgt', 1, Len(tgt') - 1) = tgt
      <4>1. SubSeq(Append(tgt, t), 1, Len(tgt)) = tgt
        BY <1>0, <2>3, GrownPrefix DEF DecodingTypeOK
      <4>2. Len(tgt') - 1 = Len(tgt)
        BY <1>0, <2>2
      <4>3. QED
        BY <2>3, <4>1, <4>2
    <3>3. QED
      BY <2>3, <3>1, <3>2 DEF CacheFollows
  <2>8. DraftsGoOn'
    <3>1. ASSUME method = "ngram", pc' = "verify"
          PROVE  /\ \A i \in 1..Len(tgt') : input'[i] = tgt'[i]
                 /\ \A i \in 1..Len(input') : input'[i] # Eos
      <4>1. NgramVerify
        BY <1>1, <3>1 DEF FullStep, CachedStep, SampleStep, NgramVerify, NgramTail,
             EagleRound, EagleVerify, EagleTail
      <4>2. input' = input /\ pc = "verify" /\ t = input[Len(tgt) + 1]
        <5>1. PICK u \in Best(SubSeq(input, 1, Len(tgt))) :
                 /\ tgt' = Append(tgt, u)
                 /\ pc' = IF u = input[Len(tgt) + 1] THEN "verify" ELSE "settle"
          BY <4>1 DEF NgramVerify
        <5>2. u = input[Len(tgt) + 1]
          BY <3>1, <5>1
        <5>3. SubSeq(input, 1, Len(tgt)) \in Seq(Ids)
          BY <4>1, <1>0, PrefixIds, LenProperties DEF NgramVerify, DecodingTypeOK
        <5>4. u \in Ids
          BY <1>0, <5>3, BestIsToken DEF Ids
        <5>5. u = t
          BY <1>0, <2>2, <5>1, <5>4, GrowIds
        <5>6. QED
          BY <4>1, <5>2, <5>5 DEF NgramVerify
      <4>3. /\ \A i \in 1..Len(tgt) : input[i] = tgt[i]
            /\ \A i \in 1..Len(input) : input[i] # Eos
        BY <3>1, <4>2 DEF DecodingInv, DraftsGoOn
      <4>4. QED
        BY <1>0, <2>2, <4>2, <4>3
    <3>2. QED
      BY <2>2, <2>3, <3>1 DEF DraftsGoOn
  <2>9. QED
    BY <1>0, <2>2, <2>6, <2>7, <2>8 DEF DecodingInv
<1>2. CASE NgramRound
  <2>1. PICK d \in NgramDrafts(tgt, Limit) : input' = tgt \o d
    BY <1>2 DEF NgramRound
  <2>2. Limit \in Nat /\ Limit <= MaxLen - Len(tgt)
    BY <1>0, <1>2, GuessesBounded DEF NgramRound
  <2>3. /\ d \in Seq(Ids) /\ Len(d) <= Limit /\ Len(d) \in Nat
        /\ \A i \in 1..Len(d) : \E j \in 1..Len(tgt) : j > 1 /\ d[i] = tgt[j]
    BY <1>0, <2>2, NgramDraftTyped, LenProperties
  <2>4. /\ Len(input') = Len(tgt) + Len(d)
        /\ \A i \in 1..Len(tgt) : input'[i] = tgt[i]
        /\ \A i \in (Len(tgt) + 1)..(Len(tgt) + Len(d)) : input'[i] = d[i - Len(tgt)]
    BY <1>0, <2>1, <2>3, ConcatProperties
  <2>5. /\ pc = "loop" /\ pc' = "verify" /\ method = "ngram"
        /\ UNCHANGED <<method, target, start, tgt, cache, ended>>
    BY <1>2 DEF NgramRound
  <2>6. Stages' /\ EndKnown' /\ CacheFollows'
    BY <2>5 DEF DecodingInv, Stages, EndKnown, CacheFollows, AtEnd, Greedy
  <2>7. GreedyPath'
    BY <1>0, <2>2, <2>3, <2>4, <2>5 DEF DecodingInv, GreedyPath
  <2>8. \A i \in 1..Len(tgt) : tgt[i] # Eos
    <3>1. start = <<Bos>> /\ tgt[1] = Bos /\ Bos # Eos /\ ~AtEnd
      BY <2>5, DecodingAssumption DEF DecodingInv, Stages, EndKnown, GreedyPath, Greedy
    <3>2. \A i \in 1..(Len(tgt) - 1) : tgt[i] # Eos
      BY <2>5 DEF DecodingInv, DraftsGoOn
    <3>3. tgt[Len(tgt)] # Eos
      BY <1>0, <3>1 DEF AtEnd
    <3>4. QED
      BY <1>0, <3>2, <3>3
  <2>9. DraftsGoOn'
    <3>1. \A i \in 1..(Len(tgt) + Len(d)) : input'[i] # Eos
      <4>0. Len(tgt) \in Nat /\ Len(d) \in Nat
        BY <1>0, <2>3
      <4>1. ASSUME NEW i \in (Len(tgt) + 1)..(Len(tgt) + Len(d)) PROVE input'[i] # Eos
        <5>1. i - Len(tgt) \in 1..Len(d) /\ input'[i] = d[i - Len(tgt)]
          BY <1>0, <2>3, <2>4
        <5>2. QED
          BY <2>3, <2>8, <5>1
      <4>2. ASSUME NEW i \in 1..(Len(tgt) + Len(d)) PROVE input'[i] # Eos
        <5>1. i \in 1..Len(tgt) \/ i \in (Len(tgt) + 1)..(Len(tgt) + Len(d))
          BY <4>0
        <5>2. CASE i \in 1..Len(tgt)
          BY <2>4, <2>8, <5>2
        <5>3. CASE i \in (Len(tgt) + 1)..(Len(tgt) + Len(d))
          BY <4>1, <5>3
        <5>4. QED
          BY <5>1, <5>2, <5>3
      <4>3. QED
        BY <4>2
    <3>2. QED
      BY <2>4, <2>5, <2>8, <3>1 DEF DecodingInv, DraftsGoOn
  <2>10. QED
    BY <1>0, <2>6, <2>7, <2>9 DEF DecodingInv
<1>3. CASE NgramSettle
  <2>1. /\ pc = "settle" /\ method = "ngram" /\ pc' \in {"done", "loop"}
        /\ UNCHANGED <<method, target, start, tgt, input, cache>>
        /\ ended' = (tgt[Len(tgt)] = Eos) /\ (pc' = "done" <=> ended')
    BY <1>3 DEF NgramSettle, DecodingInv, Stages
  <2>2. (tgt[Len(tgt)] = Eos) <=> AtEnd
    <3>1. start = <<Bos>> /\ tgt[1] = Bos /\ Bos # Eos
      BY <2>1, DecodingAssumption DEF DecodingInv, Stages, GreedyPath, Greedy
    <3>2. QED
      BY <1>0, <3>1 DEF AtEnd
  <2>3. AtEnd' <=> AtEnd
    BY <2>1 DEF AtEnd
  <2>4. EndKnown'
    BY <2>1, <2>2, <2>3 DEF EndKnown
  <2>5. Stages' /\ GreedyPath' /\ CacheFollows' /\ DraftsGoOn'
    BY <2>1 DEF DecodingInv, Stages, GreedyPath, CacheFollows, DraftsGoOn, Greedy
  <2>6. QED
    BY <1>0, <2>4, <2>5 DEF DecodingInv
<1>4. CASE Exhausted
  <2>1. /\ pc = "loop" /\ pc' = "done"
        /\ UNCHANGED <<method, target, start, tgt, input, cache, ended>>
    BY <1>4 DEF Exhausted
  <2>2. method \in Greedy => Len(tgt) = MaxLen + 1
    BY <1>0, <1>4 DEF Exhausted, Room, DecodingInv, GreedyPath
  <2>3. Stages' /\ EndKnown'
    BY <2>1 DEF DecodingInv, Stages, EndKnown, AtEnd
  <2>4. GreedyPath' /\ CacheFollows' /\ DraftsGoOn'
    BY <2>1, <2>2 DEF DecodingInv, GreedyPath, CacheFollows, DraftsGoOn
  <2>5. QED
    BY <1>0, <2>3, <2>4 DEF DecodingInv
<1>5. CASE SamplePrefill \/ SampleFull
  <2>1. /\ method \notin Greedy
        /\ UNCHANGED <<method, target, start, tgt, input, ended>>
        /\ pc \in {"prefill", "loop"} /\ pc' \in {"loop", "raised"}
    BY <1>5 DEF SamplePrefill, SampleFull, DecodingInv, Stages, Greedy
  <2>2. Stages' /\ EndKnown'
    BY <2>1 DEF DecodingInv, Stages, EndKnown, AtEnd
  <2>3. GreedyPath' /\ CacheFollows' /\ DraftsGoOn'
    BY <2>1 DEF GreedyPath, CacheFollows, DraftsGoOn, Greedy
  <2>4. QED
    BY <1>0, <2>2, <2>3 DEF DecodingInv
<1>6. CASE UNCHANGED decodingVars
  BY <1>0, <1>6 DEF decodingVars, DecodingInv, Stages, EndKnown, GreedyPath, CacheFollows,
     DraftsGoOn, AtEnd
<1>7. QED
  BY <1>1, <1>2, <1>3, <1>4, <1>5, <1>6 DEF DecodingNext

LEMMA DecodingInvInit == DecodingInit => DecodingInv
<1> SUFFICES ASSUME DecodingInit PROVE DecodingInv
  OBVIOUS
<1>1. start \in Seq(Ids) \ {<<>>}
  <2>1. <<Bos>> \in Seq(Ids) \ {<<>>}
    BY DEF Ids
  <2>2. QED
    BY <2>1, DecodingAssumption DEF DecodingInit, Ids
<1>2. DecodingTypeOK
  BY <1>1, EmptySeq DEF DecodingInit, DecodingTypeOK
<1>3. Stages /\ EndKnown
  BY <1>1, LenProperties DEF DecodingInit, Stages, EndKnown, AtEnd, Greedy, Methods
<1>4. method \in Greedy => Len(tgt) = 1 /\ tgt[1] = Bos /\ pc = "loop"
  BY DEF DecodingInit, Greedy
<1>5. GreedyPath
  BY <1>4, DecodingAssumption DEF GreedyPath
<1>6. CacheFollows
  <2>1. ASSUME method \in Greedy PROVE SubSeq(tgt, 1, Len(tgt) - 1) = <<>>
    <3>1. Len(tgt) - 1 = 0
      BY <1>4, <2>1
    <3>2. SubSeq(tgt, 1, 0) = <<>>
      BY SubSeqEmpty
    <3>3. QED
      BY <3>1, <3>2
  <2>2. QED
    BY <2>1 DEF CacheFollows, DecodingInit, Greedy
<1>7. DraftsGoOn
  BY <1>4 DEF DraftsGoOn, Greedy
<1>8. QED
  BY <1>2, <1>3, <1>5, <1>6, <1>7 DEF DecodingInv

\* The variables of the decoders keep their types, the caches of the greedy decoders follow
\* the sequence, and the sequence follows the greedy path (inference/engine.py, eagle.py).
THEOREM DecodingInvariance == DecodingSpec => []DecodingInv
  BY DecodingInvInit, DecodingInvStep, PTL DEF DecodingSpec

-----------------------------------------------------------------------------
(* The generated part of the sequence, as GreedySearch sees it.            *)

LEMMA GeneratedPart ==
  ASSUME DecodingInv
  PROVE  LET gen == SubSeq(tgt, Len(start) + 1, Len(tgt)) IN
         /\ gen \in Seq(Ids)
         /\ Len(gen) = Len(tgt) - Len(start)
         /\ Search!Ended(gen) <=> AtEnd
<1> DEFINE gen == SubSeq(tgt, Len(start) + 1, Len(tgt))
<1>1. /\ tgt \in Seq(Ids) /\ Len(tgt) \in Nat \ {0} /\ Len(start) \in Nat \ {0}
      /\ Len(start) <= Len(tgt)
  BY LastOfIds DEF DecodingInv, DecodingTypeOK, Stages
<1>2. /\ gen \in Seq(Ids)
      /\ Len(gen) = Len(tgt) - (Len(start) + 1) + 1
      /\ \A i \in 1..(Len(tgt) - (Len(start) + 1) + 1) : gen[i] = tgt[(Len(start) + 1) + i - 1]
  BY <1>1, PrefixIds
<1> HIDE DEF gen
<1>3. Len(gen) = Len(tgt) - Len(start)
  BY <1>1, <1>2
<1>4. ASSUME Len(tgt) = Len(start) PROVE Search!Ended(gen) <=> AtEnd
  <2>1. gen = <<>>
    BY <1>2, <1>3, <1>4, EmptySeq, <1>1
  <2>2. QED
    BY <1>2, <1>3, <1>4, <2>1, <1>1 DEF Search!Ended, AtEnd
<1>5. ASSUME Len(tgt) > Len(start) PROVE Search!Ended(gen) <=> AtEnd
  <2>1. gen # <<>>
    BY <1>1, <1>3, <1>5, EmptySeq
  <2>2. gen[Len(gen)] = tgt[Len(tgt)]
    <3>1. Len(gen) \in 1..(Len(tgt) - (Len(start) + 1) + 1)
          /\ (Len(start) + 1) + Len(gen) - 1 = Len(tgt)
      BY <1>1, <1>3, <1>5
    <3>2. QED
      BY <1>2, <3>1
  <2>3. Search!Ended(gen) <=> gen[Len(gen)] = Eos
    BY <2>1 DEF Search!Ended
  <2>4. AtEnd <=> tgt[Len(tgt)] = Eos
    BY <1>5 DEF AtEnd
  <2>5. QED
    BY <2>2, <2>3, <2>4
<1>6. gen \in Seq(Ids) /\ Len(gen) = Len(tgt) - Len(start) /\ (Search!Ended(gen) <=> AtEnd)
  <2>1. Len(tgt) = Len(start) \/ Len(tgt) > Len(start)
    BY <1>1
  <2>2. Search!Ended(gen) <=> AtEnd
    BY <1>4, <1>5, <2>1
  <2>3. QED
    BY <1>2, <1>3, <2>2
<1>7. QED
  BY <1>6 DEF gen

LEMMA GeneratedGrows ==
  ASSUME DecodingInv, NEW t \in Tokens, Grows(t)
  PROVE  SubSeq(tgt', Len(start') + 1, Len(tgt'))
           = Append(SubSeq(tgt, Len(start) + 1, Len(tgt)), t)
<1>1. /\ tgt \in Seq(Ids) /\ Len(tgt) \in Nat \ {0} /\ Len(start) \in Nat \ {0}
      /\ Len(start) <= Len(tgt) /\ t \in Ids /\ start' = start
  BY LastOfIds DEF DecodingInv, DecodingTypeOK, Stages, Grows, Ids
<1>2. /\ tgt' \in Seq(Ids) /\ Len(tgt') = Len(tgt) + 1 /\ tgt'[Len(tgt) + 1] = t
      /\ \A i \in 1..Len(tgt) : tgt'[i] = tgt[i]
  BY <1>1, GrowIds DEF Grows
<1> DEFINE k == Len(start)
           gen == SubSeq(tgt, k + 1, Len(tgt))
           gen2 == SubSeq(tgt', k + 1, Len(tgt'))
<1>3. /\ gen \in Seq(Ids)
      /\ Len(gen) = Len(tgt) - (k + 1) + 1
      /\ \A i \in 1..(Len(tgt) - (k + 1) + 1) : gen[i] = tgt[(k + 1) + i - 1]
  BY <1>1, PrefixIds
<1>4. /\ gen2 \in Seq(Ids)
      /\ Len(gen2) = Len(tgt') - (k + 1) + 1
      /\ \A i \in 1..(Len(tgt') - (k + 1) + 1) : gen2[i] = tgt'[(k + 1) + i - 1]
  BY <1>1, <1>2, PrefixIds
<1> HIDE DEF gen, gen2
<1>5. /\ Append(gen, t) \in Seq(Ids)
      /\ Len(Append(gen, t)) = Len(gen) + 1
      /\ Append(gen, t)[Len(gen) + 1] = t
      /\ \A i \in 1..Len(gen) : Append(gen, t)[i] = gen[i]
  BY <1>1, <1>3, GrowIds
<1>6. Len(gen2) = Len(Append(gen, t))
  BY <1>1, <1>2, <1>3, <1>4, <1>5
<1>7. ASSUME NEW i \in 1..Len(gen2) PROVE gen2[i] = Append(gen, t)[i]
  <2>1. CASE i \in 1..Len(gen)
    <3>1. (k + 1) + i - 1 \in 1..Len(tgt)
      BY <1>1, <1>3, <2>1
    <3>2. QED
      BY <1>1, <1>2, <1>3, <1>4, <1>5, <2>1, <3>1
  <2>2. CASE i = Len(gen) + 1
    <3>1. Append(gen, t)[i] = t
      BY <1>5, <2>2
    <3>2. (k + 1) + i - 1 = Len(tgt) + 1 /\ i \in 1..(Len(tgt') - (k + 1) + 1)
      BY <1>1, <1>2, <1>3, <2>2
    <3>3. gen2[i] = tgt'[Len(tgt) + 1]
      BY <1>4, <3>2
    <3>4. QED
      BY <1>2, <3>1, <3>3
  <2>3. QED
    BY <1>1, <1>3, <1>5, <1>6, <2>1, <2>2
<1>8. gen2 = Append(gen, t)
  BY <1>4, <1>5, <1>6, <1>7, SeqEqual
<1>9. QED
  BY <1>1, <1>8 DEF gen, gen2

LEMMA SearchStep ==
  ASSUME DecodingInv, [DecodingNext]_decodingVars
  PROVE  [Search!SearchNext]_(Search!searchVars)
<1> DEFINE gen == SubSeq(tgt, Len(start) + 1, Len(tgt))
           res == CASE pc = "raised" -> "raised"
                    [] pc = "done" -> IF ended THEN "eos" ELSE "length"
                    [] OTHER -> "running"
<1>0. /\ Len(gen) = Len(tgt) - Len(start) /\ (Search!Ended(gen) <=> AtEnd)
      /\ Len(tgt) \in Nat \ {0} /\ Len(start) \in Nat \ {0} /\ MaxLen \in Nat
      /\ method \in Greedy => Len(start) = 1
  BY GeneratedPart, LastOfIds, DecodingAssumption DEF DecodingInv, DecodingTypeOK, Stages
<1> DEFINE Growth == \/ FullStep \/ CachedStep \/ SampleStep \/ NgramVerify \/ NgramTail
                     \/ EagleRound \/ EagleVerify \/ EagleTail
<1>1. CASE Growth
  <2>1. PICK t \in Tokens : Grows(t)
    BY <1>1, StepGrows
  <2>2. gen' = Append(gen, t)
    BY <2>1, GeneratedGrows
  <2>3. UNCHANGED <<target, method>> /\ res = "running" /\ ~AtEnd
    BY <2>1 DEF Grows, DecodingInv, EndKnown
  <2>4. res' = "running" \/ (t = Eos /\ res' = "eos")
    BY <2>1 DEF Grows
  <2>5. Len(gen) < MaxLen /\ (method \in Greedy => t = target[Len(gen) + 1])
    <3> HIDE DEF gen
    <3>1. CASE method \in Greedy
      <4>1. Len(tgt) <= MaxLen /\ t = target[Len(tgt)] /\ Len(gen) = Len(tgt) - 1
        BY <1>0, <2>1, <3>1 DEF Grows
      <4>2. Len(gen) + 1 = Len(tgt) /\ Len(gen) < MaxLen
        BY <1>0, <4>1
      <4>3. QED
        BY <4>1, <4>2
    <3>2. CASE method \notin Greedy
      BY <1>0, <2>1, <3>2 DEF Grows
    <3>3. QED
      BY <3>1, <3>2
  <2>6. Search!Emit(t)
    BY <1>0, <2>2, <2>3, <2>4, <2>5 DEF Search!Emit
  <2>7. QED
    BY <2>1, <2>6 DEF Search!SearchNext
<1>2. CASE NgramRound \/ SamplePrefill
  <2>1. UNCHANGED <<method, target, start, tgt>> /\ res = "running" /\ res' = "running"
    BY <1>2 DEF NgramRound, SamplePrefill
  <2>2. QED
    BY <2>1 DEF Search!searchVars
<1>3. CASE NgramSettle
  <2>1. /\ UNCHANGED <<method, target, start, tgt>> /\ method = "ngram" /\ res = "running"
        /\ ended' = (tgt[Len(tgt)] = Eos)
        /\ pc' = IF ended' THEN "done" ELSE "loop"
    BY <1>3 DEF NgramSettle, DecodingInv, Stages
  <2>2. CASE tgt[Len(tgt)] = Eos
    <3>1. AtEnd
      BY <1>0, <2>1, <2>2, DecodingAssumption DEF DecodingInv, GreedyPath, Greedy, AtEnd
    <3>2. res' = "eos" /\ gen' = gen
      BY <2>1, <2>2
    <3>3. QED
      BY <1>0, <2>1, <3>1, <3>2 DEF Search!SearchNext, Search!Finish
  <2>3. CASE tgt[Len(tgt)] # Eos
    <3>1. res' = "running"
      BY <2>1, <2>3
    <3>2. QED
      BY <2>1, <3>1 DEF Search!searchVars
  <2>4. QED
    BY <2>2, <2>3
<1>4. CASE Exhausted
  <2>1. /\ pc = "loop" /\ pc' = "done" /\ res = "running" /\ ~ended /\ ~AtEnd
        /\ UNCHANGED <<method, target, start, tgt, ended>>
    BY <1>4 DEF Exhausted, DecodingInv, EndKnown
  <2>2. res' = "length" /\ gen' = gen
    BY <2>1
  <2>3. method \in Greedy => Len(gen) = MaxLen
    <3> HIDE DEF gen
    <3>1. ASSUME method \in Greedy PROVE Len(tgt) = MaxLen + 1
      <4>1. ~(Len(tgt) - 1 < MaxLen)
        BY <1>4, <3>1 DEF Exhausted, Room
      <4>2. Len(tgt) <= MaxLen + 1
        BY <3>1 DEF DecodingInv, GreedyPath
      <4>3. QED
        BY <1>0, <4>1, <4>2
    <3>2. ASSUME method \in Greedy PROVE Len(gen) = MaxLen
      <4>1. Len(gen) = Len(tgt) - Len(start) /\ Len(start) = 1 /\ Len(tgt) = MaxLen + 1
        BY <1>0, <3>1, <3>2
      <4>2. QED
        BY <1>0, <4>1
    <3>3. QED
      BY <3>2
  <2>4. QED
    BY <1>0, <2>1, <2>2, <2>3 DEF Search!SearchNext, Search!Finish
<1>5. CASE SampleFull
  <2>1. /\ UNCHANGED <<method, target, start, tgt>> /\ method \notin Greedy
        /\ res = "running" /\ res' = "raised"
    BY <1>5 DEF SampleFull, Greedy
  <2>2. QED
    BY <2>1 DEF Search!SearchNext, Search!Raise
<1>6. CASE UNCHANGED decodingVars
  BY <1>6 DEF decodingVars, Search!searchVars
<1>7. QED
  BY <1>1, <1>2, <1>3, <1>4, <1>5, <1>6 DEF DecodingNext

\* The decoders refine the greedy search: the guesses of the speculative ones and the cache
\* leave no trace in what they return.
THEOREM GreedyRefinement == DecodingSpec => ImplementsGreedy
<1>1. DecodingInit => Search!SearchInit
  <2> SUFFICES ASSUME DecodingInit PROVE Search!SearchInit
    OBVIOUS
  <2>1. DecodingInv
    BY DecodingInvInit
  <2>2. SubSeq(tgt, Len(start) + 1, Len(tgt)) = <<>>
    <3>1. tgt = start /\ Len(tgt) \in Nat
      BY <2>1, LenProperties DEF DecodingInit, DecodingInv, DecodingTypeOK
    <3>2. QED
      BY <3>1, SubSeqEmpty
  <2>3. QED
    BY <2>2 DEF DecodingInit, Search!SearchInit, Greedy
<1>2. QED
  BY <1>1, DecodingInvariance, SearchStep, PTL DEF DecodingSpec, Search!SearchSpec, ImplementsGreedy

-----------------------------------------------------------------------------
(* The confidences.                                                        *)

\* The first ids of a sequence stay when it grows.
LEMMA PrefixStays ==
  ASSUME NEW S, NEW s \in Seq(S), NEW t \in S, NEW n \in 1..Len(s)
  PROVE  SubSeq(Append(s, t), 1, n) = SubSeq(s, 1, n)
<1>1. /\ Append(s, t) \in Seq(S) /\ Len(s) \in Nat /\ Len(Append(s, t)) = Len(s) + 1
      /\ \A i \in 1..Len(s) : Append(s, t)[i] = s[i]
  BY GrowIds, LenProperties
<1>2. /\ SubSeq(Append(s, t), 1, n) \in Seq(S)
      /\ Len(SubSeq(Append(s, t), 1, n)) = n
      /\ \A i \in 1..n : SubSeq(Append(s, t), 1, n)[i] = Append(s, t)[i]
  BY <1>1, PrefixIds
<1>3. /\ SubSeq(s, 1, n) \in Seq(S)
      /\ Len(SubSeq(s, 1, n)) = n
      /\ \A i \in 1..n : SubSeq(s, 1, n)[i] = s[i]
  BY <1>1, PrefixIds
<1>4. QED
  BY <1>1, <1>2, <1>3, SeqEqual

LEMMA ConfidenceStep ==
  ASSUME DecodingInv, ConfidencePerToken, [DecodingNext]_decodingVars
  PROVE  ConfidencePerToken'
<1> DEFINE Kept == method \in {"full", "cached", "eagle"}
           Growth == FullStep \/ CachedStep \/ EagleRound \/ EagleVerify \/ EagleTail
<1>1. CASE Growth
  <2>1. Kept /\ method' = method /\ confs' = Append(confs, tgt)
    BY <1>1, FeedFills DEF FullStep, CachedStep, EagleRound, EagleVerify, EagleTail, Feed
  <2>2. PICK t \in Tokens : Grows(t)
    BY <1>1, StepGrows
  <2>3. /\ tgt \in Seq(Ids) /\ Len(tgt) \in Nat \ {0} /\ t \in Ids
        /\ confs \in Seq(Seq(Ids)) /\ tgt' = Append(tgt, t)
    BY <2>2, LastOfIds DEF DecodingInv, DecodingTypeOK, Grows, Ids
  <2>4. Len(tgt') = Len(tgt) + 1
    BY <2>3, GrowIds
  <2>5. confs = [i \in 1..(Len(tgt) - 1) |-> SubSeq(tgt, 1, i)]
    BY <2>1 DEF ConfidencePerToken
  <2>6. Len(confs) = Len(tgt) - 1
    BY <2>3, <2>5, LenProperties
  <2>7. /\ confs' \in Seq(Seq(Ids)) /\ Len(confs') = Len(tgt)
        /\ confs'[Len(tgt)] = tgt
        /\ \A i \in 1..(Len(tgt) - 1) : confs'[i] = SubSeq(tgt, 1, i)
    <3>1. /\ confs' \in Seq(Seq(Ids)) /\ Len(confs') = Len(confs) + 1
          /\ confs'[Len(confs) + 1] = tgt
          /\ \A i \in 1..Len(confs) : confs'[i] = confs[i]
      BY <2>1, <2>3, GrowIds
    <3>2. Len(confs) + 1 = Len(tgt)
      BY <2>3, <2>6
    <3>3. \A i \in 1..(Len(tgt) - 1) : confs[i] = SubSeq(tgt, 1, i)
      BY <2>5
    <3>4. QED
      BY <2>6, <3>1, <3>2, <3>3
  <2>8. \A i \in 1..Len(tgt) : confs'[i] = SubSeq(tgt', 1, i)
    <3>1. ASSUME NEW i \in 1..Len(tgt) PROVE confs'[i] = SubSeq(tgt', 1, i)
      <4>1. SubSeq(tgt', 1, i) = SubSeq(tgt, 1, i)
        BY <2>3, PrefixStays
      <4>2. SubSeq(tgt, 1, Len(tgt)) = tgt
        BY <2>3, SubSeqFull
      <4>3. QED
        BY <2>3, <2>7, <4>1, <4>2
    <3>2. QED
      BY <3>1
  <2>9. confs' = [i \in 1..Len(tgt) |-> SubSeq(tgt', 1, i)]
    <3>1. DOMAIN confs' = 1..Len(tgt) /\ confs' = [i \in DOMAIN confs' |-> confs'[i]]
      BY <2>7, LenProperties
    <3>2. QED
      BY <2>8, <3>1
  <2>10. QED
    BY <2>3, <2>4, <2>9 DEF ConfidencePerToken
<1>2. CASE ~Growth
  <2>1. method' = method /\ (Kept => UNCHANGED <<tgt, confs>>)
    BY <1>2 DEF DecodingNext, decodingVars, SamplePrefill, SampleStep, SampleFull, NgramRound,
       NgramVerify, NgramTail, NgramSettle, Exhausted, DecodingInv, Stages, Greedy
  <2>2. QED
    BY <2>1 DEF ConfidencePerToken
<1>3. QED
  BY <1>1, <1>2

\* A confidence that a full, a cached or an EAGLE search reports is that of its token
\* (confs in inference/engine.py and inference/eagle.py).
THEOREM ConfidenceOfEachToken == DecodingSpec => []ConfidencePerToken
<1>1. DecodingInit => ConfidencePerToken
  <2> SUFFICES ASSUME DecodingInit, method \in {"full", "cached", "eagle"}
               PROVE  confs = [i \in 1..(Len(tgt) - 1) |-> SubSeq(tgt, 1, i)]
    BY DEF ConfidencePerToken
  <2>1. confs = <<>> /\ Len(tgt) - 1 = 0
    BY DEF DecodingInit, Greedy
  <2>2. confs \in Seq(Seq(Ids)) /\ Len(confs) = 0
    BY <2>1, EmptySeq
  <2>3. confs = [i \in 1..0 |-> confs[i]]
    BY <2>2, LenProperties
  <2>4. confs = [i \in 1..0 |-> SubSeq(tgt, 1, i)]
    BY <2>3
  <2>5. QED
    BY <2>1, <2>4
<1>2. QED
  BY <1>1, DecodingInvariance, ConfidenceStep, PTL DEF DecodingSpec

-----------------------------------------------------------------------------
(* The log of the memory                                                   *)

\* A process that holds the lock is the only one, and what it writes is a call's record.
LockHeld ==
  /\ \A w \in Writers : writer[w].at \in Holding => lockfile
  /\ \A v, w \in Writers : writer[v].at \in Holding /\ writer[w].at \in Holding => v = w
  /\ \A w \in Writers : writer[w].at # "idle" => writer[w].record \in 1..appends
  /\ \A w \in Writers : writer[w].file <= file

\* Only the last line can be torn: its writer is still in it, or has died with the lock.
OnlyLastTorn ==
  /\ \A i \in 1 .. Len(lines) : lines[i] = Broken => i = Len(lines) /\ ragged
  /\ ragged => lockfile /\ lines # <<>> /\ lines[Len(lines)] = Broken
  /\ ragged => \A w \in Writers : writer[w].at \in Holding =>
                                    writer[w].at = "writing" /\ writer[w].file = file
  /\ \A w \in Writers : writer[w].at = "writing" /\ writer[w].file = file
                          => ragged /\ writer[w].clean

\* What is written or acknowledged is a line of the log.
WrittenThere ==
  /\ \A w \in Writers : writer[w].at = "written" /\ writer[w].file = file
                          => \E i \in 1 .. Len(lines) : lines[i] = writer[w].record
  /\ \A r \in acked : \E i \in 1 .. Len(lines) : lines[i] = r

MemoryInv == MemoryTypeOK /\ LockHeld /\ (spoiled \/ (OnlyLastTorn /\ WrittenThere))

Place == [at : {"idle", "waiting"} \cup Holding, record : Nat, file : Nat, clean : BOOLEAN]

LEMMA IdlePlace == Idle \in Place /\ Idle.at = "idle" /\ Idle.file = 0
BY DEF Idle, Place, Broken

\* The place of one process changes, or a field of it.
LEMMA PlaceSet ==
  ASSUME MemoryTypeOK, NEW w \in Writers, NEW place \in Place,
         writer' = [writer EXCEPT ![w] = place]
  PROVE  /\ writer' \in [Writers -> Place] /\ writer'[w] = place
         /\ \A v \in Writers \ {w} : writer'[v] = writer[v]
BY DEF MemoryTypeOK, Place

LEMMA PlaceAt ==
  ASSUME MemoryTypeOK, NEW w \in Writers, NEW at \in {"idle", "waiting"} \cup Holding, Goto(w, at)
  PROVE  /\ writer' \in [Writers -> Place]
         /\ writer'[w].at = at /\ writer'[w].record = writer[w].record
         /\ writer'[w].file = writer[w].file /\ writer'[w].clean = writer[w].clean
         /\ \A v \in Writers \ {w} : writer'[v] = writer[v]
<1>1. writer \in [Writers -> Place]
  BY DEF MemoryTypeOK, Place
<1>2. [writer[w] EXCEPT !.at = at] \in Place
  BY <1>1 DEF Place
<1>3. writer' = [writer EXCEPT ![w] = [writer[w] EXCEPT !.at = at]]
  BY DEF Goto
<1>4. writer'[w] = [writer[w] EXCEPT !.at = at]
  BY <1>1, <1>3
<1>5. writer[w] \in Place
  BY <1>1
<1>6. /\ writer'[w].at = at /\ writer'[w].record = writer[w].record
      /\ writer'[w].file = writer[w].file /\ writer'[w].clean = writer[w].clean
  BY <1>4, <1>5 DEF Place
<1> QED
  BY <1>2, <1>3, <1>6, PlaceSet

\* A process gets the lock when nobody has it, and only who has it takes it away.
Moved(w) ==
  /\ writer' \in [Writers -> Place]
  /\ \A v \in Writers \ {w} : writer'[v] = writer[v]
  /\ writer'[w].at \in Holding => lockfile' /\ (lockfile => writer[w].at \in Holding)
  /\ lockfile /\ ~lockfile' => writer[w].at \in Holding
  /\ writer'[w].at # "idle" => writer'[w].record \in 1..appends'
  /\ writer'[w].file <= file'

LEMMA EveryoneMoves ==
  ASSUME MemoryTypeOK, LockHeld, NEW w \in Writers,
         \/ AppendAdds(w) \/ Acquire(w) \/ GiveUp(w) \/ OpenLog(w)
         \/ WriteBegins(w) \/ WriteEnds(w) \/ Release(w)
         \/ WriteFails(w) \/ Crash(w) \/ Replay(w)
  PROVE  Moved(w)
<1>1. /\ writer \in [Writers -> Place] /\ writer[w] \in Place /\ appends \in Nat /\ file \in Nat
      /\ lockfile \in BOOLEAN
      /\ writer[w].at \in Holding => lockfile
      /\ writer[w].at # "idle" => writer[w].record \in 1..appends
      /\ writer[w].file <= file
  BY MemoryAssumption DEF MemoryTypeOK, Place, LockHeld
<1>2. CASE AppendAdds(w)
  <2> DEFINE new == [Idle EXCEPT !.at = "waiting", !.record = appends']
  <2>1. appends' = appends + 1 /\ file' = file /\ lockfile' = lockfile
        /\ writer' = [writer EXCEPT ![w] = new]
    BY <1>2 DEF AppendAdds, log
  <2>2. new \in Place /\ new.at = "waiting" /\ new.record = appends' /\ new.file = 0
    <3> DEFINE waiting == [Idle EXCEPT !.at = "waiting"]
    <3>1. waiting \in Place /\ waiting.at = "waiting" /\ waiting.file = 0
      BY IdlePlace DEF Place
    <3>2. appends' \in Nat
      BY <1>1, <2>1
    <3>3. new = [waiting EXCEPT !.record = appends']
      OBVIOUS
    <3> HIDE DEF waiting, new
    <3> QED
      BY <3>1, <3>2, <3>3 DEF Place
  <2> HIDE DEF new
  <2>3. writer' \in [Writers -> Place] /\ writer'[w] = new
        /\ \A v \in Writers \ {w} : writer'[v] = writer[v]
    BY <2>1, <2>2, PlaceSet
  <2> QED
    BY <1>1, <2>1, <2>2, <2>3 DEF Moved, Holding
<1>3. CASE GiveUp(w) \/ Release(w) \/ WriteFails(w) \/ Crash(w)
  <2>1. /\ writer' = [writer EXCEPT ![w] = Idle] /\ UNCHANGED <<file, appends>>
        /\ lockfile' = lockfile \/ writer[w].at \in Holding
    BY <1>3 DEF GiveUp, Release, WriteFails, Crash, log, ghosts, Holding
  <2>2. writer' \in [Writers -> Place] /\ writer'[w] = Idle
        /\ \A v \in Writers \ {w} : writer'[v] = writer[v]
    BY <2>1, IdlePlace, PlaceSet
  <2> QED
    BY <1>1, <2>1, <2>2, IdlePlace DEF Moved, Holding
<1>4. CASE Acquire(w) \/ WriteEnds(w)
  <2>1. PICK at \in {"locked", "written"} : Goto(w, at) /\ lockfile' /\ UNCHANGED <<file, appends>>
                      /\ writer[w].at # "idle" /\ (lockfile => writer[w].at \in Holding)
    BY <1>1, <1>4 DEF Acquire, WriteEnds, log, ghosts, Holding
  <2> QED
    BY <1>1, <2>1, PlaceAt DEF Moved, Holding
<1>5. CASE OpenLog(w) \/ WriteBegins(w)
  <2> DEFINE new == IF OpenLog(w) THEN [writer[w] EXCEPT !.at = "open", !.file = file]
                                  ELSE [writer[w] EXCEPT !.at = "writing", !.clean = ~ragged]
  <2>1. /\ writer' = [writer EXCEPT ![w] = new]
        /\ UNCHANGED <<lockfile, file, appends>> /\ writer[w].at \in Holding
    BY <1>5 DEF OpenLog, WriteBegins, log, ghosts, Holding
  <2>2. new \in Place /\ new.at # "idle" /\ new.record = writer[w].record
        /\ new.file \in {file, writer[w].file}
    BY <1>1 DEF Place, Holding, MemoryTypeOK
  <2> HIDE DEF new
  <2>3. writer' \in [Writers -> Place] /\ writer'[w] = new
        /\ \A v \in Writers \ {w} : writer'[v] = writer[v]
    BY <2>1, <2>2, PlaceSet
  <2>4. writer'[w].record \in 1..appends' /\ writer'[w].file <= file' /\ lockfile'
    BY <1>1, <2>1, <2>2, <2>3 DEF Holding
  <2> QED
    BY <2>1, <2>3, <2>4 DEF Moved
<1>6. CASE Replay(w)
  BY <1>1, <1>6 DEF Replay, Moved, log, ghosts
<1> QED
  BY <1>2, <1>3, <1>4, <1>5, <1>6

LEMMA MemoryStarts == MemoryInit => MemoryInv
<1> SUFFICES ASSUME MemoryInit PROVE MemoryInv
  OBVIOUS
<1>1. lines \in Seq(Nat) /\ Len(lines) = 0 /\ 1 .. Len(lines) = {}
  BY EmptySeq DEF MemoryInit
<1>2. MemoryTypeOK
  <2>1. Idle \in Place
    BY IdlePlace
  <2> QED
    <3>1. writer \in [Writers -> Place] /\ memory \in [Writers -> SUBSET Nat]
      BY <2>1 DEF MemoryInit
    <3>2. appends \in 0..MaxRecords /\ trouble \in 0..MaxTrouble /\ acked \subseteq 1..appends
      BY MemoryAssumption DEF MemoryInit
    <3>3. ragged \in BOOLEAN /\ file \in Nat /\ lockfile \in BOOLEAN /\ spoiled \in BOOLEAN
      BY DEF MemoryInit
    <3> QED
      BY <1>1, <3>1, <3>2, <3>3 DEF MemoryTypeOK, Place
<1>3. LockHeld
  BY DEF MemoryInit, LockHeld, Idle, Holding
<1>4. OnlyLastTorn /\ WrittenThere
  BY <1>1 DEF MemoryInit, OnlyLastTorn, WrittenThere, Idle, Holding
<1> QED
  BY <1>2, <1>3, <1>4 DEF MemoryInv

\* A line is begun, or the one that was begun gets its record.
LEMMA LineTypes ==
  ASSUME NEW s \in Seq(Nat), NEW r \in Nat
  PROVE  /\ Append(s, Broken) \in Seq(Nat) /\ Len(Append(s, Broken)) = Len(s) + 1
         /\ Append(s, Broken)[Len(s) + 1] = Broken
         /\ \A i \in 1 .. Len(s) : Append(s, Broken)[i] = s[i]
         /\ s # <<>> =>
              /\ Len(s) \in 1 .. Len(s)
              /\ [s EXCEPT ![Len(s)] = r] \in Seq(Nat) /\ Len([s EXCEPT ![Len(s)] = r]) = Len(s)
              /\ [s EXCEPT ![Len(s)] = r][Len(s)] = r
              /\ \A i \in 1 .. Len(s) : i # Len(s) => [s EXCEPT ![Len(s)] = r][i] = s[i]
<1>1. Broken \in Nat
  BY DEF Broken
<1>2. s # <<>> => Len(s) \in 1 .. Len(s)
  BY EmptySeq, LenProperties
<1>3. s # <<>> =>
        /\ [s EXCEPT ![Len(s)] = r] \in Seq(Nat) /\ Len([s EXCEPT ![Len(s)] = r]) = Len(s)
        /\ [s EXCEPT ![Len(s)] = r][Len(s)] = r
        /\ \A i \in 1 .. Len(s) : i # Len(s) => [s EXCEPT ![Len(s)] = r][i] = s[i]
  BY <1>2, ExceptSeq
<1>4. /\ Append(s, Broken) \in Seq(Nat) /\ Len(Append(s, Broken)) = Len(s) + 1
      /\ Append(s, Broken)[Len(s) + 1] = Broken
      /\ \A i \in 1 .. Len(s) : Append(s, Broken)[i] = s[i]
  BY <1>1, AppendProperties
<1> QED
  BY <1>2, <1>3, <1>4

LEMMA MemoryTyped == ASSUME MemoryTypeOK, LockHeld, MemoryNext PROVE MemoryTypeOK'
<1>1. CASE TruncateLog
  <2>1. lines' \in Seq(Nat)
    BY <1>1 DEF TruncateLog
  <2>2. trouble' \in 0..MaxTrouble /\ file' \in Nat
    BY <1>1, MemoryAssumption DEF TruncateLog, MemoryTypeOK
  <2> QED
    BY <1>1, <2>1, <2>2 DEF TruncateLog, MemoryTypeOK
<1>2. ASSUME NEW w \in Writers,
             \/ AppendAdds(w) \/ Acquire(w) \/ GiveUp(w) \/ OpenLog(w)
             \/ WriteBegins(w) \/ WriteEnds(w) \/ Release(w)
             \/ WriteFails(w) \/ Crash(w) \/ Replay(w)
      PROVE  MemoryTypeOK'
  <2>1. Moved(w)
    BY <1>2, EveryoneMoves
  <2>2. writer[w].record \in Nat /\ (writer[w].at # "idle" => writer[w].record \in 1..appends)
    BY DEF MemoryTypeOK, LockHeld
  <2>3. appends' \in 0..MaxRecords /\ appends \in Nat /\ appends' \in Nat
        /\ 1..appends \subseteq 1..appends'
    BY <1>2, MemoryAssumption DEF MemoryTypeOK, AppendAdds, Acquire, GiveUp, OpenLog, WriteBegins,
       WriteEnds, Release, WriteFails, Crash, Replay, log, ghosts
  <2>4. trouble' \in 0..MaxTrouble /\ file' \in Nat /\ spoiled' \in BOOLEAN /\ lockfile' \in BOOLEAN
    <3>1. CASE WriteFails(w)
      <4>1. trouble' \in 0..MaxTrouble /\ file' \in Nat
        BY <3>1, MemoryAssumption DEF MemoryTypeOK, WriteFails, log
      <4>2. spoiled' \in BOOLEAN /\ lockfile' \in BOOLEAN
        BY <3>1 DEF WriteFails
      <4> QED
        BY <4>1, <4>2
    <3>2. CASE Crash(w)
      BY <3>2, MemoryAssumption DEF MemoryTypeOK, Crash, log, ghosts
    <3>3. CASE ~WriteFails(w) /\ ~Crash(w)
      BY <1>2, <3>3 DEF MemoryTypeOK, AppendAdds, Acquire, GiveUp, OpenLog, WriteBegins, WriteEnds,
         Release, Replay, log, ghosts
    <3> QED
      BY <3>1, <3>2, <3>3
  <2>5. lines' \in Seq(Nat) /\ ragged' \in BOOLEAN
    <3>1. CASE WriteBegins(w)
      BY <3>1, LineTypes DEF WriteBegins, MemoryTypeOK
    <3>2. CASE WriteEnds(w)
      <4>1. DOMAIN lines = 1 .. Len(lines) /\ (lines = <<>> => Len(lines) = 0)
        BY LenProperties, EmptySeq DEF MemoryTypeOK
      <4>2. lines # <<>> => [lines EXCEPT ![Len(lines)] = writer[w].record] \in Seq(Nat)
        BY <2>2, LineTypes DEF MemoryTypeOK
      <4>3. lines = <<>> => [lines EXCEPT ![Len(lines)] = writer[w].record] = lines
        BY <4>1
      <4> QED
        BY <3>2, <4>2, <4>3 DEF WriteEnds, MemoryTypeOK
    <3>3. CASE ~WriteBegins(w) /\ ~WriteEnds(w)
      BY <1>2, <3>3 DEF MemoryTypeOK, AppendAdds, Acquire, GiveUp, OpenLog, Release, WriteFails,
         Crash, Replay, log, ghosts
    <3> QED
      BY <3>1, <3>2, <3>3
  <2>6. memory' \in [Writers -> SUBSET Nat]
    <3>1. Readable \subseteq Nat
      BY LenProperties, ElementOfSeq DEF Readable, MemoryTypeOK
    <3>2. CASE AppendAdds(w)
      BY <2>3, <3>2 DEF MemoryTypeOK, AppendAdds
    <3>3. CASE Replay(w)
      BY <3>1, <3>3 DEF MemoryTypeOK, Replay
    <3>4. CASE Crash(w)
      BY <3>4 DEF MemoryTypeOK, Crash
    <3>5. CASE ~AppendAdds(w) /\ ~Replay(w) /\ ~Crash(w)
      BY <1>2, <3>5 DEF MemoryTypeOK, Acquire, GiveUp, OpenLog, WriteBegins, WriteEnds, Release,
         WriteFails
    <3> QED
      BY <3>2, <3>3, <3>4, <3>5
  <2>7. acked' \subseteq 1..appends'
    BY <1>2, <2>2, <2>3 DEF MemoryTypeOK, AppendAdds, Acquire, GiveUp, OpenLog, WriteBegins,
       WriteEnds, Release, WriteFails, Crash, Replay, log, ghosts
  <2> QED
    BY <2>1, <2>3, <2>4, <2>5, <2>6, <2>7 DEF MemoryTypeOK, Moved, Place
<1> QED
  BY <1>1, <1>2 DEF MemoryNext

\* The lock file keeps the others out, also that of a process that died with it.
LEMMA LockStaysHeld == ASSUME MemoryTypeOK, LockHeld, MemoryNext PROVE LockHeld'
<1>1. CASE TruncateLog
  BY <1>1 DEF TruncateLog, MemoryTypeOK, LockHeld
<1>2. ASSUME NEW w \in Writers,
             \/ AppendAdds(w) \/ Acquire(w) \/ GiveUp(w) \/ OpenLog(w)
             \/ WriteBegins(w) \/ WriteEnds(w) \/ Release(w)
             \/ WriteFails(w) \/ Crash(w) \/ Replay(w)
      PROVE  LockHeld'
  <2>1. Moved(w)
    BY <1>2, EveryoneMoves
  <2>2. file' = file /\ appends \in Nat /\ appends' \in Nat /\ appends <= appends'
    BY <1>2, MemoryAssumption DEF MemoryTypeOK, AppendAdds, Acquire, GiveUp, OpenLog, WriteBegins,
       WriteEnds, Release, WriteFails, Crash, Replay, log, ghosts
  <2>3. lockfile \in BOOLEAN /\ lockfile' \in BOOLEAN
    BY MemoryTyped DEF MemoryTypeOK
  <2> QED
    <3>1. \A v \in Writers : writer'[v].at \in Holding => lockfile'
      BY <2>1, <2>3 DEF Moved, LockHeld
    <3>2. \A u, v \in Writers : writer'[u].at \in Holding /\ writer'[v].at \in Holding => u = v
      BY <2>1, <2>3 DEF Moved, LockHeld
    <3>3. ASSUME NEW v \in Writers, writer'[v].at # "idle" PROVE writer'[v].record \in 1..appends'
      <4>1. CASE v = w
        BY <2>1, <3>3, <4>1 DEF Moved
      <4>2. CASE v # w
        <5>1. writer[v].record \in 1..appends
          BY <2>1, <3>3, <4>2 DEF Moved, LockHeld
        <5> QED
          BY <2>1, <2>2, <4>2, <5>1 DEF Moved
      <4> QED
        BY <4>1, <4>2
    <3>4. \A v \in Writers : writer'[v].file <= file'
      BY <2>1, <2>2 DEF Moved, LockHeld
    <3> QED
      BY <3>1, <3>2, <3>3, <3>4 DEF LockHeld
<1> QED
  BY <1>1, <1>2 DEF MemoryNext

\* The log stays as it is, and the process that moves is neither in a line nor after one.
LEMMA LogUntouched ==
  ASSUME MemoryInv, ~spoiled, UNCHANGED <<log, acked>>, NEW w \in Writers,
         \A v \in Writers \ {w} : writer'[v] = writer[v],
         ragged => lockfile' /\ writer'[w].at \notin Holding,
         writer'[w].at \notin {"writing", "written"}
  PROVE  (OnlyLastTorn /\ WrittenThere)'
<1>1. OnlyLastTorn /\ WrittenThere
  BY DEF MemoryInv
<1>2. OnlyLastTorn'
  BY <1>1 DEF OnlyLastTorn, log
<1>3. WrittenThere'
  BY <1>1 DEF WrittenThere, log
<1> QED
  BY <1>2, <1>3

LEMMA WriteBeginsKeeps ==
  ASSUME MemoryInv, ~spoiled, NEW w \in Writers, WriteBegins(w)
  PROVE  (OnlyLastTorn /\ WrittenThere)'
<1>1. MemoryTypeOK /\ LockHeld /\ OnlyLastTorn /\ WrittenThere
  BY DEF MemoryInv
<1>2. writer[w].at = "open" /\ ~ragged /\ lockfile /\ \A v \in Writers \ {w} : writer[v].at \notin Holding
  BY <1>1 DEF WriteBegins, LockHeld, OnlyLastTorn, Holding
<1>3. /\ writer'[w].at = "writing" /\ writer'[w].clean /\ writer'[w].file = writer[w].file
      /\ \A v \in Writers \ {w} : writer'[v] = writer[v]
      /\ UNCHANGED <<file, lockfile, acked>>
  BY <1>1, <1>2 DEF WriteBegins, MemoryTypeOK, ghosts
<1>4. CASE writer[w].file = file
  <2>1. ragged' /\ lines' = Append(lines, Broken)
    BY <1>2, <1>4 DEF WriteBegins
  <2>2. /\ lines \in Seq(Nat) /\ Len(lines) \in Nat /\ Len(lines') = Len(lines) + 1
        /\ lines' \in Seq(Nat) /\ lines'[Len(lines')] = Broken
        /\ \A i \in 1 .. Len(lines) : lines'[i] = lines[i] /\ i \in 1 .. Len(lines')
    BY <1>1, <2>1, LineTypes, LenProperties DEF MemoryTypeOK, Broken
  <2>3. \A i \in 1 .. Len(lines') : i = Len(lines') \/ i \in 1 .. Len(lines)
    BY <2>2
  <2>4. lines' # <<>>
    BY <2>2, EmptySeq
  <2>5. \A i \in 1 .. Len(lines) : lines[i] # Broken
    BY <1>1, <1>2 DEF OnlyLastTorn
  <2>6. OnlyLastTorn'
    <3>1. \A i \in 1 .. Len(lines') : lines'[i] = Broken => i = Len(lines')
      BY <2>2, <2>3, <2>5
    <3>2. \A v \in Writers : writer'[v].at \in Holding => v = w
      BY <1>2, <1>3
    <3> QED
      BY <1>2, <1>3, <1>4, <2>1, <2>2, <2>4, <3>1, <3>2 DEF OnlyLastTorn, Holding
  <2>7. WrittenThere'
    BY <1>1, <1>2, <1>3, <2>2 DEF WrittenThere, Holding
  <2> QED
    BY <2>6, <2>7
<1>5. CASE writer[w].file # file
  <2>1. lines' = lines /\ ragged' = ragged
    BY <1>5 DEF WriteBegins
  <2>2. OnlyLastTorn'
    BY <1>1, <1>2, <1>3, <1>5, <2>1 DEF OnlyLastTorn
  <2>3. WrittenThere'
    BY <1>1, <1>3, <2>1 DEF WrittenThere
  <2> QED
    BY <2>2, <2>3
<1> QED
  BY <1>4, <1>5

LEMMA WriteEndsKeeps ==
  ASSUME MemoryInv, ~spoiled, NEW w \in Writers, WriteEnds(w)
  PROVE  (OnlyLastTorn /\ WrittenThere)'
<1>1. MemoryTypeOK /\ LockHeld /\ OnlyLastTorn /\ WrittenThere
  BY DEF MemoryInv
<1>2. writer[w].at = "writing" /\ \A v \in Writers \ {w} : writer[v].at \notin Holding
  BY <1>1 DEF WriteEnds, LockHeld, Holding
<1>3. /\ writer'[w].at = "written" /\ writer'[w].record = writer[w].record
      /\ writer'[w].file = writer[w].file
      /\ \A v \in Writers \ {w} : writer'[v] = writer[v]
      /\ UNCHANGED <<file, lockfile, acked>>
  BY <1>1 DEF WriteEnds, Goto, MemoryTypeOK, ghosts
<1>4. CASE writer[w].file = file
  <2>1. ragged /\ writer[w].clean /\ lines # <<>> /\ lines[Len(lines)] = Broken
    BY <1>1, <1>2, <1>4 DEF OnlyLastTorn
  <2>2. ~ragged' /\ lines' = [lines EXCEPT ![Len(lines)] = writer[w].record]
    BY <1>4, <2>1 DEF WriteEnds
  <2>3. writer[w].record \in Nat /\ writer[w].record # Broken
    BY <1>1, <1>2 DEF LockHeld, Broken, MemoryTypeOK
  <2>4. /\ Len(lines) \in 1 .. Len(lines) /\ Len(lines') = Len(lines)
        /\ lines'[Len(lines)] = writer[w].record
        /\ \A i \in 1 .. Len(lines) : i # Len(lines) => lines'[i] = lines[i]
    BY <1>1, <2>1, <2>2, <2>3, LineTypes DEF MemoryTypeOK
  <2>5. OnlyLastTorn'
    <3>1. \A i \in 1 .. Len(lines') : lines'[i] # Broken
      BY <1>1, <2>3, <2>4 DEF OnlyLastTorn
    <3> QED
      BY <1>2, <1>3, <2>2, <3>1 DEF OnlyLastTorn, Holding
  <2>6. WrittenThere'
    <3>1. ASSUME NEW r \in acked PROVE \E i \in 1 .. Len(lines') : lines'[i] = r
      <4>1. PICK i \in 1 .. Len(lines) : lines[i] = r
        BY <1>1 DEF WrittenThere
      <4>2. r # Broken
        BY <1>1 DEF MemoryTypeOK, Broken
      <4> QED
        BY <2>1, <2>4, <4>1, <4>2
    <3>2. ASSUME NEW v \in Writers, writer'[v].at = "written"
          PROVE  \E i \in 1 .. Len(lines') : lines'[i] = writer'[v].record
      <4>1. v = w
        BY <1>2, <1>3, <3>2 DEF Holding
      <4> QED
        BY <1>3, <2>4, <4>1
    <3> QED
      BY <1>3, <3>1, <3>2 DEF WrittenThere
  <2> QED
    BY <2>5, <2>6
<1>5. CASE writer[w].file # file
  <2>1. lines' = lines /\ ragged' = ragged
    BY <1>5 DEF WriteEnds
  <2>2. ~ragged
    BY <1>1, <1>2, <1>5 DEF OnlyLastTorn, Holding
  <2>3. OnlyLastTorn'
    BY <1>1, <1>2, <1>3, <1>5, <2>1, <2>2 DEF OnlyLastTorn
  <2>4. WrittenThere'
    BY <1>1, <1>3, <1>5, <2>1 DEF WrittenThere
  <2> QED
    BY <2>3, <2>4
<1> QED
  BY <1>4, <1>5

\* A release adds to the acknowledged records one that is a line.
LEMMA ReleaseKeeps ==
  ASSUME MemoryInv, ~spoiled, NEW w \in Writers, Release(w)
  PROVE  (OnlyLastTorn /\ WrittenThere)'
<1>1. MemoryTypeOK /\ LockHeld /\ OnlyLastTorn /\ WrittenThere
  BY DEF MemoryInv
<1>2. /\ writer[w].at = "written" /\ writer'[w].at = "idle"
      /\ \A v \in Writers \ {w} : writer'[v] = writer[v]
      /\ UNCHANGED log
  BY <1>1 DEF Release, MemoryTypeOK, Idle
<1>3. ~ragged
  BY <1>1, <1>2 DEF OnlyLastTorn, Holding
<1>4. OnlyLastTorn'
  BY <1>1, <1>2, <1>3 DEF OnlyLastTorn, log
<1>5. WrittenThere'
  BY <1>1, <1>2 DEF WrittenThere, log, Release
<1> QED
  BY <1>4, <1>5

LEMMA LinesStay ==
  ASSUME MemoryInv, MemoryNext
  PROVE  (spoiled \/ (OnlyLastTorn /\ WrittenThere))'
<1>1. MemoryTypeOK /\ LockHeld
  BY DEF MemoryInv
<1>2. CASE TruncateLog
  <2>1. Len(lines') = 0 /\ 1 .. Len(lines') = {} /\ acked' = {} /\ ~ragged'
    BY <1>2, EmptySeq DEF TruncateLog
  <2>2. \A w \in Writers : writer'[w].file # file'
    BY <1>1, <1>2 DEF TruncateLog, LockHeld, MemoryTypeOK
  <2> QED
    BY <2>1, <2>2 DEF OnlyLastTorn, WrittenThere
<1> SUFFICES ASSUME ~spoiled', ~TruncateLog, NEW w \in Writers,
                    \/ AppendAdds(w) \/ Acquire(w) \/ GiveUp(w) \/ OpenLog(w)
                    \/ WriteBegins(w) \/ WriteEnds(w) \/ Release(w)
                    \/ WriteFails(w) \/ Crash(w) \/ Replay(w)
             PROVE  (OnlyLastTorn /\ WrittenThere)'
  BY <1>2 DEF MemoryNext
<1>3. ~spoiled /\ OnlyLastTorn /\ WrittenThere
  <2>1. ~spoiled
    BY DEF ghosts, AppendAdds, Acquire, GiveUp, OpenLog, WriteBegins, WriteEnds, Release,
       WriteFails, Crash, Replay
  <2> QED
    BY <2>1 DEF MemoryInv
<1>4. CASE WriteBegins(w)
  BY <1>3, <1>4, WriteBeginsKeeps
<1>5. CASE WriteEnds(w)
  BY <1>3, <1>5, WriteEndsKeeps
<1>6. CASE Release(w)
  BY <1>3, <1>6, ReleaseKeeps
<1>7. CASE Replay(w)
  BY <1>3, <1>7 DEF Replay, log, ghosts, OnlyLastTorn, WrittenThere
<1>8. CASE ~(WriteBegins(w) \/ WriteEnds(w) \/ Release(w) \/ Replay(w))
  <2>1. \A v \in Writers \ {w} : writer'[v] = writer[v]
    BY <1>1, EveryoneMoves DEF Moved
  <2>2. UNCHANGED <<log, acked>>
    BY <1>8 DEF AppendAdds, Acquire, GiveUp, OpenLog, WriteFails, Crash, ghosts
  <2>3. /\ AppendAdds(w) => writer'[w].at = "waiting"
        /\ Acquire(w) => writer'[w].at = "locked"
        /\ OpenLog(w) => writer'[w].at = "open"
        /\ GiveUp(w) \/ WriteFails(w) \/ Crash(w) => writer'[w].at = "idle"
    <3>1. writer \in [Writers -> Place] /\ writer[w] \in Place
      BY <1>1 DEF MemoryTypeOK, Place
    <3>2. AppendAdds(w) => writer'[w].at = "waiting"
      BY <3>1 DEF AppendAdds, Idle
    <3>3. Acquire(w) => writer'[w].at = "locked"
      BY <1>1, PlaceAt DEF Acquire, Holding
    <3>4. OpenLog(w) => writer'[w].at = "open"
      BY <3>1 DEF OpenLog, Place
    <3>5. GiveUp(w) \/ WriteFails(w) \/ Crash(w) => writer'[w].at = "idle"
      BY <3>1 DEF GiveUp, WriteFails, Crash, Idle
    <3> QED
      BY <3>2, <3>3, <3>4, <3>5
  <2>4. ragged => lockfile' /\ writer'[w].at \notin Holding
    <3> SUFFICES ASSUME ragged PROVE lockfile' /\ writer'[w].at \notin Holding
      OBVIOUS
    <3>1. lockfile /\ writer[w].at \notin {"locked", "open"}
          /\ (writer[w].at = "writing" => writer[w].file = file)
      BY <1>3 DEF OnlyLastTorn, Holding
    <3>2. ~Acquire(w) /\ ~OpenLog(w)
      BY <3>1 DEF Acquire, OpenLog
    <3>3. ~WriteFails(w)
      BY <3>1 DEF WriteFails
    <3>4. AppendAdds(w) \/ GiveUp(w) \/ Crash(w)
      BY <1>8, <3>2, <3>3
    <3>5. lockfile'
      BY <3>1, <3>4 DEF AppendAdds, GiveUp, Crash
    <3>6. writer'[w].at \notin Holding
      BY <2>3, <3>4 DEF Holding
    <3> QED
      BY <3>5, <3>6
  <2>5. writer'[w].at \notin {"writing", "written"}
    BY <1>8, <2>3
  <2> QED
    BY <1>3, <2>1, <2>2, <2>4, <2>5, LogUntouched
<1> QED
  BY <1>4, <1>5, <1>6, <1>7, <1>8

LEMMA MemoryStep == MemoryInv /\ [MemoryNext]_memoryVars => MemoryInv'
<1>1. ASSUME MemoryInv, MemoryNext PROVE MemoryInv'
  BY <1>1, MemoryTyped, LockStaysHeld, LinesStay DEF MemoryInv
<1>2. ASSUME MemoryInv, UNCHANGED memoryVars PROVE MemoryInv'
  BY <1>2 DEF MemoryInv, MemoryTypeOK, LockHeld, OnlyLastTorn, WrittenThere, memoryVars, log, ghosts
<1> QED
  BY <1>1, <1>2

LEMMA Squeezed ==
  ASSUME NEW k \in Nat, NEW i \in Nat, NEW n, k <= i, i <= n, k = n
  PROVE  i = k
OBVIOUS

\* The lines before the one that is torn are all read.
LEMMA WholeLinesAreRead == MemoryInv => AckedReplays
<1> SUFFICES ASSUME MemoryInv, ~spoiled, NEW r \in acked PROVE r \in Readable
  BY DEF AckedReplays
<1>1. MemoryTypeOK /\ OnlyLastTorn /\ WrittenThere
  BY DEF MemoryInv
<1>2. DOMAIN lines = 1 .. Len(lines) /\ Len(lines) \in Nat
  BY <1>1, LenProperties DEF MemoryTypeOK
<1>3. PICK i \in 1 .. Len(lines) : lines[i] = r
  BY <1>1 DEF WrittenThere
<1>4. r # Broken
  BY <1>1 DEF MemoryTypeOK, Broken
<1>5. \A k \in 1 .. i : lines[k] # Broken
  <2> SUFFICES ASSUME NEW k \in 1 .. i, lines[k] = Broken PROVE FALSE
    OBVIOUS
  <2>1. k \in 1 .. Len(lines) /\ k \in Nat /\ i \in Nat /\ k <= i /\ i <= Len(lines)
    BY <1>2
  <2>2. k = Len(lines)
    BY <1>1, <2>1 DEF OnlyLastTorn
  <2>3. i = k
    BY <2>1, <2>2, Squeezed
  <2> QED
    BY <1>3, <1>4, <2>3
<1> QED
  BY <1>2, <1>3, <1>5 DEF Readable

\* Every record whose append() returned is read by a replay() of the same log, whatever
\* processes die, unless a write fails half-way (append and replay in memory/persistence.py).
THEOREM AcknowledgedReplays == MemorySpec => []AckedReplays
BY MemoryStarts, MemoryStep, WholeLinesAreRead, PTL DEF MemorySpec

-----------------------------------------------------------------------------
(* WorkflowOrchestrator                                                    *)

\* The stages are registered once, and the graph was read when there were no more.
GraphInv ==
  /\ names \in Seq(Known) /\ Once(names) /\ config \in [Known -> Configs]
  /\ listed \in Seq(Known) /\ Once(listed) /\ Len(listed) <= Len(names)
  /\ needs \in [Known -> SUBSET Known]
  /\ \A s \in Known \ Members(listed) : needs[s] = {}
  /\ phase = "build" => listed = <<>> /\ queue = <<>> /\ order = <<>>

\* Kahn's algorithm: the degree of a stage counts what it needs and is not in the order
\* yet, and the stages without are those in the order or in the queue.
KahnInv ==
  /\ queue \in Seq(Known) /\ Once(queue)
  /\ order \in Seq(Known) /\ Once(order)
  /\ Members(order) \cap Members(queue) = {}
  /\ Members(order) \cup Members(queue) \subseteq Members(listed)
  /\ degree \in [Known -> Nat]
  /\ \A s \in Known : degree[s] = Cardinality(needs[s] \ Members(order))
  /\ \A s \in Members(listed) : degree[s] = 0 <=> s \in Members(order) \cup Members(queue)
  /\ \A i \in 1 .. Len(order) : needs[order[i]] \subseteq {order[j] : j \in 1 .. (i - 1)}

\* How the sort ends.
SortInv ==
  /\ phase \in {"stage", "function"} => Members(order) = Members(listed)
  /\ phase = "raised" /\ errors = {}
       => queue = <<>> /\ (names = listed => Len(order) # Len(listed))

\* With no stage registered meanwhile, a run that fails stands at a stage with an error.
StandsAtError ==
  Len(order) = Len(names) /\ registers = 0 => position <= Len(order) /\ Stage \in errors

\* The results are those of the stages before the current one.
RunInv ==
  /\ position \in 1 .. Len(order) + 1 /\ registers \in Nat
  /\ phase \in {"build", "sort", "stage", "function", "raised", "done"}
  /\ phase \in {"build", "sort"} => position = 1
  /\ phase = "function" => position <= Len(order)
  /\ DOMAIN results = {order[i] : i \in 1 .. position - 1}
  /\ \A s \in DOMAIN results :
       IF results[s] = "ok" THEN s \in DOMAIN checkpoints \ errors ELSE s \in errors
  /\ phase \notin {"raised", "done"} => errors \subseteq DOMAIN results
  /\ status = "completed" => phase = "done" /\ position = Len(order) + 1
  /\ status = "failed" => phase \in {"raised", "done"} /\ StandsAtError
  /\ phase = "raised" => StandsAtError

WorkflowInv == GraphInv /\ KahnInv /\ SortInv /\ RunInv

LEMMA SetIsMembers ==
  ASSUME NEW s \in Seq(Known)
  PROVE  Set(s) = Members(s)
  BY MembersTyped DEF Set

\* What depends on nothing that changes is kept.
LEMMA GraphStays ==
  ASSUME WorkflowInv, UNCHANGED graphVars, UNCHANGED kahnVars, UNCHANGED <<names, config>>,
         phase' = "build" => phase = "build"
  PROVE  GraphInv' /\ KahnInv'
<1>1. UNCHANGED <<names, config, listed, needs, degree, queue, order>>
  BY DEF graphVars, kahnVars
<1>2. GraphInv'
  BY <1>1 DEF WorkflowInv, GraphInv
<1>3. KahnInv'
  <2>1. KahnInv
    BY DEF WorkflowInv
  <2>2. \A i \in 1 .. Len(order') : needs'[order'[i]] \subseteq {order'[j] : j \in 1 .. (i - 1)}
    BY <1>1, <2>1 DEF KahnInv
  <2>3. \A s \in Known : degree'[s] = Cardinality(needs'[s] \ Members(order'))
    BY <1>1, <2>1 DEF KahnInv
  <2> QED
    BY <1>1, <2>1, <2>2, <2>3 DEF KahnInv
<1> QED
  BY <1>2, <1>3

LEMMA WorkflowStarts == WorkflowInit => WorkflowInv
<1> SUFFICES ASSUME WorkflowInit PROVE WorkflowInv
  OBVIOUS
<1>1. /\ names = Defaults /\ config \in [Known -> Configs]
      /\ listed = <<>> /\ needs = [s \in Known |-> {}]
      /\ degree = [s \in Known |-> 0] /\ queue = <<>> /\ order = <<>>
      /\ position = 1 /\ results = <<>> /\ errors = {}
      /\ status = "running" /\ phase = "build" /\ registers = 0
  BY DEF WorkflowInit
<1>2. <<>> \in Seq(Known) /\ Len(<<>>) = 0 /\ Members(<<>>) = {} /\ Once(<<>>) /\ 1 .. 0 = {}
  BY EmptySeq, NoMembers
<1>3. names \in Seq(Known) /\ Once(names) /\ Len(names) \in Nat
  <2>1. Defaults \in Seq(Known) /\ IsInjective(Defaults)
    BY WorkflowAssumption
  <2>2. DOMAIN Defaults = 1 .. Len(Defaults) /\ Len(Defaults) \in Nat
    BY <2>1, LenProperties
  <2> QED
    BY <1>1, <2>1, <2>2 DEF Once, IsInjective
<1>4. GraphInv
  BY <1>1, <1>2, <1>3 DEF GraphInv
<1>5. KahnInv
  <2>1. \A s \in Known : needs[s] \ Members(order) = {} /\ degree[s] = 0
    BY <1>1
  <2>2. Cardinality({}) = 0
    BY FS_EmptySet
  <2>3. \A s \in Known : degree[s] = Cardinality(needs[s] \ Members(order))
    BY <2>1, <2>2
  <2>4. degree \in [Known -> Nat]
    BY <1>1
  <2>5. 1 .. Len(order) = {} /\ Members(order) = {} /\ Members(queue) = {} /\ Members(listed) = {}
    BY <1>1, <1>2
  <2> QED
    BY <1>1, <1>2, <2>3, <2>4, <2>5 DEF KahnInv
<1>6. SortInv
  BY <1>1 DEF SortInv
<1>7. RunInv
  <2>1. DOMAIN results = {} /\ 1 .. position - 1 = {} /\ position \in 1 .. Len(order) + 1
    BY <1>1, <1>2
  <2> QED
    BY <1>1, <2>1 DEF RunInv
<1> QED
  BY <1>4, <1>5, <1>6, <1>7 DEF WorkflowInv

LEMMA BuildGraphKeeps == WorkflowInv /\ BuildGraph => WorkflowInv'
<1> SUFFICES ASSUME WorkflowInv, BuildGraph PROVE WorkflowInv'
  OBVIOUS
<1> DEFINE free == {s \in Known : Degrees[s] = 0}
<1>1. /\ phase = "build" /\ phase' = "sort" /\ listed' = names
      /\ needs' = [s \in Known |-> IF s \in Set(names) THEN config[s].deps ELSE {}]
      /\ degree' = Degrees /\ queue' = Filtered(names, free)
      /\ UNCHANGED <<names, config, registers, order, position, running, results, errors,
                     checkpoints, status, control>>
  BY DEF BuildGraph, stagesVars, stageVars
<1>2. /\ names \in Seq(Known) /\ Once(names) /\ config \in [Known -> Configs]
      /\ order = <<>> /\ Len(names) \in Nat /\ Set(names) = Members(names)
      /\ Members(order) = {} /\ Once(order) /\ order \in Seq(Known) /\ Len(order) = 0
  <2>1. names \in Seq(Known) /\ Once(names) /\ config \in [Known -> Configs] /\ order = <<>>
    BY <1>1 DEF WorkflowInv, GraphInv
  <2> QED
    BY <2>1, SetIsMembers, LenProperties, NoMembers, EmptySeq
<1>3. ASSUME NEW s \in Known
      PROVE  /\ needs'[s] = (IF s \in Members(names) THEN config[s].deps ELSE {})
             /\ needs'[s] \in SUBSET Known
             /\ degree'[s] = Cardinality(needs'[s]) /\ degree'[s] \in Nat
  <2>1. needs'[s] = IF s \in Members(names) THEN config[s].deps ELSE {}
    BY <1>1, <1>2
  <2>2. config[s].deps \in SUBSET Known
    BY <1>2 DEF Configs
  <2>3. degree'[s] = IF s \in Members(names) THEN Cardinality(config[s].deps) ELSE 0
    BY <1>1, <1>2 DEF Degrees
  <2>4. IsFiniteSet(Known)
    BY WorkflowAssumption
  <2>5. needs'[s] \in SUBSET Known
    BY <2>1, <2>2
  <2>6. IsFiniteSet(needs'[s])
    BY <2>4, <2>5, FS_Subset
  <2>7. Cardinality(needs'[s]) \in Nat /\ Cardinality({}) = 0
    BY <2>6, FS_CardinalityType, FS_EmptySet
  <2> QED
    BY <2>1, <2>3, <2>5, <2>7
<1>4. DOMAIN degree' = Known /\ degree' = [s \in Known |-> degree'[s]]
  BY <1>1 DEF Degrees
<1>5. GraphInv'
  <2>1. needs' \in [Known -> SUBSET Known]
    BY <1>1, <1>3
  <2> QED
    BY <1>1, <1>2, <1>3, <2>1 DEF GraphInv
<1>6. /\ queue' \in Seq(Known) /\ Once(queue')
      /\ \A s \in Members(names) : s \in Members(queue') <=> degree'[s] = 0
      /\ Members(queue') \subseteq Members(names)
  <2>1. \A s \in Known : s \in free <=> degree'[s] = 0
    BY <1>1
  <2> HIDE DEF free
  <2>2. /\ Filtered(names, free) \in Seq(Known) /\ Once(Filtered(names, free))
        /\ Members(Filtered(names, free)) = Members(names) \cap free
    BY <1>2, KeptMembers
  <2>3. Members(names) \subseteq Known
    BY <1>2, MembersTyped
  <2> QED
    BY <1>1, <2>1, <2>2, <2>3
<1>7. KahnInv'
  <2>1. order' = <<>> /\ Members(order') = {} /\ Once(order') /\ order' \in Seq(Known) /\ 1 .. Len(order') = {}
    BY <1>1, <1>2
  <2>2. \A s \in Known : degree'[s] = Cardinality(needs'[s] \ Members(order'))
    <3>1. \A s \in Known : needs'[s] \ Members(order') = needs'[s]
      BY <2>1
    <3> QED
      BY <1>3, <3>1
  <2>3. degree' \in [Known -> Nat]
    BY <1>3, <1>4
  <2>4. /\ Members(order') \cap Members(queue') = {}
        /\ Members(order') \cup Members(queue') \subseteq Members(listed')
        /\ \A s \in Members(listed') : degree'[s] = 0 <=> s \in Members(order') \cup Members(queue')
    BY <1>1, <1>6, <2>1
  <2> QED
    BY <1>6, <2>1, <2>2, <2>3, <2>4 DEF KahnInv
<1>8. SortInv'
  BY <1>1 DEF SortInv
<1>9. RunInv'
  BY <1>1 DEF WorkflowInv, RunInv
<1> QED
  BY <1>5, <1>7, <1>8, <1>9 DEF WorkflowInv

\* One stage less is missing for those that need it.
LEMMA OneLessMissing ==
  ASSUME NEW N \in SUBSET Known, NEW O, NEW s, s \notin O
  PROVE  /\ Cardinality(N \ O) \in Nat /\ Cardinality(N \ (O \cup {s})) \in Nat
         /\ s \in N => Cardinality(N \ O) # 0
         /\ Cardinality(N \ (O \cup {s})) =
              IF s \in N THEN Cardinality(N \ O) - 1 ELSE Cardinality(N \ O)
         /\ Cardinality(N \ O) = 0 => N \subseteq O
<1>1. IsFiniteSet(N \ O)
  BY WorkflowAssumption, FS_Subset
<1>2. N \ (O \cup {s}) = (N \ O) \ {s} /\ (s \in N <=> s \in N \ O)
  OBVIOUS
<1>3. /\ IsFiniteSet((N \ O) \ {s})
      /\ Cardinality((N \ O) \ {s}) =
           IF s \in N \ O THEN Cardinality(N \ O) - 1 ELSE Cardinality(N \ O)
  BY <1>1, FS_RemoveElement
<1>4. Cardinality(N \ O) \in Nat /\ Cardinality((N \ O) \ {s}) \in Nat
  BY <1>1, <1>3, FS_CardinalityType
<1>5. Cardinality(N \ O) = 0 <=> N \ O = {}
  BY <1>1, FS_EmptySet
<1> QED
  BY <1>2, <1>3, <1>4, <1>5

LEMMA PopStageKeeps == WorkflowInv /\ PopStage => WorkflowInv'
<1> SUFFICES ASSUME WorkflowInv, PopStage PROVE WorkflowInv'
  OBVIOUS
<1> DEFINE s == Head(queue)
           O == Members(order)
           freed == {n \in Known : s \in needs[n] /\ degree[n] = 1}
<1>1. /\ phase = "sort" /\ queue # <<>>
      /\ order' = Append(order, s)
      /\ degree' = [n \in Known |-> IF s \in needs[n] THEN degree[n] - 1 ELSE degree[n]]
      /\ queue' = Tail(queue) \o Filtered(listed, freed)
      /\ UNCHANGED <<names, config, registers, listed, needs, position, running, results, errors,
                     checkpoints, status, phase, control>>
  BY DEF PopStage, Freed, stagesVars, graphVars, stageVars
<1>2. GraphInv /\ KahnInv /\ RunInv
  BY DEF WorkflowInv
<1>3. /\ s \in Members(queue) /\ Tail(queue) \in Seq(Known)
      /\ Members(queue) = Members(Tail(queue)) \cup {s}
      /\ Once(Tail(queue)) /\ s \notin Members(Tail(queue))
  BY <1>1, <1>2, TailMembers DEF KahnInv
<1>4. /\ s \in Members(listed) /\ s \in Known /\ s \notin O /\ degree[s] = 0
      /\ Members(listed) \subseteq Known
  <2>1. Members(listed) \subseteq Known
    BY <1>2, MembersTyped DEF GraphInv
  <2> QED
    BY <1>2, <1>3, <2>1 DEF KahnInv
<1> HIDE DEF s
<1>5. /\ order' \in Seq(Known) /\ Len(order') = Len(order) + 1 /\ Len(order) \in Nat
      /\ \A i \in 1 .. Len(order) : order'[i] = order[i]
      /\ order'[Len(order) + 1] = s
      /\ Members(order') = O \cup {s} /\ Once(order')
  BY <1>1, <1>2, <1>4, AppendedMembers, LenProperties DEF KahnInv
<1> HIDE DEF O
<1>6. ASSUME NEW n \in Known
      PROVE  /\ degree'[n] = Cardinality(needs[n] \ (O \cup {s})) /\ degree'[n] \in Nat
             /\ degree'[n] = 0 <=> degree[n] = 0 \/ (s \in needs[n] /\ degree[n] = 1)
             /\ degree[n] = 0 => needs[n] \subseteq O
  <2>1. needs[n] \in SUBSET Known /\ degree[n] = Cardinality(needs[n] \ O)
    BY <1>2 DEF GraphInv, KahnInv, O
  <2>2. degree'[n] = IF s \in needs[n] THEN degree[n] - 1 ELSE degree[n]
    BY <1>1
  <2>3. /\ Cardinality(needs[n] \ O) \in Nat /\ Cardinality(needs[n] \ (O \cup {s})) \in Nat
        /\ s \in needs[n] => Cardinality(needs[n] \ O) # 0
        /\ Cardinality(needs[n] \ (O \cup {s})) =
             IF s \in needs[n] THEN Cardinality(needs[n] \ O) - 1 ELSE Cardinality(needs[n] \ O)
        /\ Cardinality(needs[n] \ O) = 0 => needs[n] \subseteq O
    BY <1>4, <2>1, OneLessMissing
  <2> QED
    BY <2>1, <2>2, <2>3
<1>7. /\ Filtered(listed, freed) \in Seq(Known) /\ Once(Filtered(listed, freed))
      /\ Members(Filtered(listed, freed)) = Members(listed) \cap freed
  <2> HIDE DEF freed
  <2> QED
    BY <1>2, KeptMembers DEF GraphInv
<1>8. /\ queue' \in Seq(Known) /\ Once(queue')
      /\ Members(queue') = Members(Tail(queue)) \cup (Members(listed) \cap freed)
  <2>1. Members(Tail(queue)) \cap (Members(listed) \cap freed) = {}
    <3>1. \A n \in Members(Tail(queue)) : degree[n] = 0
      BY <1>2, <1>3 DEF KahnInv
    <3> QED
      BY <3>1
  <2> DEFINE rest == Tail(queue)
             more == Filtered(listed, freed)
  <2>2. /\ rest \in Seq(Known) /\ Once(rest) /\ more \in Seq(Known) /\ Once(more)
        /\ Members(more) = Members(listed) \cap freed
        /\ queue' = rest \o more
    BY <1>1, <1>3, <1>7
  <2>3. Members(rest) \cap Members(more) = {}
    BY <2>1, <2>2
  <2> HIDE DEF freed, rest, more
  <2>4. rest \o more \in Seq(Known) /\ Members(rest \o more) = Members(rest) \cup Members(more)
    BY <2>2, JoinedMembers
  <2>5. Once(rest \o more)
    BY <2>2, <2>3, JoinedMembers
  <2> QED
    BY <2>2, <2>4, <2>5 DEF rest
<1>9. GraphInv'
  BY <1>1, <1>2 DEF GraphInv
<1>10. /\ Members(order') \cap Members(queue') = {}
       /\ Members(order') \cup Members(queue') \subseteq Members(listed')
  <2>1. \A n \in O : degree[n] = 0
    BY <1>2 DEF KahnInv, O
  <2>2. O \cap Members(queue) = {} /\ O \cup Members(queue) \subseteq Members(listed)
    BY <1>2 DEF KahnInv, O
  <2>3. s \notin freed /\ O \cap freed = {}
    BY <1>4, <2>1
  <2> HIDE DEF freed
  <2> QED
    BY <1>1, <1>3, <1>4, <1>5, <1>8, <2>2, <2>3
<1>11. ASSUME NEW n \in Members(listed)
       PROVE  degree'[n] = 0 <=> n \in Members(order') \cup Members(queue')
  <2>1. n \in Known /\ (degree[n] = 0 <=> n \in O \cup Members(queue))
    BY <1>2, <1>4 DEF KahnInv, O
  <2>2. n \in freed <=> s \in needs[n] /\ degree[n] = 1
    BY <2>1
  <2>3. degree'[n] = 0 <=> n \in O \cup Members(queue) \/ n \in freed
    BY <1>6, <2>1, <2>2
  <2> HIDE DEF freed
  <2>4. Members(order') \cup Members(queue') = O \cup Members(queue) \cup (Members(listed) \cap freed)
    BY <1>3, <1>5, <1>8
  <2> QED
    BY <2>3, <2>4
<1>12. ASSUME NEW i \in 1 .. Len(order')
       PROVE  needs'[order'[i]] \subseteq {order'[j] : j \in 1 .. (i - 1)}
  <2>1. CASE i \in 1 .. Len(order)
    <3>1. \A j \in 1 .. (i - 1) : order'[j] = order[j]
      BY <1>5, <2>1
    <3>2. needs[order[i]] \subseteq {order[j] : j \in 1 .. (i - 1)}
      BY <1>2, <2>1 DEF KahnInv
    <3> QED
      BY <1>1, <1>5, <2>1, <3>1, <3>2
  <2>2. CASE i = Len(order) + 1
    <3>0. needs[s] \subseteq O
      BY <1>4, <1>6
    <3>1. order'[i] = s /\ needs[s] \subseteq O /\ i - 1 = Len(order)
      BY <1>5, <2>2, <3>0
    <3>2. O = {order[j] : j \in 1 .. Len(order)}
      BY DEF O, Members
    <3>3. \A j \in 1 .. Len(order) : order'[j] = order[j]
      BY <1>5
    <3> QED
      BY <1>1, <3>1, <3>2, <3>3
  <2> QED
    BY <1>5, <2>1, <2>2
<1>13. KahnInv'
  <2>1. degree' \in [Known -> Nat]
    BY <1>1, <1>6
  <2>2. \A n \in Known : degree'[n] = Cardinality(needs'[n] \ Members(order'))
    BY <1>1, <1>5, <1>6
  <2>3. \A n \in Members(listed') : degree'[n] = 0 <=> n \in Members(order') \cup Members(queue')
    BY <1>1, <1>11
  <2> QED
    BY <1>5, <1>8, <1>10, <1>12, <2>1, <2>2, <2>3 DEF KahnInv
<1>14. SortInv'
  BY <1>1 DEF SortInv
<1>15. RunInv'
  <2>1. /\ position' = 1 /\ position' \in 1 .. Len(order') + 1
        /\ 1 .. position' - 1 = {} /\ DOMAIN results' = {}
    <3>1. position = 1 /\ 1 .. position - 1 = {}
      BY <1>1, <1>2 DEF RunInv
    <3>2. DOMAIN results = {}
      BY <1>2, <3>1 DEF RunInv
    <3> QED
      BY <1>1, <1>5, <3>1, <3>2
  <2> QED
    BY <1>1, <1>2, <2>1 DEF RunInv
<1> QED
  BY <1>9, <1>13, <1>14, <1>15 DEF WorkflowInv

LEMMA OrderFoundKeeps == WorkflowInv /\ OrderFound => WorkflowInv'
<1> SUFFICES ASSUME WorkflowInv, OrderFound PROVE WorkflowInv'
  OBVIOUS
<1>1. /\ phase = "sort" /\ Len(order) = Len(names) /\ phase' = "stage"
      /\ UNCHANGED graphVars /\ UNCHANGED kahnVars
      /\ UNCHANGED <<names, config, registers, position, running, results, errors, checkpoints,
                     status, control>>
  BY DEF OrderFound, stagesVars, stageVars
<1>2. GraphInv' /\ KahnInv'
  BY <1>1, GraphStays
<1>3. Members(order) = Members(listed)
  <2>1. /\ order \in Seq(Known) /\ Once(order) /\ Members(order) \subseteq Members(listed)
        /\ listed \in Seq(Known) /\ Once(listed) /\ Len(listed) <= Len(order)
        /\ Len(order) \in Nat /\ Len(listed) \in Nat
    BY <1>1, LenProperties DEF WorkflowInv, GraphInv, KahnInv
  <2>2. /\ IsFiniteSet(Members(listed)) /\ Cardinality(Members(listed)) = Len(listed)
        /\ Cardinality(Members(order)) = Len(order)
    BY <2>1, MembersCounted
  <2>3. /\ Cardinality(Members(order)) <= Cardinality(Members(listed))
        /\ Cardinality(Members(listed)) = Cardinality(Members(order))
             => Members(listed) = Members(order)
    BY <2>1, <2>2, FS_Subset
  <2> QED
    BY <2>1, <2>2, <2>3
<1>4. SortInv'
  BY <1>1, <1>3 DEF SortInv, kahnVars, graphVars
<1>5. RunInv'
  BY <1>1 DEF WorkflowInv, RunInv, kahnVars
<1> QED
  BY <1>2, <1>4, <1>5 DEF WorkflowInv

LEMMA CircleFoundKeeps == WorkflowInv /\ CircleFound => WorkflowInv'
<1> SUFFICES ASSUME WorkflowInv, CircleFound PROVE WorkflowInv'
  OBVIOUS
<1>1. /\ phase = "sort" /\ queue = <<>> /\ Len(order) # Len(names) /\ phase' = "raised"
      /\ UNCHANGED graphVars /\ UNCHANGED kahnVars
      /\ UNCHANGED <<names, config, registers, position, running, results, errors, checkpoints,
                     status, control>>
  BY DEF CircleFound, stagesVars, stageVars
<1>2. GraphInv' /\ KahnInv'
  BY <1>1, GraphStays
<1>3. UNCHANGED <<listed, queue, order>>
  BY <1>1 DEF graphVars, kahnVars
<1>4. SortInv'
  BY <1>1, <1>3 DEF SortInv
<1>5. StandsAtError'
  BY <1>1, <1>3 DEF StandsAtError
<1>6. RunInv'
  BY <1>1, <1>3, <1>5 DEF WorkflowInv, RunInv
<1> QED
  BY <1>2, <1>4, <1>6 DEF WorkflowInv

\* The stage that is executed has no result yet.
LEMMA StageIsNew ==
  ASSUME WorkflowInv, position <= Len(order)
  PROVE  /\ position \in 1 .. Len(order) /\ position + 1 \in 1 .. Len(order) + 1
         /\ position + 1 - 1 = position
         /\ Stage \notin DOMAIN results
         /\ DOMAIN results \cup {Stage} = {order[i] : i \in 1 .. position}
<1>1. /\ position \in 1 .. Len(order) + 1 /\ order \in Seq(Known) /\ Once(order)
      /\ DOMAIN results = {order[i] : i \in 1 .. position - 1}
  BY DEF WorkflowInv, KahnInv, RunInv
<1>2. Len(order) \in Nat
  BY <1>1, LenProperties
<1>3. /\ position \in 1 .. Len(order) /\ position + 1 \in 1 .. Len(order) + 1
      /\ position + 1 - 1 = position
      /\ \A i \in 1 .. position - 1 : i \in 1 .. Len(order) /\ i # position
      /\ \A i \in 1 .. position : i \in 1 .. position - 1 \/ i = position
      /\ \A i \in 1 .. position - 1 : i \in 1 .. position
  BY <1>1, <1>2
<1>4. Stage \notin DOMAIN results
  BY <1>1, <1>3 DEF Once, Stage
<1>5. DOMAIN results \cup {Stage} = {order[i] : i \in 1 .. position}
  <2>1. \A x : x \in DOMAIN results <=> \E i \in 1 .. position - 1 : x = order[i]
    BY <1>1
  <2>2. \A x : x \in {order[i] : i \in 1 .. position} <=> \E i \in 1 .. position : x = order[i]
    OBVIOUS
  <2>3. position \in 1 .. position
    BY <1>3
  <2> QED
    BY <1>3, <2>1, <2>2, <2>3 DEF Stage
<1> QED
  BY <1>3, <1>4, <1>5

\* A result for the current stage: its name joins the domain, and the others stay.
LEMMA OneResultMore ==
  ASSUME NEW f, NEW k, NEW v
  PROVE  /\ DOMAIN With(f, k, v) = DOMAIN f \cup {k}
         /\ With(f, k, v)[k] = v
         /\ \A j \in DOMAIN f : j # k => With(f, k, v)[j] = f[j]
  BY DEF With

LEMMA FailingKeeps ==
  ASSUME WorkflowInv, phase \in {"stage", "function"}, position <= Len(order),
         NEW c, Failing(c),
         UNCHANGED <<names, registers, listed, needs, degree, queue, order>>
  PROVE  SortInv' /\ RunInv'
<1>1. /\ position \in 1 .. Len(order) /\ position + 1 \in 1 .. Len(order) + 1
      /\ position + 1 - 1 = position
      /\ Stage \notin DOMAIN results
      /\ DOMAIN results \cup {Stage} = {order[i] : i \in 1 .. position}
  BY StageIsNew
<1>2. SortInv /\ RunInv
  BY DEF WorkflowInv
<1>3. errors' = errors \cup {Stage} /\ checkpoints' = checkpoints
  BY DEF Failing
<1>4. CASE c.required
  <2>1. status' \in {"failed", "rolled_back"} /\ phase' = "raised" /\ UNCHANGED <<results, position>>
    BY <1>4 DEF Failing
  <2>2. Stage' = Stage
    BY <2>1 DEF Stage
  <2>3. StandsAtError'
    BY <1>1, <1>3, <2>1, <2>2 DEF StandsAtError
  <2>4. SortInv'
    BY <1>3, <2>1 DEF SortInv
  <2>5. \A s \in DOMAIN results' :
          IF results'[s] = "ok" THEN s \in DOMAIN checkpoints' \ errors' ELSE s \in errors'
    BY <1>1, <1>2, <1>3, <2>1 DEF RunInv
  <2> QED
    BY <1>2, <2>1, <2>3, <2>4, <2>5 DEF RunInv
<1>5. CASE ~c.required
  <2>1. results' = With(results, Stage, "skipped") /\ position' = position + 1 /\ phase' = "stage"
        /\ status' = status
    BY <1>5 DEF Failing, ToNextStage
  <2>2. /\ DOMAIN results' = DOMAIN results \cup {Stage} /\ results'[Stage] = "skipped"
        /\ \A s \in DOMAIN results : s # Stage => results'[s] = results[s]
    BY <2>1 DEF With
  <2>3. SortInv'
    BY <1>2, <2>1 DEF SortInv
  <2>4. ASSUME NEW s \in DOMAIN results'
        PROVE  IF results'[s] = "ok" THEN s \in DOMAIN checkpoints' \ errors' ELSE s \in errors'
    <3>1. CASE s = Stage
      BY <1>3, <2>2, <3>1
    <3>2. CASE s # Stage
      BY <1>2, <1>3, <2>2, <3>2 DEF RunInv
    <3> QED
      BY <3>1, <3>2
  <2>5. /\ DOMAIN results' = {order'[i] : i \in 1 .. position' - 1}
        /\ position' \in 1 .. Len(order') + 1
    <3>1. position' - 1 = position /\ order' = order
      BY <1>1, <2>1
    <3>2. {order'[i] : i \in 1 .. position' - 1} = {order[i] : i \in 1 .. position}
      BY <3>1
    <3>3. DOMAIN results' = {order'[i] : i \in 1 .. position' - 1}
      BY <1>1, <2>2, <3>2
    <3> QED
      BY <1>1, <2>1, <3>1, <3>3
  <2>6. status' # "completed" /\ status' # "failed" /\ errors' \subseteq DOMAIN results'
    BY <1>2, <1>3, <2>1, <2>2 DEF RunInv
  <2> QED
    BY <1>2, <2>1, <2>3, <2>4, <2>5, <2>6 DEF RunInv
<1> QED
  BY <1>4, <1>5

LEMMA StartStageKeeps == WorkflowInv /\ StartStage => WorkflowInv'
<1> SUFFICES ASSUME WorkflowInv, StartStage PROVE WorkflowInv'
  OBVIOUS
<1>1. /\ phase = "stage" /\ position <= Len(order)
      /\ UNCHANGED graphVars /\ UNCHANGED kahnVars /\ UNCHANGED <<names, config, registers, control>>
      /\ \/ phase' = "function" /\ UNCHANGED <<position, results, errors, checkpoints, status>>
         \/ Failing(running')
  BY DEF StartStage, stagesVars
<1>2. UNCHANGED <<listed, needs, degree, queue, order>>
  BY <1>1 DEF graphVars, kahnVars
<1>3. phase' # "build"
  BY <1>1 DEF Failing, ToNextStage
<1>4. GraphInv' /\ KahnInv'
  BY <1>1, <1>3, GraphStays
<1>5. CASE phase' = "function" /\ UNCHANGED <<position, results, errors, checkpoints, status>>
  <2>1. SortInv'
    BY <1>1, <1>2, <1>5 DEF WorkflowInv, SortInv
  <2>2. RunInv'
    BY <1>1, <1>2, <1>5 DEF WorkflowInv, RunInv
  <2> QED
    BY <1>4, <2>1, <2>2 DEF WorkflowInv
<1>6. CASE Failing(running')
  <2>1. SortInv' /\ RunInv'
    BY <1>1, <1>2, <1>6, FailingKeeps
  <2> QED
    BY <1>4, <2>1 DEF WorkflowInv
<1> QED
  BY <1>1, <1>5, <1>6

LEMMA FunctionRaisesKeeps == WorkflowInv /\ FunctionRaises => WorkflowInv'
<1> SUFFICES ASSUME WorkflowInv, FunctionRaises PROVE WorkflowInv'
  OBVIOUS
<1>1. /\ phase = "function" /\ Failing(running)
      /\ UNCHANGED graphVars /\ UNCHANGED kahnVars /\ UNCHANGED <<names, config, registers>>
  BY DEF FunctionRaises, stagesVars
<1>2. UNCHANGED <<listed, needs, degree, queue, order>>
  BY <1>1 DEF graphVars, kahnVars
<1>3. phase' # "build" /\ position <= Len(order)
  BY <1>1 DEF Failing, ToNextStage, WorkflowInv, RunInv
<1>4. GraphInv' /\ KahnInv'
  BY <1>1, <1>3, GraphStays
<1>5. SortInv' /\ RunInv'
  BY <1>1, <1>2, <1>3, FailingKeeps
<1> QED
  BY <1>4, <1>5 DEF WorkflowInv

LEMMA FunctionReturnsKeeps == WorkflowInv /\ FunctionReturns => WorkflowInv'
<1> SUFFICES ASSUME WorkflowInv, FunctionReturns PROVE WorkflowInv'
  OBVIOUS
<1>1. /\ phase = "function" /\ results' = With(results, Stage, "ok")
      /\ checkpoints' = With(checkpoints, Stage, DOMAIN results')
      /\ position' = position + 1 /\ phase' = "stage"
      /\ UNCHANGED graphVars /\ UNCHANGED kahnVars
      /\ UNCHANGED <<names, config, registers, errors, status>>
  BY DEF FunctionReturns, stagesVars, ToNextStage
<1>2. UNCHANGED <<listed, needs, degree, queue, order>>
  BY <1>1 DEF graphVars, kahnVars
<1>3. SortInv /\ RunInv /\ position <= Len(order)
  BY <1>1 DEF WorkflowInv, RunInv
<1>4. GraphInv' /\ KahnInv'
  BY <1>1, GraphStays
<1>5. /\ position + 1 \in 1 .. Len(order) + 1 /\ position + 1 - 1 = position
      /\ Stage \notin DOMAIN results
      /\ DOMAIN results \cup {Stage} = {order[i] : i \in 1 .. position}
  BY <1>3, StageIsNew
<1>6. /\ DOMAIN results' = DOMAIN results \cup {Stage} /\ results'[Stage] = "ok"
      /\ \A s \in DOMAIN results : s # Stage => results'[s] = results[s]
      /\ DOMAIN checkpoints' = DOMAIN checkpoints \cup {Stage}
  BY <1>1 DEF With
<1>7. errors \subseteq DOMAIN results /\ Stage \notin errors
  BY <1>1, <1>3, <1>5 DEF RunInv
<1>8. SortInv'
  BY <1>1, <1>2, <1>3 DEF SortInv
<1>9. ASSUME NEW s \in DOMAIN results'
      PROVE  IF results'[s] = "ok" THEN s \in DOMAIN checkpoints' \ errors' ELSE s \in errors'
  <2>1. CASE s = Stage
    BY <1>1, <1>6, <1>7, <2>1
  <2>2. CASE s # Stage
    BY <1>1, <1>3, <1>6, <2>2 DEF RunInv
  <2> QED
    BY <2>1, <2>2
<1>10. /\ DOMAIN results' = {order'[i] : i \in 1 .. position' - 1}
       /\ position' \in 1 .. Len(order') + 1
  <2>1. position' - 1 = position /\ order' = order
    <3>1. position' = position + 1 /\ position \in Int /\ order' = order
      BY <1>1, <1>2, <1>3 DEF RunInv
    <3> QED
      BY <3>1
  <2>2. {order'[i] : i \in 1 .. position' - 1} = {order[i] : i \in 1 .. position}
    BY <2>1
  <2>3. DOMAIN results' = {order'[i] : i \in 1 .. position' - 1}
    BY <1>5, <1>6, <2>2
  <2> QED
    BY <1>1, <1>5, <2>1, <2>3
<1>11. status' # "completed" /\ status' # "failed" /\ errors' \subseteq DOMAIN results'
  BY <1>1, <1>3, <1>6, <1>7 DEF RunInv
<1>12. RunInv'
  BY <1>1, <1>3, <1>9, <1>10, <1>11 DEF RunInv
<1> QED
  BY <1>4, <1>8, <1>12 DEF WorkflowInv

LEMMA WorkflowEndKeeps == WorkflowInv /\ (WorkflowCompletes \/ WorkflowFails) => WorkflowInv'
<1> SUFFICES ASSUME WorkflowInv, WorkflowCompletes \/ WorkflowFails PROVE WorkflowInv'
  OBVIOUS
<1>1. /\ \/ phase = "stage" /\ position > Len(order) /\ status' = "completed"
         \/ phase = "raised" /\ status' = "failed"
      /\ phase' = "done"
      /\ UNCHANGED graphVars /\ UNCHANGED kahnVars
      /\ UNCHANGED <<names, config, registers, position, running, results, errors, checkpoints>>
  BY DEF WorkflowCompletes, WorkflowFails, stagesVars, stageVars
<1>2. UNCHANGED <<listed, needs, degree, queue, order>>
  BY <1>1 DEF graphVars, kahnVars
<1>3. GraphInv' /\ KahnInv'
  BY <1>1, GraphStays
<1>4. RunInv /\ Len(order) \in Nat
  BY LenProperties DEF WorkflowInv, KahnInv
<1>5. status' = "completed" => position = Len(order) + 1
  BY <1>1, <1>4 DEF RunInv
<1>6. status' = "failed" => StandsAtError'
  BY <1>1, <1>2, <1>4 DEF RunInv, StandsAtError, Stage
<1>7. SortInv'
  BY <1>1 DEF SortInv
<1>8. RunInv'
  BY <1>1, <1>2, <1>4, <1>5, <1>6 DEF RunInv
<1> QED
  BY <1>3, <1>7, <1>8 DEF WorkflowInv

\* A stage that is registered during the run changes neither the graph nor the order.
LEMMA RegisterStageKeeps == WorkflowInv /\ RegisterStage => WorkflowInv'
<1> SUFFICES ASSUME WorkflowInv, RegisterStage PROVE WorkflowInv'
  OBVIOUS
<1>1. PICK s \in Known, c \in Configs :
        /\ names' = IF s \in Set(names) THEN names ELSE Append(names, s)
        /\ config' = [config EXCEPT ![s] = c]
  BY DEF RegisterStage
<1>2. /\ registers' = registers + 1 /\ phase' = phase /\ status' = status
      /\ UNCHANGED <<listed, needs, degree, queue, order>>
      /\ UNCHANGED <<position, running, results, errors, checkpoints>>
  BY DEF RegisterStage, graphVars, kahnVars, stageVars
<1>3. GraphInv /\ KahnInv /\ SortInv /\ RunInv
  BY DEF WorkflowInv
<1>4. /\ names' \in Seq(Known) /\ Once(names')
      /\ Len(names) \in Nat /\ (names' = names \/ Len(names') = Len(names) + 1)
  <2>1. names \in Seq(Known) /\ Once(names)
    BY <1>3 DEF GraphInv
  <2>2. Set(names) = Members(names) /\ Len(names) \in Nat
    BY <2>1, SetIsMembers, LenProperties
  <2>3. CASE s \in Members(names)
    BY <1>1, <2>1, <2>2, <2>3
  <2>4. CASE s \notin Members(names)
    BY <1>1, <2>1, <2>2, <2>4, AppendedMembers
  <2> QED
    BY <2>3, <2>4
<1>5. config' \in [Known -> Configs]
  BY <1>1, <1>3 DEF GraphInv
<1>6. Len(listed) \in Nat /\ Len(listed) <= Len(names) /\ Len(listed) <= Len(names')
  <2>1. Len(listed) \in Nat /\ Len(listed) <= Len(names)
    BY <1>3, LenProperties DEF GraphInv
  <2> QED
    BY <1>4, <2>1
<1>7. GraphInv'
  BY <1>2, <1>3, <1>4, <1>5, <1>6 DEF GraphInv
<1>8. KahnInv'
  <2>1. \A i \in 1 .. Len(order') : needs'[order'[i]] \subseteq {order'[j] : j \in 1 .. (i - 1)}
    BY <1>2, <1>3 DEF KahnInv
  <2>2. \A n \in Known : degree'[n] = Cardinality(needs'[n] \ Members(order'))
    BY <1>2, <1>3 DEF KahnInv
  <2> QED
    BY <1>2, <1>3, <2>1, <2>2 DEF KahnInv
<1>9. SortInv'
  <2>1. names' = listed => names = listed
    BY <1>4, <1>6
  <2> QED
    BY <1>2, <1>3, <2>1 DEF SortInv
<1>10. registers' \in Nat /\ registers' # 0
  BY <1>2, <1>3 DEF RunInv
<1>11. StandsAtError'
  BY <1>10 DEF StandsAtError
<1>12. RunInv'
  BY <1>2, <1>3, <1>10, <1>11 DEF RunInv
<1> QED
  BY <1>7, <1>8, <1>9, <1>12 DEF WorkflowInv

LEMMA ControlKeeps == WorkflowInv /\ (ControlTests \/ ControlSets) => WorkflowInv'
<1> SUFFICES ASSUME WorkflowInv, ControlTests \/ ControlSets PROVE WorkflowInv'
  OBVIOUS
<1>1. /\ status' = status \/ status' \in {"paused", "running"}
      /\ UNCHANGED graphVars /\ UNCHANGED kahnVars /\ phase' = phase
      /\ UNCHANGED <<names, config, registers, position, running, results, errors, checkpoints>>
  BY DEF ControlTests, ControlSets, stagesVars, stageVars
<1>2. UNCHANGED <<listed, needs, degree, queue, order>>
  BY <1>1 DEF graphVars, kahnVars
<1>3. GraphInv' /\ KahnInv'
  BY <1>1, GraphStays
<1>4. SortInv'
  BY <1>1, <1>2 DEF WorkflowInv, SortInv
<1>5. StandsAtError => StandsAtError'
  BY <1>1, <1>2 DEF StandsAtError, Stage
<1>6. RunInv'
  BY <1>1, <1>2, <1>5 DEF WorkflowInv, RunInv
<1> QED
  BY <1>3, <1>4, <1>6 DEF WorkflowInv

LEMMA WorkflowStep == WorkflowInv /\ [WorkflowNext]_workflowVars => WorkflowInv'
<1> SUFFICES ASSUME WorkflowInv, [WorkflowNext]_workflowVars PROVE WorkflowInv'
  OBVIOUS
<1>1. CASE UNCHANGED workflowVars
  <2>1. /\ UNCHANGED graphVars /\ UNCHANGED kahnVars
        /\ UNCHANGED <<names, config, registers, listed, needs, queue, order, position, running,
                       results, errors, checkpoints, status, phase>>
    BY <1>1 DEF workflowVars, stagesVars, graphVars, kahnVars, stageVars
  <2>2. GraphInv' /\ KahnInv'
    BY <2>1, GraphStays
  <2>3. SortInv'
    BY <2>1 DEF WorkflowInv, SortInv
  <2>4. StandsAtError => StandsAtError'
    BY <2>1 DEF StandsAtError, Stage
  <2>5. RunInv'
    BY <2>1, <2>4 DEF WorkflowInv, RunInv
  <2> QED
    BY <2>2, <2>3, <2>5 DEF WorkflowInv
<1> QED
  BY <1>1, BuildGraphKeeps, PopStageKeeps, OrderFoundKeeps, CircleFoundKeeps, StartStageKeeps,
     FunctionReturnsKeeps, FunctionRaisesKeeps, WorkflowEndKeeps, RegisterStageKeeps, ControlKeeps
     DEF WorkflowNext

\* The stages left over by a sort that gives up each need one of themselves, or one that
\* nobody registered.
LEMMA LeftAreCircular ==
  ASSUME WorkflowInv, phase = "raised", errors = {}, names = listed
  PROVE  \E left \in SUBSET Set(listed) :
           left # {} /\ \A s \in left : needs[s] \cap (left \cup (Known \ Set(listed))) # {}
<1> DEFINE left == Members(listed) \ Members(order)
<1>1. GraphInv /\ KahnInv /\ queue = <<>> /\ Len(order) # Len(listed)
  BY DEF WorkflowInv, SortInv
<1>2. Set(listed) = Members(listed) /\ Members(listed) \subseteq Known /\ Members(queue) = {}
  BY <1>1, SetIsMembers, MembersTyped, NoMembers DEF GraphInv
<1>3. left # {}
  <2>1. Cardinality(Members(listed)) = Len(listed) /\ Cardinality(Members(order)) = Len(order)
    BY <1>1, MembersCounted DEF GraphInv, KahnInv
  <2>2. Members(order) \subseteq Members(listed)
    BY <1>1 DEF KahnInv
  <2>3. left = {} => Members(listed) = Members(order)
    BY <2>2
  <2> QED
    BY <1>1, <2>1, <2>3
<1>4. ASSUME NEW s \in left
      PROVE  needs[s] \cap (left \cup (Known \ Members(listed))) # {}
  <2>1. s \in Known /\ degree[s] # 0 /\ degree[s] = Cardinality(needs[s] \ Members(order))
    BY <1>1, <1>2 DEF KahnInv
  <2>2. needs[s] \ Members(order) # {}
    <3>1. Cardinality({}) = 0
      BY FS_EmptySet
    <3> QED
      BY <2>1, <3>1
  <2>3. needs[s] \subseteq Known
    BY <1>1, <2>1 DEF GraphInv
  <2> QED
    BY <2>2, <2>3
<1>5. left \in SUBSET Set(listed)
  BY <1>2
<1>6. \A s \in left : needs[s] \cap (left \cup (Known \ Set(listed))) # {}
  BY <1>2, <1>4
<1> HIDE DEF left
<1> QED
  BY <1>3, <1>5, <1>6

\* Whatever the dependencies and whoever registers, pauses or resumes meanwhile: the
\* stages run once each, in an order that is one, the sort gives up only when there is
\* none, and the status tells which stages have a result.
THEOREM WorkflowTellsTheTruth == WorkflowSpec => []CompletedMeansDone
<1>1. WorkflowInv => SortIsRight
  <2> SUFFICES ASSUME WorkflowInv PROVE SortIsRight
    OBVIOUS
  <2>1. /\ order \in Seq(Known) /\ Once(order) /\ listed \in Seq(Known)
        /\ \A i \in 1 .. Len(order) : needs[order[i]] \subseteq {order[j] : j \in 1 .. (i - 1)}
    BY DEF WorkflowInv, GraphInv, KahnInv
  <2>2. DOMAIN order = 1 .. Len(order) /\ Set(order) = Members(order) /\ Set(listed) = Members(listed)
    BY <2>1, SetIsMembers, LenProperties
  <2>3. IsInjective(order)
    BY <2>1, <2>2 DEF IsInjective, Once
  <2>4. phase \in {"stage", "function"} => Set(order) = Set(listed)
    BY <2>2 DEF WorkflowInv, SortInv
  <2>5. phase = "raised" /\ errors = {} =>
          \/ names # listed
          \/ \E left \in SUBSET Set(listed) :
               left # {} /\ \A s \in left : needs[s] \cap (left \cup (Known \ Set(listed))) # {}
    BY LeftAreCircular
  <2> QED
    BY <2>1, <2>2, <2>3, <2>4, <2>5 DEF SortIsRight
<1>2. WorkflowInv => OutcomeFitsStages
  <2> SUFFICES ASSUME WorkflowInv PROVE OutcomeFitsStages
    OBVIOUS
  <2>1. RunInv /\ order \in Seq(Known)
    BY DEF WorkflowInv, KahnInv
  <2>2. Set(order) = Members(order) /\ Len(order) \in Nat
    BY <2>1, SetIsMembers, LenProperties
  <2>3. status = "completed" => DOMAIN results = Set(order)
    <3> SUFFICES ASSUME status = "completed" PROVE DOMAIN results = Set(order)
      OBVIOUS
    <3>1. position - 1 = Len(order)
      BY <2>1, <2>2 DEF RunInv
    <3> QED
      BY <2>1, <2>2, <3>1 DEF RunInv, Members
  <2>4. status = "failed" /\ Len(order) = Len(names) /\ registers = 0
          => position <= Len(order) /\ Stage \in errors
    BY <2>1 DEF RunInv, StandsAtError
  <2> QED
    BY <2>1, <2>3, <2>4 DEF OutcomeFitsStages, RunInv
<1>3. WorkflowSpec => []WorkflowInv
  BY WorkflowStarts, WorkflowStep, PTL DEF WorkflowSpec
<1> QED
  BY <1>1, <1>2, <1>3, PTL DEF CompletedMeansDone

-----------------------------------------------------------------------------
(* The parts together                                                      *)

\* What the invariant of the workflow says nothing of.
WorkflowTypes ==
  /\ running \in Configs /\ \A s \in DOMAIN results : results[s] \in {"ok", "skipped"}
  /\ errors \subseteq Known /\ DOMAIN checkpoints \subseteq Known
  /\ status \in {"running", "completed", "failed", "paused", "rolled_back"}
  /\ control \in {"idle", "pausing", "resuming"}
  /\ registers \in 0 .. MaxRegister

LEMMA WorkflowTypesStart == WorkflowInit => WorkflowTypes
BY WorkflowAssumption DEF WorkflowInit, WorkflowTypes, Unregistered, Configs

LEMMA StageIsKnown ==
  ASSUME WorkflowInv, phase = "function" \/ (phase = "stage" /\ position <= Len(order))
  PROVE  Stage \in Known /\ config[Stage] \in Configs
<1>1. order \in Seq(Known) /\ config \in [Known -> Configs] /\ position \in 1 .. Len(order) + 1
      /\ position <= Len(order)
  BY DEF WorkflowInv, GraphInv, KahnInv, RunInv
<1>2. Stage \in Known
  BY <1>1, LenProperties DEF Stage
<1> QED
  BY <1>1, <1>2

LEMMA WorkflowTypesStep ==
  ASSUME WorkflowInv, WorkflowTypes, [WorkflowNext]_workflowVars
  PROVE  WorkflowTypes'
<1>1. ASSUME NEW c \in Configs, Failing(c), Stage \in Known,
             running' \in Configs, UNCHANGED <<control, registers>>
      PROVE  WorkflowTypes'
  BY <1>1 DEF WorkflowTypes, Failing, With, ToNextStage
<1>2. CASE BuildGraph \/ PopStage \/ OrderFound \/ CircleFound \/ WorkflowCompletes \/ WorkflowFails
  BY <1>2 DEF WorkflowTypes, BuildGraph, PopStage, OrderFound, CircleFound, WorkflowCompletes,
              WorkflowFails, stageVars, stagesVars
<1>3. CASE StartStage
  <2>1. /\ running' = config[Stage] /\ running' \in Configs /\ Stage \in Known
        /\ UNCHANGED <<control, registers>>
    BY <1>3, StageIsKnown DEF StartStage, stagesVars
  <2>2. CASE Failing(running')
    BY <1>1, <2>1, <2>2
  <2>3. CASE UNCHANGED <<results, errors, checkpoints, status>>
    BY <2>1, <2>3 DEF WorkflowTypes
  <2> QED
    BY <1>3, <2>2, <2>3 DEF StartStage
<1>4. CASE FunctionReturns
  <2>1. Stage \in Known /\ UNCHANGED <<running, errors, status, control, registers>>
    BY <1>4, StageIsKnown DEF FunctionReturns, stagesVars
  <2> QED
    BY <1>4, <2>1 DEF WorkflowTypes, FunctionReturns, With
<1>5. CASE FunctionRaises
  <2>1. Stage \in Known /\ UNCHANGED <<running, control, registers>> /\ running \in Configs
        /\ Failing(running)
    BY <1>5, StageIsKnown DEF FunctionRaises, stagesVars, WorkflowTypes
  <2> QED
    BY <1>1, <2>1
<1>6. CASE RegisterStage \/ ControlTests \/ ControlSets
  BY <1>6, WorkflowAssumption
     DEF WorkflowTypes, RegisterStage, ControlTests, ControlSets, stageVars, stagesVars
<1>7. CASE UNCHANGED workflowVars
  BY <1>7 DEF WorkflowTypes, workflowVars, stageVars, stagesVars
<1> QED
  BY <1>2, <1>3, <1>4, <1>5, <1>6, <1>7 DEF WorkflowNext

LEMMA WorkflowTypesAll == WorkflowInv /\ WorkflowTypes => WorkflowTypeOK
<1> SUFFICES ASSUME WorkflowInv, WorkflowTypes PROVE WorkflowTypeOK
  OBVIOUS
<1>1. order \in Seq(Known) /\ position \in 1 .. Len(order) + 1
      /\ DOMAIN results = {order[i] : i \in 1 .. position - 1}
  BY DEF WorkflowInv, KahnInv, RunInv
<1>2. DOMAIN results \subseteq Known
  <2> SUFFICES ASSUME NEW i \in 1 .. position - 1 PROVE order[i] \in Known
    BY <1>1
  <2>1. Len(order) \in Nat /\ i \in 1 .. Len(order)
    BY <1>1, LenProperties
  <2> QED
    BY <1>1, <2>1, LenProperties
<1> QED
  BY <1>1, <1>2 DEF WorkflowTypeOK, WorkflowTypes, WorkflowInv, GraphInv, KahnInv, RunInv

\* Whichever part is driven, the others stand still, so that each is as it is alone.
LEMMA DesignParts ==
  [DesignNext]_designVars =>
    /\ [Next]_vars /\ [DecodingNext]_decodingVars /\ [MemoryNext]_memoryVars
    /\ [WorkflowNext]_workflowVars /\ [CadNext]_cadVars
<1>1. ASSUME DesignNext
      PROVE  /\ [Next]_vars /\ [DecodingNext]_decodingVars /\ [MemoryNext]_memoryVars
             /\ [WorkflowNext]_workflowVars /\ [CadNext]_cadVars
  BY <1>1 DEF DesignNext, CadNext
<1>2. ASSUME UNCHANGED designVars
      PROVE  /\ UNCHANGED vars /\ UNCHANGED decodingVars /\ UNCHANGED memoryVars
             /\ UNCHANGED workflowVars /\ UNCHANGED cadVars
  BY <1>2 DEF designVars
<1> QED
  BY <1>1, <1>2

\* A behaviour of the parts together is one of each of them, so that each theorem about a
\* part holds of the composition that is checked.
THEOREM DesignCompose ==
  DesignSpec => Spec /\ DecodingSpec /\ MemorySpec /\ WorkflowSpec /\ CadSpec
<1>1. DesignInit => Init /\ DecodingInit /\ MemoryInit /\ WorkflowInit /\ CadInit
  BY DEF DesignInit
<1> QED
  BY <1>1, DesignParts, PTL
     DEF DesignSpec, Spec, DecodingSpec, MemorySpec, WorkflowSpec, CadSpec

\* For any model, processes, stages, features and parameters, what the decoders, the log,
\* the workflow and the walks keep has its type, and no walk goes deeper than there are
\* features or parameters.
THEOREM DesignTypeCorrect == DesignSpec => []DesignTypeOK
<1> DEFINE I == DecodingTypeOK /\ MemoryInv /\ WorkflowInv /\ WorkflowTypes /\ CadInv
<1>1. DesignInit => I
  <2>1. DecodingInit => DecodingTypeOK
    BY DecodingInvInit DEF DecodingInv
  <2> QED
    BY <2>1, MemoryStarts, WorkflowStarts, WorkflowTypesStart, CadStarts DEF DesignInit
<1>2. I /\ [DesignNext]_designVars => I'
  BY DesignParts, DecodingTypeStep, MemoryStep, WorkflowStep, WorkflowTypesStep, CadSteps
<1>3. I => DesignTypeOK
  BY WorkflowTypesAll, CadTypes DEF DesignTypeOK, MemoryInv
<1> HIDE DEF I
<1> QED
  BY <1>1, <1>2, <1>3, PTL DEF DesignSpec
=============================================================================
