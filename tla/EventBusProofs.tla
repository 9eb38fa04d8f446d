--------------------------- MODULE EventBusProofs ---------------------------
(***************************************************************************)
(* Theorems about EventBus for any threads, handlers, filters that raise   *)
(* and calls from inside of handlers, and any bounds: no event is lost or  *)
(* stored twice, every response finds its request once, and deliveries     *)
(* that do not overlap come in order.                                      *)
(***************************************************************************)
EXTENDS EventBus, ListProofs, Integers, SequenceTheorems, TLAPS

-----------------------------------------------------------------------------
(* The invariant                                                           *)

\* What each request was answered so far.
got == [r \in Id |-> replies[r] \o buffer[r]]

Popped == DOMAIN events \ heap

\* The event a frame publishes, or delivers; 0 for none.
published == [f \in Frame |-> IF f.pc \in {"drain", "store"} THEN f.ev ELSE 0]
delivered == [f \in Frame |-> IF f.pc \in {"deliver", "handle"} THEN f.ev ELSE 0]

\* No two frames of any threads have the same event.
Alone(tag, stacks) ==
  \A t, u \in Threads : \A i \in 1 .. Len(stacks[t]), j \in 1 .. Len(stacks[u]) :
    tag[stacks[t][i]] = tag[stacks[u][j]] /\ tag[stacks[t][i]] # 0 => t = u /\ i = j

\* A method knows its event.
FrameTyped(f) ==
  /\ f.ev = 0 => f.pc = "drain"
  /\ f.ev # 0 => f.ev \in DOMAIN events

\* What is delivered was popped; the handlers to come have not seen it, and the bus's own
\* comes first, for a response that its request has not got yet.
FrameDelivers(f) ==
  f.pc \in {"deliver", "handle"} =>
    /\ f.ev \in Popped /\ Once(f.rest)
    /\ \A h \in Members(f.rest) \ {Capture} : f.ev \notin Members(received[h])
    /\ Capture \in Members(f.rest) =>
         /\ f.pc = "deliver" /\ Head(f.rest) = Capture
         /\ events[f.ev].kind = "response" /\ f.ev \notin Members(got[events[f.ev].corr])

\* While deliveries do not overlap, what is delivered comes after all that was popped.
FrameOrdered(f) ==
  f.pc \in {"deliver", "handle"} /\ ~overlap =>
    \A e \in Popped \ {f.ev} : e < f.ev \/ Precedes(e, f.ev)

FrameNotStored(f) == f.pc \in {"drain", "store"} => f.ev \notin Members(store)

GoodFrames ==
  {f \in Frame : FrameTyped(f) /\ FrameDelivers(f) /\ FrameOrdered(f) /\ FrameNotStored(f)}

StackInv ==
  /\ stack \in [Threads -> Seq(GoodFrames)]
  /\ Alone(published, stack) /\ Alone(delivered, stack)

\* The bus's own subscription is the first one.
BusTyped ==
  /\ autoFlush \in BOOLEAN /\ overlap \in BOOLEAN
  /\ events \in Seq(Event) /\ Len(events) <= MaxEvents /\ heap \subseteq DOMAIN events
  /\ \A e \in DOMAIN events : events[e].kind = "response" => events[e].corr \in Id
  /\ subs \in Seq(Handlers \cup {Capture}) /\ Once(subs) /\ Len(subs) >= 1 /\ subs[1] = Capture
  /\ buffer \in [Id -> Seq(Id)] /\ replies \in [Id -> Seq(Id)]
  /\ store \in Seq(Id) /\ received \in [Handlers -> Seq(Id)]
  /\ raised \subseteq 0 .. MaxEvents

\* What was received, answered or stored was popped, or published.
SeenInv ==
  /\ \A h \in Handlers : Members(received[h]) \subseteq Popped
  /\ \A r \in Id : Once(got[r]) /\ Members(got[r]) \subseteq Popped
  /\ Once(store) /\ Members(store) \subseteq DOMAIN events

\* Where every event is.
StoredSomewhere ==
  \A e \in DOMAIN events :
    \/ e \in Members(store) \/ e \in raised
    \/ \E t \in Threads : \E i \in 1 .. Len(stack[t]) : published[stack[t][i]] = e

Capturing(t, e) ==
  Inside(t, "deliver") /\ Now(t).ev = e /\ Capture \in Members(Now(t).rest)

RoutedSomewhere ==
  \A e \in DOMAIN events : events[e].kind = "response" =>
    e \in heap \/ (\E t \in Threads : Capturing(t, e)) \/ e \in Members(got[events[e].corr])

Drained ==
  autoFlush /\ raised = {} /\ heap # {} =>
    \E t \in Threads : \E i \in 1 .. Len(stack[t]) : stack[t][i].pc = "drain"

\* The heap gives way only to what comes before, and the handlers see it in that order.
OrderInv ==
  /\ \A e \in Popped, f \in heap : e < f \/ Precedes(e, f)
  /\ ~overlap => \A h \in Handlers : \A i, j \in 1 .. Len(received[h]) :
       i < j => received[h][i] < received[h][j] \/ Precedes(received[h][i], received[h][j])

BusInv ==
  BusTyped /\ StackInv /\ SeenInv /\ StoredSomewhere /\ RoutedSomewhere /\ Drained /\ OrderInv

-----------------------------------------------------------------------------
(* Stacks                                                                  *)

LEMMA SequenceOf ==
  ASSUME NEW S, NEW T, NEW s \in Seq(S), \A i \in 1 .. Len(s) : s[i] \in T
  PROVE  s \in Seq(T)
<1>1. Len(s) \in Nat /\ SubSeq(s, 1, Len(s)) = s
  BY LenProperties, SubSeqFull
<1>2. SubSeq(s, 1, Len(s)) \in Seq(T)
  BY <1>1, SubSeqProperties
<1> QED
  BY <1>1, <1>2

\* What the methods make of a stack.
LEMMA OneEntered ==
  ASSUME NEW S, NEW s \in Seq(S), NEW f \in S
  PROVE  /\ s \o <<f>> \in Seq(S) /\ Len(s \o <<f>>) = Len(s) + 1
         /\ \A i \in 1 .. Len(s) : (s \o <<f>>)[i] = s[i]
         /\ (s \o <<f>>)[Len(s) + 1] = f
<1>1. Append(s, f) = s \o <<f>>
  BY AppendIsConcat
<1> QED
  BY <1>1, AppendProperties

LEMMA FrontLeft ==
  ASSUME NEW S, NEW s \in Seq(S), s # <<>>
  PROVE  /\ Front(s) \in Seq(S) /\ Len(Front(s)) = Len(s) - 1 /\ Len(s) \in Nat \ {0}
         /\ \A i \in 1 .. Len(s) - 1 : Front(s)[i] = s[i]
         /\ Last(s) = s[Len(s)] /\ Last(s) \in S
<1>1. Len(s) \in Nat \ {0}
  BY EmptySeq
<1>2. \A i \in 1 .. Len(s) : s[i] \in S
  BY ElementOfSeq
<1>3. /\ SubSeq(s, 1, Len(s) - 1) \in Seq(S)
      /\ Len(SubSeq(s, 1, Len(s) - 1)) = IF 1 <= Len(s) - 1 THEN Len(s) - 1 - 1 + 1 ELSE 0
      /\ \A i \in 1 .. Len(s) - 1 - 1 + 1 : SubSeq(s, 1, Len(s) - 1)[i] = s[1 + i - 1]
  BY <1>1, <1>2, SubSeqProperties
<1>4. Front(s) = SubSeq(s, 1, Len(s) - 1)
  BY DEF Front
<1>5. Len(s) - 1 - 1 + 1 = Len(s) - 1 /\ \A i \in 1 .. Len(s) - 1 : 1 + i - 1 = i
  BY <1>1
<1>6. Len(SubSeq(s, 1, Len(s) - 1)) = Len(s) - 1
  <2>0. \A n \in Nat \ {0} : 1 <= n - 1 \/ n - 1 = 0
    OBVIOUS
  <2>1. 1 <= Len(s) - 1 \/ Len(s) - 1 = 0
    BY <1>1, <2>0
  <2>2. CASE 1 <= Len(s) - 1
    BY <1>1, <1>3, <1>5, <2>2
  <2>3. CASE Len(s) - 1 = 0
    BY <1>3, <2>3
  <2> QED
    BY <2>1, <2>2, <2>3
<1> QED
  BY <1>1, <1>2, <1>3, <1>4, <1>5, <1>6 DEF Last

LEMMA LastReplaced ==
  ASSUME NEW S, NEW s \in Seq(S), s # <<>>, NEW f \in S
  PROVE  /\ Append(Front(s), f) \in Seq(S) /\ Len(Append(Front(s), f)) = Len(s)
         /\ \A i \in 1 .. Len(s) - 1 : Append(Front(s), f)[i] = s[i]
         /\ Append(Front(s), f)[Len(s)] = f
<1>1. /\ Front(s) \in Seq(S) /\ Len(Front(s)) = Len(s) - 1 /\ Len(s) \in Nat \ {0}
      /\ \A i \in 1 .. Len(s) - 1 : Front(s)[i] = s[i]
  BY FrontLeft
<1>2. /\ Append(Front(s), f) \in Seq(S) /\ Len(Append(Front(s), f)) = Len(Front(s)) + 1
      /\ \A i \in 1 .. Len(Front(s)) : Append(Front(s), f)[i] = Front(s)[i]
      /\ Append(Front(s), f)[Len(Front(s)) + 1] = f
  BY <1>1, AppendProperties
<1>3. Len(s) - 1 + 1 = Len(s)
  BY <1>1
<1> QED
  BY <1>1, <1>2, <1>3

LEMMA TwoForLast ==
  ASSUME NEW S, NEW s \in Seq(S), s # <<>>, NEW q \in Seq(S), Len(q) = 2
  PROVE  /\ Front(s) \o q \in Seq(S) /\ Len(Front(s) \o q) = Len(s) + 1
         /\ \A i \in 1 .. Len(s) - 1 : (Front(s) \o q)[i] = s[i]
         /\ (Front(s) \o q)[Len(s)] = q[1] /\ (Front(s) \o q)[Len(s) + 1] = q[2]
<1>1. /\ Front(s) \in Seq(S) /\ Len(Front(s)) = Len(s) - 1 /\ Len(s) \in Nat \ {0}
      /\ \A i \in 1 .. Len(s) - 1 : Front(s)[i] = s[i]
  BY FrontLeft
<1> DEFINE r == Front(s)
<1>2. r \in Seq(S) /\ Len(r) = Len(s) - 1 /\ \A i \in 1 .. Len(s) - 1 : r[i] = s[i]
  BY <1>1
<1> HIDE DEF r
<1>3. /\ r \o q \in Seq(S) /\ Len(r \o q) = Len(r) + Len(q)
      /\ \A i \in 1 .. Len(r) + Len(q) : (r \o q)[i] = IF i <= Len(r) THEN r[i] ELSE q[i - Len(r)]
  BY <1>2, ConcatProperties
<1>4. /\ \A i \in 1 .. Len(s) - 1 : i \in 1 .. Len(r) + Len(q) /\ i <= Len(r)
      /\ Len(s) \in 1 .. Len(r) + Len(q) /\ ~(Len(s) <= Len(r)) /\ Len(s) - Len(r) = 1
      /\ Len(s) + 1 \in 1 .. Len(r) + Len(q) /\ ~(Len(s) + 1 <= Len(r)) /\ Len(s) + 1 - Len(r) = 2
      /\ Len(r) + Len(q) = Len(s) + 1
  BY <1>1, <1>2
<1>5. /\ r \o q \in Seq(S) /\ Len(r \o q) = Len(s) + 1
      /\ \A i \in 1 .. Len(s) - 1 : (r \o q)[i] = s[i]
      /\ (r \o q)[Len(s)] = q[1] /\ (r \o q)[Len(s) + 1] = q[2]
  BY <1>2, <1>3, <1>4
<1> QED
  BY <1>5 DEF r

\* A stack replaced by one whose tags stand where they stood, but for one that no frame
\* had.
Inherits(tag, old, t, r, p) ==
  \A i \in 1 .. Len(r) :
    \/ tag[r[i]] = 0
    \/ i \in 1 .. Len(old[t]) /\ tag[r[i]] = tag[old[t][i]]
    \/ i = p /\ \A u \in Threads : \A j \in 1 .. Len(old[u]) : tag[old[u][j]] # tag[r[i]]

LEMMA AloneStays ==
  ASSUME NEW tag, NEW old \in [Threads -> Seq(Frame)], Alone(tag, old),
         NEW t \in Threads, NEW r \in Seq(Frame), NEW p, Inherits(tag, old, t, r, p)
  PROVE  Alone(tag, [old EXCEPT ![t] = r])
<1> DEFINE new == [old EXCEPT ![t] = r]
<1>1. \A u \in Threads : new[u] = IF u = t THEN r ELSE old[u]
  OBVIOUS
<1> SUFFICES Alone(tag, new)
  OBVIOUS
<1> HIDE DEF new
<1> SUFFICES \A u, v \in Threads : \A i \in 1 .. Len(new[u]), j \in 1 .. Len(new[v]) :
               tag[new[u][i]] = tag[new[v][j]] /\ tag[new[u][i]] # 0 => u = v /\ i = j
  BY DEF Alone
<1> TAKE u, v \in Threads
<1> TAKE i \in 1 .. Len(new[u]), j \in 1 .. Len(new[v])
<1> HAVE tag[new[u][i]] = tag[new[v][j]] /\ tag[new[u][i]] # 0
<1> DEFINE fresh(w, k) == w = t /\ k = p /\ \A x \in Threads : \A l \in 1 .. Len(old[x]) :
                                                tag[old[x][l]] # tag[new[w][k]]
<1>2. \/ i \in 1 .. Len(old[u]) /\ tag[new[u][i]] = tag[old[u][i]]
      \/ fresh(u, i)
  <2>1. CASE u = t
    <3>1. new[u] = r /\ i \in 1 .. Len(r)
      BY <1>1, <2>1
    <3> QED
      BY <2>1, <3>1 DEF Inherits
  <2>2. CASE u # t
    BY <1>1, <2>2
  <2> QED
    BY <2>1, <2>2
<1>3. \/ j \in 1 .. Len(old[v]) /\ tag[new[v][j]] = tag[old[v][j]]
      \/ fresh(v, j)
  BY <1>1 DEF Inherits
<1> QED
  BY <1>2, <1>3 DEF Alone

\* A tag that is found in some stack is still found, when the tags outside of X stay.
Tagged(tag, stacks, e) == \E u \in Threads : \E i \in 1 .. Len(stacks[u]) : tag[stacks[u][i]] = e

LEMMA WitnessStays ==
  ASSUME NEW tag, NEW old \in [Threads -> Seq(Frame)],
         NEW t \in Threads, NEW r \in Seq(Frame), NEW X,
         \A i \in 1 .. Len(old[t]) :
           tag[old[t][i]] \in X \/ (i \in 1 .. Len(r) /\ tag[r[i]] = tag[old[t][i]]),
         NEW e, e \notin X, Tagged(tag, old, e)
  PROVE  Tagged(tag, [old EXCEPT ![t] = r], e)
<1> DEFINE new == [old EXCEPT ![t] = r]
<1>1. PICK u \in Threads : \E i \in 1 .. Len(old[u]) : tag[old[u][i]] = e
  BY DEF Tagged
<1>2. PICK i \in 1 .. Len(old[u]) : tag[old[u][i]] = e
  BY <1>1
<1>3. i \in 1 .. Len(new[u]) /\ tag[new[u][i]] = e
  BY <1>2
<1> QED
  BY <1>3 DEF Tagged

-----------------------------------------------------------------------------
(* What most steps leave alone                                             *)

LEMMA Tags ==
  ASSUME NEW f \in Frame
  PROVE  /\ published[f] = IF f.pc \in {"drain", "store"} THEN f.ev ELSE 0
         /\ delivered[f] = IF f.pc \in {"deliver", "handle"} THEN f.ev ELSE 0
         /\ f.ev \in 0 .. MaxEvents /\ f.rest \in Seq(Handlers \cup {Capture})
  BY DEF published, delivered, Frame

LEMMA PlainFrame ==
  ASSUME NEW pc \in {"drain", "deliver", "handle", "store", "wait", "take", "done"},
         NEW e \in 0 .. MaxEvents
  PROVE  /\ In(pc, e) \in Frame
         /\ In(pc, e).pc = pc /\ In(pc, e).ev = e /\ In(pc, e).rest = <<>>
<1>1. <<>> \in Seq(Handlers \cup {Capture})
  BY EmptySeq
<1> QED
  BY <1>1 DEF In, Frame

LEMMA StackTyped ==
  ASSUME BusInv
  PROVE  /\ stack \in [Threads -> Seq(Frame)]
         /\ \A t \in Threads : /\ stack[t] \in Seq(GoodFrames)
                               /\ \A i \in 1 .. Len(stack[t]) : stack[t][i] \in GoodFrames
         /\ GoodFrames \subseteq Frame
         /\ \A t \in Threads : stack[t] # <<>> =>
              /\ Now(t) \in GoodFrames /\ Now(t) = stack[t][Len(stack[t])]
              /\ Len(stack[t]) \in Nat \ {0} /\ Len(stack[t]) \in 1 .. Len(stack[t])
<1>1. stack \in [Threads -> Seq(GoodFrames)]
  BY DEF BusInv, StackInv
<1>2. GoodFrames \subseteq Frame
  BY DEF GoodFrames
<1>3. ASSUME NEW t \in Threads
      PROVE  /\ stack[t] \in Seq(GoodFrames)
             /\ \A i \in 1 .. Len(stack[t]) : stack[t][i] \in GoodFrames
             /\ stack[t] \in Seq(Frame)
  <2>1. stack[t] \in Seq(GoodFrames)
    BY <1>1
  <2>2. \A i \in 1 .. Len(stack[t]) : stack[t][i] \in GoodFrames
    BY <2>1, ElementOfSeq
  <2>3. \A i \in 1 .. Len(stack[t]) : stack[t][i] \in Frame
    BY <1>2, <2>2
  <2> QED
    BY <2>1, <2>2, <2>3, SequenceOf
<1>4. ASSUME NEW t \in Threads, stack[t] # <<>>
      PROVE  /\ Now(t) \in GoodFrames /\ Now(t) = stack[t][Len(stack[t])]
             /\ Len(stack[t]) \in Nat \ {0} /\ Len(stack[t]) \in 1 .. Len(stack[t])
  <2>1. /\ Last(stack[t]) = stack[t][Len(stack[t])] /\ Last(stack[t]) \in GoodFrames
        /\ Len(stack[t]) \in Nat \ {0}
    BY <1>3, <1>4, FrontLeft
  <2>2. Len(stack[t]) \in 1 .. Len(stack[t])
    BY <2>1
  <2> QED
    BY <2>1, <2>2 DEF Now
<1>5. stack \in [Threads -> Seq(Frame)]
  BY <1>1, <1>3
<1> QED
  BY <1>2, <1>3, <1>4, <1>5

LEMMA EventsTyped ==
  ASSUME BusInv
  PROVE  /\ events \in Seq(Event) /\ Len(events) \in Nat /\ DOMAIN events = 1 .. Len(events)
         /\ MaxEvents \in Nat /\ Len(events) <= MaxEvents /\ 1 .. Len(events) \subseteq Id
         /\ \A e \in DOMAIN events : events[e] \in Event /\ e \in Id /\ e # 0
<1>1. events \in Seq(Event) /\ Len(events) <= MaxEvents /\ MaxEvents \in Nat
  BY BoundAssumption DEF BusInv, BusTyped
<1>2. Len(events) \in Nat /\ DOMAIN events = 1 .. Len(events)
  BY <1>1, LenProperties
<1>3. \A e \in 1 .. Len(events) : e \in Id /\ e # 0
  BY <1>1, <1>2 DEF Id
<1>4. \A e \in 1 .. Len(events) : events[e] \in Event
  BY <1>1, ElementOfSeq
<1> QED
  BY <1>1, <1>2, <1>3, <1>4

\* A step that changes only stacks, subscriptions and where a request keeps its answers.
Quiet == UNCHANGED <<autoFlush, events, heap, store, received, overlap, got>>

LEMMA QuietStays ==
  ASSUME BusInv, Quiet
  PROVE  GoodFrames' = GoodFrames /\ SeenInv' /\ OrderInv'
<1>1. /\ autoFlush' = autoFlush /\ events' = events /\ heap' = heap /\ store' = store
      /\ received' = received /\ overlap' = overlap /\ got' = got
  BY DEF Quiet
<1>2. Popped' = Popped
  BY <1>1 DEF Popped
<1>3. ASSUME NEW f \in Frame
      PROVE  /\ FrameTyped(f)' <=> FrameTyped(f)
             /\ FrameDelivers(f)' <=> FrameDelivers(f)
             /\ FrameOrdered(f)' <=> FrameOrdered(f)
             /\ FrameNotStored(f)' <=> FrameNotStored(f)
  <2>1. FrameTyped(f)' <=> FrameTyped(f)
    BY <1>1 DEF FrameTyped
  <2>2. FrameDelivers(f)' <=> FrameDelivers(f)
    BY <1>1, <1>2 DEF FrameDelivers
  <2>3. FrameOrdered(f)' <=> FrameOrdered(f)
    BY <1>1, <1>2 DEF FrameOrdered, Precedes
  <2>4. FrameNotStored(f)' <=> FrameNotStored(f)
    BY <1>1 DEF FrameNotStored
  <2> QED
    BY <2>1, <2>2, <2>3, <2>4
<1>4. GoodFrames' = GoodFrames
  <2>1. \A f \in Frame : f \in GoodFrames' <=> f \in GoodFrames
    BY <1>3 DEF GoodFrames
  <2>2. GoodFrames' \subseteq Frame /\ GoodFrames \subseteq Frame
    BY DEF GoodFrames
  <2> QED
    BY <2>1, <2>2
<1>5. SeenInv'
  BY <1>1, <1>2 DEF BusInv, SeenInv
<1>6. OrderInv'
  BY <1>1, <1>2 DEF BusInv, OrderInv, Precedes
<1> QED
  BY <1>4, <1>5, <1>6

\* ... keeps the invariant if every frame it leaves is a good one, each event stays where
\* it was or its publish() is done with, and nobody forgets to go on draining.
LEMMA QuietKeeps ==
  ASSUME BusInv, Quiet, subs' = subs,
         buffer' \in [Id -> Seq(Id)], replies' \in [Id -> Seq(Id)],
         raised \subseteq raised', raised' \subseteq 0 .. MaxEvents,
         NEW t \in Threads, NEW r \in Seq(GoodFrames), stack' = [stack EXCEPT ![t] = r],
         \A e \in Id : ~Capturing(t, e),
         \A i \in 1 .. Len(r) :
           \/ published[r[i]] = 0
           \/ i \in 1 .. Len(stack[t]) /\ published[r[i]] = published[stack[t][i]],
         \A i \in 1 .. Len(r) :
           \/ delivered[r[i]] = 0
           \/ i \in 1 .. Len(stack[t]) /\ delivered[r[i]] = delivered[stack[t][i]],
         \A i \in 1 .. Len(stack[t]) :
           \/ published[stack[t][i]] \in {0} \cup raised'
           \/ i \in 1 .. Len(r) /\ published[r[i]] = published[stack[t][i]],
         raised' = {} /\ heap # {} =>
           \A i \in 1 .. Len(stack[t]) :
             stack[t][i].pc = "drain" => i \in 1 .. Len(r) /\ r[i].pc = "drain"
  PROVE  BusInv'
<1>1. /\ autoFlush' = autoFlush /\ events' = events /\ heap' = heap /\ store' = store
      /\ received' = received /\ overlap' = overlap /\ got' = got
  BY DEF Quiet
<1>2. GoodFrames' = GoodFrames /\ SeenInv' /\ OrderInv'
  BY QuietStays
<1>3. stack \in [Threads -> Seq(GoodFrames)] /\ stack \in [Threads -> Seq(Frame)]
  BY StackTyped DEF BusInv, StackInv
<1>4. r \in Seq(Frame)
  <2>1. \A i \in 1 .. Len(r) : r[i] \in Frame
    BY ElementOfSeq DEF GoodFrames
  <2> QED
    BY <2>1, SequenceOf
<1>5. \A u \in Threads : stack'[u] = IF u = t THEN r ELSE stack[u]
  BY <1>3
<1>6. StackInv'
  <2>1. stack' \in [Threads -> Seq(GoodFrames)]
    BY <1>3
  <2>2. Alone(published, stack) /\ Alone(delivered, stack)
    BY DEF BusInv, StackInv
  <2>7. Inherits(published, stack, t, r, 0) /\ Inherits(delivered, stack, t, r, 0)
    BY DEF Inherits
  <2>3. Alone(published, [stack EXCEPT ![t] = r])
    BY <1>3, <1>4, <2>2, <2>7, AloneStays
  <2>4. Alone(delivered, [stack EXCEPT ![t] = r])
    BY <1>3, <1>4, <2>2, <2>7, AloneStays
  <2>5. Alone(published, stack') /\ Alone(delivered, stack')
    BY <2>3, <2>4
  <2>6. Alone(published, stack)' /\ Alone(delivered, stack)'
    BY <2>5 DEF Alone, published, delivered
  <2> QED
    BY <1>2, <2>1, <2>6 DEF StackInv
<1>7. BusTyped'
  BY <1>1 DEF BusInv, BusTyped
<1>8. StoredSomewhere'
  <2>1. SUFFICES ASSUME NEW e \in DOMAIN events, e \notin Members(store), e \notin raised'
                 PROVE  Tagged(published, stack', e)
    BY <1>1 DEF StoredSomewhere, published, Tagged
  <2>2. Tagged(published, stack, e)
    BY <2>1 DEF BusInv, StoredSomewhere, Tagged
  <2> DEFINE X == {0} \cup raised'
  <2>3. e \notin X
    BY <2>1, EventsTyped
  <2>4. \A i \in 1 .. Len(stack[t]) :
           published[stack[t][i]] \in X \/ (i \in 1 .. Len(r) /\ published[r[i]] = published[stack[t][i]])
    OBVIOUS
  <2> HIDE DEF X
  <2> QED
    BY <1>3, <1>4, <2>2, <2>3, <2>4, WitnessStays
<1>9. RoutedSomewhere'
  <2>1. SUFFICES ASSUME NEW e \in DOMAIN events, events[e].kind = "response",
                        e \notin heap, e \notin Members(got[events[e].corr])
                 PROVE  \E u \in Threads : Capturing(u, e)'
    BY <1>1 DEF RoutedSomewhere
  <2>2. PICK u \in Threads : Capturing(u, e)
    BY <2>1 DEF BusInv, RoutedSomewhere
  <2>3. e \in Id
    BY EventsTyped
  <2>4. u # t
    BY <2>2, <2>3
  <2>5. stack'[u] = stack[u]
    BY <1>5, <2>4
  <2>6. Capturing(u, e)'
    BY <2>2, <2>5 DEF Capturing, Inside, Now
  <2> QED
    BY <2>6
<1>10. Drained'
  <2>1. SUFFICES ASSUME autoFlush, raised' = {}, heap # {}
                 PROVE  \E u \in Threads : \E i \in 1 .. Len(stack'[u]) : stack'[u][i].pc = "drain"
    BY <1>1 DEF Drained
  <2>2. PICK u \in Threads : \E i \in 1 .. Len(stack[u]) : stack[u][i].pc = "drain"
    BY <2>1 DEF BusInv, Drained
  <2>3. PICK i \in 1 .. Len(stack[u]) : stack[u][i].pc = "drain"
    BY <2>2
  <2>4. i \in 1 .. Len(stack'[u]) /\ stack'[u][i].pc = "drain"
    BY <1>5, <2>1, <2>3
  <2> QED
    BY <2>4
<1> QED
  BY <1>2, <1>6, <1>7, <1>8, <1>9, <1>10 DEF BusInv

LEMMA BusStarts == Init => BusInv
<1> SUFFICES ASSUME Init PROVE BusInv
  OBVIOUS
<1>1. /\ autoFlush \in BOOLEAN /\ events = <<>> /\ heap = {} /\ subs = <<Capture>>
      /\ stack = [t \in Threads |-> <<>>]
      /\ buffer = [e \in Id |-> <<>>] /\ replies = [e \in Id |-> <<>>]
      /\ store = <<>> /\ received = [h \in Handlers |-> <<>>] /\ raised = {} /\ overlap = FALSE
  BY DEF Init
<1>2. /\ <<>> \in Seq(Event) /\ <<>> \in Seq(Id) /\ <<>> \in Seq(GoodFrames)
      /\ Len(<<>>) = 0 /\ DOMAIN <<>> = {} /\ 1 .. 0 = {}
  BY EmptySeq
<1>3. got = [r \in Id |-> <<>>] /\ Popped = {}
  BY <1>1, <1>2 DEF got, Popped
<1>4. BusTyped
  <2>1. <<Capture>> \in Seq(Handlers \cup {Capture}) /\ Len(<<Capture>>) = 1 /\ <<Capture>>[1] = Capture
    OBVIOUS
  <2>2. Once(subs) /\ subs \in Seq(Handlers \cup {Capture}) /\ Len(subs) >= 1 /\ subs[1] = Capture
    BY <1>1, <2>1 DEF Once
  <2>3. Len(events) <= MaxEvents
    BY <1>1, <1>2, BoundAssumption
  <2> QED
    BY <1>1, <1>2, <2>2, <2>3 DEF BusTyped
<1>5. StackInv
  BY <1>1, <1>2 DEF StackInv, Alone
<1>6. SeenInv
  BY <1>1, <1>2, <1>3, NoMembers DEF SeenInv
<1>7. StoredSomewhere /\ RoutedSomewhere /\ Drained
  BY <1>1, <1>2 DEF StoredSomewhere, RoutedSomewhere, Drained
<1>8. OrderInv
  BY <1>1, <1>2, <1>3 DEF OrderInv
<1> QED
  BY <1>4, <1>5, <1>6, <1>7, <1>8 DEF BusInv

-----------------------------------------------------------------------------
(* The quiet steps                                                         *)

\* The innermost method goes on as g.
LEMMA QuietBecomes ==
  ASSUME BusInv, Quiet, subs' = subs, raised' = raised,
         buffer' \in [Id -> Seq(Id)], replies' \in [Id -> Seq(Id)],
         NEW t \in Threads, stack[t] # <<>>, NEW g \in GoodFrames, Become(t, g),
         published[g] = published[Now(t)], delivered[g] = delivered[Now(t)],
         Now(t).pc = "drain" => heap = {},
         \A e \in Id : ~Capturing(t, e)
  PROVE  BusInv'
<1> DEFINE r == Append(Front(stack[t]), g)
<1>1. /\ r \in Seq(GoodFrames) /\ Len(r) = Len(stack[t])
      /\ \A i \in 1 .. Len(stack[t]) - 1 : r[i] = stack[t][i]
      /\ r[Len(stack[t])] = g
  BY StackTyped, LastReplaced
<1>2. Len(stack[t]) \in Nat \ {0} /\ Now(t) = stack[t][Len(stack[t])]
  BY StackTyped
<1>3. stack' = [stack EXCEPT ![t] = r]
  BY DEF Become
<1> HIDE DEF r
<1>4. ASSUME NEW i \in 1 .. Len(stack[t])
      PROVE  r[i] = stack[t][i] \/ (r[i] = g /\ stack[t][i] = Now(t))
  <2>1. i \in 1 .. Len(stack[t]) - 1 \/ i = Len(stack[t])
    BY <1>2
  <2> QED
    BY <1>1, <1>2, <2>1
<1>5. \A i \in 1 .. Len(stack[t]) :
        published[r[i]] = published[stack[t][i]] /\ delivered[r[i]] = delivered[stack[t][i]]
  BY <1>4
<1>6. heap # {} => \A i \in 1 .. Len(stack[t]) : stack[t][i].pc = "drain" => r[i].pc = "drain"
  BY <1>4
<1>7. raised' \subseteq 0 .. MaxEvents
  BY DEF BusInv, BusTyped
<1> QED
  BY <1>1, <1>3, <1>5, <1>6, <1>7, QuietKeeps

\* The innermost method returns.
LEMMA QuietLeaves ==
  ASSUME BusInv, Quiet, subs' = subs, raised' = raised,
         buffer' \in [Id -> Seq(Id)], replies' \in [Id -> Seq(Id)],
         NEW t \in Threads, stack[t] # <<>>, Leave(t),
         published[Now(t)] = 0,
         Now(t).pc = "drain" => heap = {},
         \A e \in Id : ~Capturing(t, e)
  PROVE  BusInv'
<1> DEFINE r == Front(stack[t])
<1>0. stack[t] \in Seq(GoodFrames)
  BY StackTyped
<1>1. /\ r \in Seq(GoodFrames) /\ Len(r) = Len(stack[t]) - 1
      /\ \A i \in 1 .. Len(stack[t]) - 1 : r[i] = stack[t][i]
  BY <1>0, FrontLeft
<1>2. Len(stack[t]) \in Nat \ {0} /\ Now(t) = stack[t][Len(stack[t])]
  BY StackTyped
<1>3. stack' = [stack EXCEPT ![t] = r]
  BY DEF Leave
<1> HIDE DEF r
<1>4. \A i \in 1 .. Len(r) : i \in 1 .. Len(stack[t]) /\ r[i] = stack[t][i]
  BY <1>1, <1>2
<1>5. \A i \in 1 .. Len(stack[t]) : (i \in 1 .. Len(r) /\ r[i] = stack[t][i]) \/ stack[t][i] = Now(t)
  BY <1>1, <1>2
<1>6. /\ \A i \in 1 .. Len(r) : /\ i \in 1 .. Len(stack[t]) /\ published[r[i]] = published[stack[t][i]]
                                /\ delivered[r[i]] = delivered[stack[t][i]]
      /\ \A i \in 1 .. Len(stack[t]) :
           \/ published[stack[t][i]] = 0
           \/ i \in 1 .. Len(r) /\ published[r[i]] = published[stack[t][i]]
  BY <1>4, <1>5
<1>7. heap # {} => \A i \in 1 .. Len(stack[t]) :
                     stack[t][i].pc = "drain" => i \in 1 .. Len(r) /\ r[i].pc = "drain"
  BY <1>5
<1>8. raised' \subseteq 0 .. MaxEvents
  BY DEF BusInv, BusTyped
<1> QED
  BY <1>1, <1>3, <1>6, <1>7, <1>8, QuietKeeps

\* A method that neither publishes nor delivers is a good frame.
LEMMA PlainIsGood ==
  ASSUME BusInv, NEW pc \in {"drain", "store", "wait", "take", "done"}, NEW e \in 0 .. MaxEvents,
         FrameTyped(In(pc, e)), pc \in {"drain", "store"} => e \notin Members(store)
  PROVE  /\ In(pc, e) \in GoodFrames /\ delivered[In(pc, e)] = 0
         /\ published[In(pc, e)] = IF pc \in {"drain", "store"} THEN e ELSE 0
<1>1. In(pc, e) \in Frame /\ In(pc, e).pc = pc /\ In(pc, e).ev = e
  BY PlainFrame
<1>2. pc \notin {"deliver", "handle"}
  OBVIOUS
<1>3. FrameDelivers(In(pc, e)) /\ FrameOrdered(In(pc, e)) /\ FrameNotStored(In(pc, e))
  BY <1>1, <1>2 DEF FrameDelivers, FrameOrdered, FrameNotStored
<1> QED
  BY <1>1, <1>2, <1>3, Tags DEF GoodFrames

\* Nothing is captured by a method that delivers nothing.
LEMMA NotCapturing ==
  ASSUME NEW t \in Threads, ~Inside(t, "deliver") \/ Capture \notin Members(Now(t).rest)
  PROVE  \A e \in Id : ~Capturing(t, e)
  BY DEF Capturing

LEMMA GoodParts ==
  ASSUME NEW f \in GoodFrames
  PROVE  f \in Frame /\ FrameTyped(f) /\ FrameDelivers(f) /\ FrameOrdered(f) /\ FrameNotStored(f)
  BY DEF GoodFrames

\* A handler that is done leaves a delivery that goes on.
LEMMA HandledIsGood ==
  ASSUME BusInv, NEW f \in GoodFrames, f.pc = "handle"
  PROVE  /\ [f EXCEPT !.pc = "deliver"] \in GoodFrames
         /\ published[[f EXCEPT !.pc = "deliver"]] = published[f]
         /\ delivered[[f EXCEPT !.pc = "deliver"]] = delivered[f]
         /\ [f EXCEPT !.pc = "deliver"].pc = "deliver"
<1> DEFINE g == [f EXCEPT !.pc = "deliver"]
<1>1. f \in Frame /\ FrameTyped(f) /\ FrameDelivers(f) /\ FrameOrdered(f)
  BY GoodParts
<1>2. g \in Frame /\ g.pc = "deliver" /\ g.ev = f.ev /\ g.rest = f.rest
  BY <1>1 DEF Frame
<1> HIDE DEF g
<1>3. Capture \notin Members(f.rest)
  BY <1>1 DEF FrameDelivers
<1>4. FrameTyped(g)
  BY <1>1, <1>2 DEF FrameTyped
<1>5. FrameDelivers(g)
  BY <1>1, <1>2, <1>3 DEF FrameDelivers
<1>6. FrameOrdered(g) /\ FrameNotStored(g)
  BY <1>1, <1>2 DEF FrameOrdered, FrameNotStored
<1>7. published[g] = published[f] /\ delivered[g] = delivered[f]
  BY <1>1, <1>2, Tags
<1>8. g \in GoodFrames
  BY <1>2, <1>4, <1>5, <1>6 DEF GoodFrames
<1> QED
  BY <1>2, <1>7, <1>8 DEF g

LEMMA UnchangedIsQuiet ==
  ASSUME BusInv, UNCHANGED <<autoFlush, events, heap, store, received, overlap, buffer, replies>>
  PROVE  Quiet /\ buffer' \in [Id -> Seq(Id)] /\ replies' \in [Id -> Seq(Id)]
<1>1. got' = got
  BY DEF got
<1> QED
  BY <1>1 DEF Quiet, BusInv, BusTyped

LEMMA DrainEmptyKeeps ==
  ASSUME BusInv, NEW t \in Threads, DrainEmpty(t)
  PROVE  BusInv'
<1>1. /\ Quiet /\ subs' = subs /\ raised' = raised
      /\ buffer' \in [Id -> Seq(Id)] /\ replies' \in [Id -> Seq(Id)]
  BY UnchangedIsQuiet DEF DrainEmpty, ghosts
<1>2. stack[t] # <<>> /\ Now(t).pc = "drain" /\ heap = {}
  BY DEF DrainEmpty, Inside, Now
<1>3. Now(t) \in GoodFrames
  BY <1>2, StackTyped
<1>4. Now(t) \in Frame /\ FrameTyped(Now(t)) /\ FrameNotStored(Now(t))
  BY <1>3, GoodParts
<1>5. \A e \in Id : ~Capturing(t, e)
  BY <1>2, NotCapturing DEF Inside, Now
<1>6. published[Now(t)] = Now(t).ev /\ delivered[Now(t)] = 0 /\ Now(t).ev \in 0 .. MaxEvents
  BY <1>2, <1>4, Tags
<1>7. CASE Now(t).ev = 0
  <2>1. Leave(t)
    BY <1>7 DEF DrainEmpty
  <2> QED
    BY <1>1, <1>2, <1>5, <1>6, <1>7, <2>1, QuietLeaves
<1>8. CASE Now(t).ev # 0
  <2>1. Become(t, In("store", Now(t).ev))
    BY <1>8 DEF DrainEmpty
  <2>2. FrameTyped(In("store", Now(t).ev)) /\ Now(t).ev \notin Members(store)
    BY <1>2, <1>4, <1>8 DEF FrameTyped, FrameNotStored, In
  <2>3. /\ In("store", Now(t).ev) \in GoodFrames
        /\ published[In("store", Now(t).ev)] = Now(t).ev /\ delivered[In("store", Now(t).ev)] = 0
    BY <1>6, <2>2, PlainIsGood
  <2> DEFINE g == In("store", Now(t).ev)
  <2>4. g \in GoodFrames /\ published[g] = published[Now(t)] /\ delivered[g] = delivered[Now(t)] /\ Become(t, g)
    BY <1>6, <2>1, <2>3
  <2> HIDE DEF g
  <2> QED
    BY <1>1, <1>2, <1>5, <2>4, QuietBecomes
<1> QED
  BY <1>7, <1>8

LEMMA DeliverEndsKeeps ==
  ASSUME BusInv, NEW t \in Threads, DeliverEnds(t)
  PROVE  BusInv'
<1>1. /\ Quiet /\ subs' = subs /\ raised' = raised
      /\ buffer' \in [Id -> Seq(Id)] /\ replies' \in [Id -> Seq(Id)]
  BY UnchangedIsQuiet DEF DeliverEnds, ghosts
<1>2. stack[t] # <<>> /\ Now(t).pc = "deliver" /\ Now(t).rest = <<>> /\ Leave(t)
  BY DEF DeliverEnds, Inside, Now
<1>3. Now(t) \in Frame
  BY <1>2, StackTyped
<1>4. Capture \notin Members(Now(t).rest)
  BY <1>2, NoMembers
<1>5. published[Now(t)] = 0
  BY <1>2, <1>3, Tags
<1> QED
  BY <1>1, <1>2, <1>4, <1>5, NotCapturing, QuietLeaves

LEMMA HandlerEndsKeeps ==
  ASSUME BusInv, NEW t \in Threads, HandlerEnds(t)
  PROVE  BusInv'
<1>1. /\ Quiet /\ subs' = subs /\ raised' = raised
      /\ buffer' \in [Id -> Seq(Id)] /\ replies' \in [Id -> Seq(Id)]
  BY UnchangedIsQuiet DEF HandlerEnds, ghosts
<1> DEFINE f == Now(t)
           g == [f EXCEPT !.pc = "deliver"]
<1>2. stack[t] # <<>> /\ f.pc = "handle" /\ Become(t, g)
  BY DEF HandlerEnds, Inside, Now
<1>3. f \in GoodFrames
  BY <1>2, StackTyped
<1>4. g \in GoodFrames /\ published[g] = published[f] /\ delivered[g] = delivered[f]
  BY <1>2, <1>3, HandledIsGood
<1>5. ~Inside(t, "deliver")
  BY <1>2 DEF Inside, Now
<1>6. \A e \in Id : ~Capturing(t, e)
  BY <1>5, NotCapturing
<1>7. published[g] = published[Now(t)] /\ delivered[g] = delivered[Now(t)] /\ Now(t).pc # "drain"
  BY <1>2, <1>4
<1> HIDE DEF g, f
<1> QED
  BY <1>1, <1>2, <1>4, <1>6, <1>7, QuietBecomes

LEMMA FlushKeeps ==
  ASSUME BusInv, NEW t \in Threads, Flush(t)
  PROVE  BusInv'
<1>1. /\ Quiet /\ subs' = subs /\ raised' = raised
      /\ buffer' \in [Id -> Seq(Id)] /\ replies' \in [Id -> Seq(Id)]
  BY UnchangedIsQuiet DEF Flush, ghosts
<1> DEFINE f == In("drain", 0)
           r == stack[t] \o <<f>>
<1>2. f \in GoodFrames /\ published[f] = 0 /\ delivered[f] = 0
  <2>1. FrameTyped(f)
    BY DEF FrameTyped, In
  <2>2. 0 \notin Members(store)
    BY EventsTyped DEF BusInv, SeenInv
  <2>3. 0 \in 0 .. MaxEvents
    BY BoundAssumption
  <2> QED
    BY <2>1, <2>2, <2>3, PlainIsGood
<1>3. stack' = [stack EXCEPT ![t] = r]
  BY DEF Flush, Enter
<1>4. stack[t] \in Seq(GoodFrames)
  BY StackTyped
<1> HIDE DEF f
<1>5. /\ r \in Seq(GoodFrames) /\ Len(r) = Len(stack[t]) + 1
      /\ \A i \in 1 .. Len(stack[t]) : r[i] = stack[t][i]
      /\ r[Len(stack[t]) + 1] = f
  BY <1>2, <1>4, OneEntered
<1> HIDE DEF r
<1>6. \A i \in 1 .. Len(r) : i \in 1 .. Len(stack[t]) \/ i = Len(stack[t]) + 1
  BY <1>4, <1>5
<1>7. \A i \in 1 .. Len(stack[t]) : i \in 1 .. Len(r)
  BY <1>4, <1>5
<1>8. ~Inside(t, "deliver")
  BY DEF Flush, May, Inside
<1>9. \A e \in Id : ~Capturing(t, e)
  BY <1>8, NotCapturing
<1>10. raised' \subseteq 0 .. MaxEvents
  BY <1>1 DEF BusInv, BusTyped
<1>11. \A i \in 1 .. Len(r) : /\ published[r[i]] = 0 \/ (i \in 1 .. Len(stack[t]) /\ published[r[i]] = published[stack[t][i]])
                              /\ delivered[r[i]] = 0 \/ (i \in 1 .. Len(stack[t]) /\ delivered[r[i]] = delivered[stack[t][i]])
  BY <1>2, <1>5, <1>6
<1> QED
  BY <1>1, <1>3, <1>5, <1>7, <1>9, <1>10, <1>11, QuietKeeps

\* The loop of request() flushes.
LEMMA RequestFlushKeeps ==
  ASSUME BusInv, NEW t \in Threads, RequestFlush(t)
  PROVE  BusInv'
<1>1. /\ Quiet /\ subs' = subs /\ raised' = raised
      /\ buffer' \in [Id -> Seq(Id)] /\ replies' \in [Id -> Seq(Id)]
  BY UnchangedIsQuiet DEF RequestFlush, ghosts
<1> DEFINE f == In("take", Now(t).ev)
           g == In("drain", 0)
           q == <<f, g>>
           r == Front(stack[t]) \o q
<1>2. stack[t] # <<>> /\ Now(t).pc = "wait"
  BY DEF RequestFlush, Inside, Now
<1>3. Now(t) \in GoodFrames /\ Now(t) \in Frame /\ FrameTyped(Now(t))
  BY <1>2, StackTyped, GoodParts
<1>4. f \in GoodFrames /\ published[f] = 0 /\ delivered[f] = 0
  <2>1. FrameTyped(f)
    BY <1>2, <1>3 DEF FrameTyped, In
  <2>2. Now(t).ev \in 0 .. MaxEvents
    BY <1>3, Tags
  <2> QED
    BY <2>1, <2>2, PlainIsGood
<1>5. g \in GoodFrames /\ published[g] = 0 /\ delivered[g] = 0
  <2>1. FrameTyped(g)
    BY DEF FrameTyped, In
  <2>2. 0 \notin Members(store)
    BY EventsTyped DEF BusInv, SeenInv
  <2>3. 0 \in 0 .. MaxEvents
    BY BoundAssumption
  <2> QED
    BY <2>1, <2>2, <2>3, PlainIsGood
<1>6. stack' = [stack EXCEPT ![t] = r]
  BY DEF RequestFlush
<1>7. stack[t] \in Seq(GoodFrames) /\ Len(stack[t]) \in Nat \ {0} /\ Now(t) = stack[t][Len(stack[t])]
  BY <1>2, StackTyped
<1> HIDE DEF f, g
<1>7q. q \in Seq(GoodFrames) /\ Len(q) = 2 /\ q[1] = f /\ q[2] = g
  BY <1>4, <1>5
<1> HIDE DEF q
<1>8. /\ r \in Seq(GoodFrames) /\ Len(r) = Len(stack[t]) + 1
      /\ \A i \in 1 .. Len(stack[t]) - 1 : r[i] = stack[t][i]
      /\ r[Len(stack[t])] = f /\ r[Len(stack[t]) + 1] = g
  <2>1. /\ r \in Seq(GoodFrames) /\ Len(r) = Len(stack[t]) + 1
        /\ \A i \in 1 .. Len(stack[t]) - 1 : r[i] = stack[t][i]
        /\ r[Len(stack[t])] = q[1] /\ r[Len(stack[t]) + 1] = q[2]
    BY <1>2, <1>7, <1>7q, TwoForLast
  <2> QED
    BY <1>7q, <2>1
<1> HIDE DEF r
<1>9. \A i \in 1 .. Len(r) : i \in 1 .. Len(stack[t]) - 1 \/ i = Len(stack[t]) \/ i = Len(stack[t]) + 1
  BY <1>7, <1>8
<1>10. /\ \A i \in 1 .. Len(stack[t]) - 1 : i \in 1 .. Len(stack[t])
       /\ \A i \in 1 .. Len(stack[t]) : i \in 1 .. Len(r) /\ (i \in 1 .. Len(stack[t]) - 1 \/ i = Len(stack[t]))
  BY <1>7, <1>8
<1>11. ~Inside(t, "deliver")
  BY <1>2 DEF Inside, Now
<1>12. \A e \in Id : ~Capturing(t, e)
  BY <1>11, NotCapturing
<1>13. raised' \subseteq 0 .. MaxEvents
  BY <1>1 DEF BusInv, BusTyped
<1>14. \A i \in 1 .. Len(r) : /\ published[r[i]] = 0 \/ (i \in 1 .. Len(stack[t]) /\ published[r[i]] = published[stack[t][i]])
                              /\ delivered[r[i]] = 0 \/ (i \in 1 .. Len(stack[t]) /\ delivered[r[i]] = delivered[stack[t][i]])
  BY <1>4, <1>5, <1>8, <1>9, <1>10
<1>15. published[Now(t)] = 0
  BY <1>2, <1>3, Tags
<1>16. \A i \in 1 .. Len(stack[t]) :
         published[stack[t][i]] = 0 \/ (i \in 1 .. Len(r) /\ published[r[i]] = published[stack[t][i]])
  BY <1>7, <1>8, <1>10, <1>15
<1>17. \A i \in 1 .. Len(stack[t]) : stack[t][i].pc = "drain" => i \in 1 .. Len(r) /\ r[i].pc = "drain"
  BY <1>2, <1>7, <1>8, <1>10
<1> QED
  BY <1>1, <1>6, <1>8, <1>12, <1>13, <1>14, <1>16, <1>17, QuietKeeps

\* What a request takes out of the buffer it has.
LEMMA TakingIsQuiet ==
  ASSUME BusInv, NEW r \in Id, TakeResponses(r),
         UNCHANGED <<autoFlush, events, heap, store, received, overlap>>
  PROVE  Quiet /\ buffer' \in [Id -> Seq(Id)] /\ replies' \in [Id -> Seq(Id)]
<1>1. buffer \in [Id -> Seq(Id)] /\ replies \in [Id -> Seq(Id)] /\ <<>> \in Seq(Id)
  BY EmptySeq DEF BusInv, BusTyped
<1>2. /\ replies' = [replies EXCEPT ![r] = @ \o buffer[r]]
      /\ buffer' = [buffer EXCEPT ![r] = <<>>]
  BY DEF TakeResponses
<1>3. replies[r] \o buffer[r] \in Seq(Id)
  BY <1>1, ConcatProperties
<1>4. buffer' \in [Id -> Seq(Id)] /\ replies' \in [Id -> Seq(Id)]
  BY <1>1, <1>2, <1>3
<1>5. \A q \in Id : replies'[q] \o buffer'[q] = replies[q] \o buffer[q]
  <2>1. TAKE q \in Id
  <2>2. CASE q = r
    <3>1. replies'[q] = replies[r] \o buffer[r] /\ buffer'[q] = <<>>
      BY <1>1, <1>2, <2>2
    <3>2. (replies[r] \o buffer[r]) \o <<>> = replies[r] \o buffer[r]
      BY <1>3, ConcatEmptySeq
    <3> QED
      BY <2>2, <3>1, <3>2
  <2>3. CASE q # r
    BY <1>1, <1>2, <2>3
  <2> QED
    BY <2>2, <2>3
<1>6. got' = got
  BY <1>5 DEF got
<1> QED
  BY <1>4, <1>6 DEF Quiet

LEMMA RequestEndsKeep ==
  ASSUME BusInv, NEW t \in Threads, RequestTimesOut(t) \/ RequestTakes(t) \/ RequestReturns(t)
  PROVE  BusInv'
<1>1. /\ stack[t] # <<>> /\ Now(t).pc \in {"wait", "take", "done"} /\ subs' = subs /\ raised' = raised
  BY DEF RequestTimesOut, RequestTakes, RequestReturns, Inside, Now, ghosts
<1>2. Now(t) \in GoodFrames /\ Now(t) \in Frame /\ FrameTyped(Now(t))
  BY <1>1, StackTyped, GoodParts
<1>3. Now(t).ev \in Id /\ Now(t).ev \in DOMAIN events /\ Now(t).ev \in 0 .. MaxEvents
  <2>1. Now(t).ev \in DOMAIN events /\ Now(t).ev \in 0 .. MaxEvents
    BY <1>1, <1>2, Tags DEF FrameTyped
  <2> QED
    BY <2>1, EventsTyped
<1>4. Quiet /\ buffer' \in [Id -> Seq(Id)] /\ replies' \in [Id -> Seq(Id)]
  <2>1. CASE RequestTimesOut(t)
    BY <2>1, UnchangedIsQuiet DEF RequestTimesOut, ghosts
  <2>2. CASE RequestTakes(t) \/ RequestReturns(t)
    <3>1. TakeResponses(Now(t).ev) /\ UNCHANGED <<autoFlush, events, heap, store, received, overlap>>
      BY <2>2 DEF RequestTakes, RequestReturns, ghosts
    <3> QED
      BY <1>3, <3>1, TakingIsQuiet
  <2> QED
    BY <2>1, <2>2
<1>5. published[Now(t)] = 0 /\ delivered[Now(t)] = 0
  BY <1>1, <1>2, Tags
<1>6. ~Inside(t, "deliver")
  BY <1>1 DEF Inside, Now
<1>7. \A e \in Id : ~Capturing(t, e)
  BY <1>6, NotCapturing
<1>8. CASE RequestReturns(t)
  <2>1. Leave(t) /\ Now(t).pc # "drain"
    BY <1>1, <1>8 DEF RequestReturns
  <2> QED
    BY <1>1, <1>4, <1>5, <1>7, <2>1, QuietLeaves
<1>9. CASE RequestTimesOut(t) \/ RequestTakes(t)
  <2>1. PICK pc \in {"wait", "done"} : Become(t, In(pc, Now(t).ev))
    BY <1>9 DEF RequestTimesOut, RequestTakes
  <2> DEFINE g == In(pc, Now(t).ev)
  <2>2. FrameTyped(g)
    BY <1>1, <1>2, <2>1 DEF FrameTyped, In
  <2>3. g \in GoodFrames /\ published[g] = 0 /\ delivered[g] = 0
    BY <1>3, <2>1, <2>2, PlainIsGood
  <2>4. Become(t, g) /\ published[g] = published[Now(t)] /\ delivered[g] = delivered[Now(t)]
        /\ Now(t).pc # "drain"
    BY <1>1, <1>5, <2>1, <2>3
  <2> HIDE DEF g
  <2> QED
    BY <1>1, <1>4, <1>7, <2>3, <2>4, QuietBecomes
<1> QED
  BY <1>8, <1>9

-----------------------------------------------------------------------------
(* A filter that raises                                                    *)

\* Every nonempty set of positions has a last one.
LEMMA LastOne ==
  ASSUME NEW N \in Nat, NEW P \in SUBSET (1 .. N), P # {}
  PROVE  \E top \in P : \A j \in P : j <= top
<1> DEFINE T == {N - i : i \in P}
<1>1. T \in SUBSET Nat /\ T # {}
  <2>1. \A i \in 1 .. N : N - i \in Nat
    OBVIOUS
  <2>2. \A i \in P : N - i \in Nat
    BY <2>1
  <2> QED
    BY <2>2
<1>2. PICK n \in T : \A m \in T : n <= m
  BY <1>1, LeastElement
<1>3. PICK top \in P : n = N - top
  BY <1>2
<1>4. \A j \in P : n <= N - j
  BY <1>2
<1>5. \A j \in P : j <= top
  BY <1>3, <1>4
<1> QED
  BY <1>5

\* What is left of a stack stands where it stood; only the innermost handler's delivery
\* goes on.
LEMMA UnwoundShape ==
  ASSUME NEW s \in Seq(Frame)
  PROVE  /\ Unwound(s) \in Seq(Frame) /\ Len(Unwound(s)) \in 0 .. Len(s)
         /\ \A i \in 1 .. Len(Unwound(s)) :
              \/ Unwound(s)[i] = s[i]
              \/ s[i].pc = "handle" /\ Unwound(s)[i] = [s[i] EXCEPT !.pc = "deliver"]
<1> DEFINE hs == {i \in DOMAIN s : s[i].pc = "handle"}
           top == CHOOSE i \in hs : \A j \in hs : j <= i
           u == SubSeq(s, 1, top)
<1>1. Unwound(s) = IF hs = {} THEN <<>> ELSE [u EXCEPT ![top].pc = "deliver"]
  BY DEF Unwound
<1>2. Len(s) \in Nat /\ DOMAIN s = 1 .. Len(s) /\ \A i \in 1 .. Len(s) : s[i] \in Frame
  BY LenProperties, ElementOfSeq
<1>3. CASE hs = {}
  <2>1. Unwound(s) = <<>> /\ <<>> \in Seq(Frame) /\ Len(<<>>) = 0 /\ 1 .. 0 = {}
    BY <1>1, <1>3, EmptySeq
  <2> QED
    BY <1>2, <2>1
<1>4. CASE hs # {}
  <2>1. hs \in SUBSET (1 .. Len(s))
    BY <1>2
  <2>2. \E i \in hs : \A j \in hs : j <= i
    BY <1>2, <1>4, <2>1, LastOne
  <2>3. top \in hs
    BY <2>2
  <2>4. top \in 1 .. Len(s) /\ s[top].pc = "handle"
    BY <2>1, <2>3
  <2> HIDE DEF top
  <2>5. 1 \in 1 .. Len(s) + 1 /\ top \in 1 - 1 .. Len(s) /\ top - 1 + 1 = top /\ 1 <= top
    BY <1>2, <2>4
  <2>6. u \in Seq(Frame) /\ Len(u) = top /\ \A i \in 1 .. top : u[i] = s[i]
    BY <1>2, <2>4, <2>5, SubSeqProperties
  <2> HIDE DEF u
  <2> DEFINE g == [s[top] EXCEPT !.pc = "deliver"]
             w == [u EXCEPT ![top] = g]
  <2>7. g \in Frame
    <3>1. s[top] \in Frame
      BY <1>2, <2>4
    <3> QED
      BY <3>1 DEF Frame
  <2>8. Unwound(s) = w
    <3>1. u[top] = s[top] /\ Unwound(s) = [u EXCEPT ![top] = [u[top] EXCEPT !.pc = "deliver"]]
      BY <1>1, <1>4, <2>4, <2>6
    <3> QED
      BY <3>1
  <2> HIDE DEF g
  <2>9. top \in 1 .. Len(u)
    BY <2>4, <2>6
  <2>10. /\ w \in Seq(Frame) /\ Len(w) = Len(u)
         /\ \A i \in 1 .. Len(u) : w[i] = IF i = top THEN g ELSE u[i]
    BY <2>6, <2>7, <2>9, ExceptSeq
  <2> HIDE DEF w
  <2>11. Len(w) \in 0 .. Len(s)
    BY <1>2, <2>4, <2>6, <2>10
  <2>12. \A i \in 1 .. Len(w) : w[i] = s[i] \/ (s[i].pc = "handle" /\ w[i] = [s[i] EXCEPT !.pc = "deliver"])
    BY <2>4, <2>6, <2>10 DEF g
  <2> QED
    BY <2>8, <2>10, <2>11, <2>12
<1> QED
  BY <1>3, <1>4

LEMMA FilterRaisesKeeps ==
  ASSUME BusInv, NEW t \in Threads, FilterRaises(t)
  PROVE  BusInv'
<1>1. /\ Quiet /\ subs' = subs
      /\ buffer' \in [Id -> Seq(Id)] /\ replies' \in [Id -> Seq(Id)]
  BY UnchangedIsQuiet DEF FilterRaises
<1> DEFINE s == stack[t]
           r == Unwound(s)
           X == Publishing(s, Len(r) + 1)
<1>2. /\ stack[t] # <<>> /\ Now(t).pc = "deliver" /\ Now(t).rest # <<>> /\ Head(Now(t).rest) # Capture
      /\ stack' = [stack EXCEPT ![t] = r] /\ raised' = raised \cup X
  BY CaptureAssumption, PickyAssumption DEF FilterRaises, Inside, Now
<1>3. /\ s \in Seq(Frame) /\ Len(s) \in Nat /\ \A i \in 1 .. Len(s) : s[i] \in GoodFrames /\ s[i] \in Frame
  <2>1. s \in Seq(Frame) /\ \A i \in 1 .. Len(s) : s[i] \in GoodFrames
    BY StackTyped
  <2> QED
    BY <2>1, GoodParts, LenProperties
<1> HIDE DEF s
<1>4. /\ r \in Seq(Frame) /\ Len(r) \in 0 .. Len(s)
      /\ \A i \in 1 .. Len(r) : r[i] = s[i] \/ (s[i].pc = "handle" /\ r[i] = [s[i] EXCEPT !.pc = "deliver"])
  BY <1>3, UnwoundShape
<1>5. X = {s[i].ev : i \in {j \in Len(r) + 1 .. Len(s) : s[j].pc \in {"drain", "store"}}}
  BY DEF Publishing
<1> HIDE DEF r
<1>6. \A i \in 1 .. Len(r) : i \in 1 .. Len(s)
  BY <1>3, <1>4
<1>7. \A i \in 1 .. Len(s) : i \in 1 .. Len(r) \/ i \in Len(r) + 1 .. Len(s)
  BY <1>3, <1>4
<1>8. ASSUME NEW i \in 1 .. Len(r)
      PROVE  /\ r[i] \in GoodFrames /\ published[r[i]] = published[s[i]] /\ delivered[r[i]] = delivered[s[i]]
             /\ s[i].pc = "drain" => r[i].pc = "drain"
  <2>1. s[i] \in GoodFrames
    BY <1>3, <1>6
  <2>2. CASE r[i] = s[i]
    BY <2>1, <2>2
  <2>3. CASE s[i].pc = "handle" /\ r[i] = [s[i] EXCEPT !.pc = "deliver"]
    <3> DEFINE f == s[i]
    <3>1. f \in GoodFrames /\ f.pc = "handle" /\ r[i] = [f EXCEPT !.pc = "deliver"]
      BY <2>1, <2>3
    <3> HIDE DEF f
    <3>2. r[i] \in GoodFrames /\ published[r[i]] = published[f] /\ delivered[r[i]] = delivered[f]
      BY <3>1, HandledIsGood
    <3> QED
      BY <2>3, <3>2 DEF f
  <2> QED
    BY <1>4, <2>2, <2>3
<1>9. \A i \in Len(r) + 1 .. Len(s) : published[s[i]] \in {0} \cup X /\ (s[i].pc = "drain" => X # {})
  <2>1. TAKE i \in Len(r) + 1 .. Len(s)
  <2>2. i \in 1 .. Len(s)
    BY <1>3, <1>4
  <2>3. s[i] \in Frame
    BY <1>3, <2>2
  <2>4. published[s[i]] = IF s[i].pc \in {"drain", "store"} THEN s[i].ev ELSE 0
    BY <2>3, Tags
  <2>5. s[i].pc \in {"drain", "store"} => s[i].ev \in X
    BY <1>5
  <2> QED
    BY <2>4, <2>5
<1>10. raised' \subseteq 0 .. MaxEvents
  <2>1. \A i \in Len(r) + 1 .. Len(s) : s[i].ev \in 0 .. MaxEvents
    <3>1. TAKE i \in Len(r) + 1 .. Len(s)
    <3>2. i \in 1 .. Len(s)
      BY <1>3, <1>4
    <3> QED
      BY <1>3, <3>2, Tags
  <2>2. X \subseteq 0 .. MaxEvents
    BY <1>5, <2>1
  <2> QED
    BY <1>2, <2>2 DEF BusInv, BusTyped
<1> HIDE DEF X
<1>11. r \in Seq(GoodFrames)
  BY <1>4, <1>8, SequenceOf
<1>12. Capture \notin Members(Now(t).rest)
  <2>1. Now(t) \in GoodFrames
    BY <1>2, StackTyped
  <2>2. FrameDelivers(Now(t))
    BY <2>1, GoodParts
  <2> QED
    BY <1>2, <2>2 DEF FrameDelivers
<1>13. \A e \in Id : ~Capturing(t, e)
  BY <1>12, NotCapturing
<1>14. \A i \in 1 .. Len(s) : \/ published[s[i]] \in {0} \cup raised'
                              \/ i \in 1 .. Len(r) /\ published[r[i]] = published[s[i]]
  BY <1>2, <1>7, <1>8, <1>9
<1>15. raised' = {} => \A i \in 1 .. Len(s) : s[i].pc = "drain" => i \in 1 .. Len(r) /\ r[i].pc = "drain"
  BY <1>2, <1>7, <1>8, <1>9
<1>16. \A i \in 1 .. Len(r) : /\ i \in 1 .. Len(stack[t]) /\ published[r[i]] = published[stack[t][i]]
                              /\ delivered[r[i]] = delivered[stack[t][i]]
  BY <1>6, <1>8 DEF s
<1>17. /\ \A i \in 1 .. Len(stack[t]) : \/ published[stack[t][i]] \in {0} \cup raised'
                                        \/ i \in 1 .. Len(r) /\ published[r[i]] = published[stack[t][i]]
       /\ raised' = {} => \A i \in 1 .. Len(stack[t]) :
                            stack[t][i].pc = "drain" => i \in 1 .. Len(r) /\ r[i].pc = "drain"
  BY <1>14, <1>15 DEF s
<1>18. raised \subseteq raised' /\ stack' = [stack EXCEPT ![t] = r]
  BY <1>2
<1> QED
  BY <1>1, <1>10, <1>11, <1>13, <1>16, <1>17, <1>18, QuietKeeps

-----------------------------------------------------------------------------
(* The other steps                                                         *)

\* A stack is replaced by one of good frames, with the same events but for a new one.
LEMMA StackKeeps ==
  ASSUME BusInv, NEW t \in Threads, NEW r \in Seq(Frame), stack' = [stack EXCEPT ![t] = r],
         \A i \in 1 .. Len(r) : r[i] \in GoodFrames',
         \A u \in Threads \ {t} : \A i \in 1 .. Len(stack[u]) : stack[u][i] \in GoodFrames',
         NEW p, Inherits(published, stack, t, r, p), Inherits(delivered, stack, t, r, p)
  PROVE  StackInv' /\ \A u \in Threads : stack'[u] = IF u = t THEN r ELSE stack[u]
<1>1. stack \in [Threads -> Seq(Frame)]
  BY StackTyped
<1>2. \A u \in Threads : stack'[u] = IF u = t THEN r ELSE stack[u]
  BY <1>1
<1>3. stack' \in [Threads -> Seq(GoodFrames')]
  <2>1. r \in Seq(GoodFrames')
    BY SequenceOf
  <2>2. \A u \in Threads \ {t} : stack[u] \in Seq(GoodFrames')
    BY <1>1, SequenceOf
  <2>3. \A u \in Threads : stack'[u] \in Seq(GoodFrames')
    BY <1>2, <2>1, <2>2
  <2> QED
    BY <1>1, <2>3
<1>4. Alone(published, stack) /\ Alone(delivered, stack)
  BY DEF BusInv, StackInv
<1>5. Alone(published, [stack EXCEPT ![t] = r])
  BY <1>1, <1>4, AloneStays
<1>6. Alone(delivered, [stack EXCEPT ![t] = r])
  BY <1>1, <1>4, AloneStays
<1>7. Alone(published, stack') /\ Alone(delivered, stack')
  BY <1>5, <1>6
<1>8. Alone(published, stack)' /\ Alone(delivered, stack)'
  BY <1>7 DEF Alone, published, delivered
<1> QED
  BY <1>2, <1>3, <1>8 DEF StackInv

\* A subscription comes or goes.
LEMMA SubscriptionsKeep ==
  ASSUME BusInv, NEW t \in Threads, Subscribe(t) \/ Unsubscribe(t)
  PROVE  BusInv'
<1>1. /\ UNCHANGED <<autoFlush, events, heap, store, received, overlap, buffer, replies, stack, raised>>
  BY DEF Subscribe, Unsubscribe, ghosts
<1>2. Quiet
  BY <1>1, UnchangedIsQuiet
<1>3. GoodFrames' = GoodFrames /\ SeenInv' /\ OrderInv' /\ got' = got
  BY <1>2, QuietStays DEF Quiet
<1> DEFINE S == Handlers \cup {Capture}
<1>4. subs \in Seq(S) /\ Once(subs) /\ Len(subs) >= 1 /\ subs[1] = Capture /\ Len(subs) \in Nat
  BY LenProperties DEF BusInv, BusTyped
<1> HIDE DEF S
<1>5. subs' \in Seq(S) /\ Once(subs') /\ Len(subs') >= 1 /\ subs'[1] = Capture
  <2>1. CASE Subscribe(t)
    <3>1. PICK h \in Handlers \ Range(subs) : subs' = Append(subs, h)
      BY <2>1 DEF Subscribe
    <3>2. h \in S /\ h \notin Members(subs)
      <4>1. Members(subs) = {subs[i] : i \in DOMAIN subs}
        BY <1>4, MembersTyped
      <4> QED
        BY <3>1, <4>1 DEF S, Range
    <3>3. /\ Append(subs, h) \in Seq(S) /\ Len(Append(subs, h)) = Len(subs) + 1
          /\ \A i \in 1 .. Len(subs) : Append(subs, h)[i] = subs[i]
          /\ Once(Append(subs, h))
      BY <1>4, <3>2, AppendedMembers
    <3>4. 1 \in 1 .. Len(subs)
      BY <1>4
    <3> QED
      BY <1>4, <3>1, <3>3, <3>4
  <2>2. CASE Unsubscribe(t)
    <3>1. PICK h \in Handlers : subs' = Filtered(subs, (Handlers \cup {Capture}) \ {h})
      BY <2>2 DEF Unsubscribe
    <3> DEFINE T == (Handlers \cup {Capture}) \ {h}
    <3>2. Capture \in T
      BY CaptureAssumption
    <3> HIDE DEF T
    <3>3. /\ Filtered(subs, T) \in Seq(S) /\ Once(Filtered(subs, T))
          /\ Len(Filtered(subs, T)) >= 1 /\ Filtered(subs, T)[1] = Capture
      <4>1. 1 \in 1 .. Len(subs)
        BY <1>4
      <4> QED
        BY <1>4, <3>2, <4>1, KeptMembers, FilteredHead
    <3> QED
      BY <3>1, <3>3 DEF T
  <2> QED
    BY <2>1, <2>2
<1>6. BusTyped'
  BY <1>1, <1>5 DEF BusInv, BusTyped, S
<1>7. StackInv'
  BY <1>1, <1>3 DEF BusInv, StackInv, Alone, published, delivered
<1>8. StoredSomewhere' /\ Drained'
  BY <1>1 DEF BusInv, StoredSomewhere, Drained, published
<1>9. RoutedSomewhere'
  BY <1>1, <1>3 DEF BusInv, RoutedSomewhere, Capturing, Inside, Now
<1> QED
  BY <1>3, <1>6, <1>7, <1>8, <1>9 DEF BusInv

LEMMA StoreAppendKeeps ==
  ASSUME BusInv, NEW t \in Threads, StoreAppend(t)
  PROVE  BusInv'
<1>1. /\ autoFlush' = autoFlush /\ events' = events /\ heap' = heap /\ subs' = subs
      /\ buffer' = buffer /\ replies' = replies /\ received' = received /\ raised' = raised
      /\ overlap' = overlap /\ store' = Append(store, Now(t).ev)
      /\ stack[t] # <<>> /\ Now(t).pc = "store" /\ Leave(t)
  BY DEF StoreAppend, ghosts, Inside, Now
<1> DEFINE r == Front(stack[t])
           n == Len(stack[t])
           ev == Now(t).ev
<1>2. Now(t) \in GoodFrames /\ Now(t) = stack[t][n] /\ n \in Nat \ {0} /\ n \in 1 .. n
      /\ stack[t] \in Seq(GoodFrames) /\ stack[t] \in Seq(Frame)
  BY <1>1, StackTyped
<1>3. Now(t) \in Frame /\ FrameTyped(Now(t)) /\ FrameNotStored(Now(t))
  BY <1>2, GoodParts
<1>4. ev # 0 /\ ev \in DOMAIN events /\ ev \notin Members(store) /\ ev \in Id /\ published[Now(t)] = ev
  <2>1. ev # 0 /\ ev \in DOMAIN events /\ ev \notin Members(store)
    BY <1>1, <1>3 DEF FrameTyped, FrameNotStored
  <2>2. published[Now(t)] = ev
    BY <1>1, <1>3, Tags
  <2> QED
    BY <2>1, <2>2, EventsTyped
<1>5. /\ r \in Seq(Frame) /\ Len(r) = n - 1 /\ \A i \in 1 .. n - 1 : r[i] = stack[t][i]
  BY <1>1, <1>2, FrontLeft
<1>6. stack' = [stack EXCEPT ![t] = r]
  BY <1>1 DEF Leave
<1>7. /\ Members(store') = Members(store) \cup {ev} /\ Once(store') /\ store' \in Seq(Id)
  <2>1. store \in Seq(Id) /\ Once(store)
    BY DEF BusInv, BusTyped, SeenInv
  <2> QED
    BY <1>1, <1>4, <2>1, AppendedMembers
<1> HIDE DEF r, ev
<1>8. Popped' = Popped /\ got' = got
  BY <1>1 DEF Popped, got
<1>9. ASSUME NEW f \in GoodFrames, published[f] # ev
      PROVE  f \in GoodFrames'
  <2>3. f \in Frame /\ FrameTyped(f) /\ FrameDelivers(f) /\ FrameOrdered(f) /\ FrameNotStored(f)
    BY GoodParts
  <2>4. FrameTyped(f)'
    BY <1>1, <2>3 DEF FrameTyped
  <2>5. FrameDelivers(f)'
    BY <1>1, <1>8, <2>3 DEF FrameDelivers
  <2>6. FrameOrdered(f)'
    BY <1>1, <1>8, <2>3 DEF FrameOrdered, Precedes
  <2>7. FrameNotStored(f)'
    BY <1>7, <1>9, <2>3, Tags DEF FrameNotStored
  <2> QED
    BY <2>3, <2>4, <2>5, <2>6, <2>7 DEF GoodFrames
<1>9b. ASSUME NEW u \in Threads, NEW i \in 1 .. Len(stack[u]), ~(u = t /\ i = n)
       PROVE  stack[u][i] \in GoodFrames'
  <2>1. Alone(published, stack)
    BY DEF BusInv, StackInv
  <2>2. published[stack[u][i]] # ev
    BY <1>2, <1>4, <1>9b, <2>1 DEF Alone
  <2>3. stack[u][i] \in GoodFrames
    BY StackTyped
  <2> QED
    BY <1>9, <2>2, <2>3
<1>10. ASSUME NEW i \in 1 .. Len(r)
       PROVE  i \in 1 .. n /\ i # n /\ r[i] = stack[t][i]
  BY <1>2, <1>5
<1>11. StackInv' /\ \A u \in Threads : stack'[u] = IF u = t THEN r ELSE stack[u]
  <2>1. \A i \in 1 .. Len(r) : r[i] \in GoodFrames'
    BY <1>10, <1>9b
  <2>2. \A u \in Threads \ {t} : \A i \in 1 .. Len(stack[u]) : stack[u][i] \in GoodFrames'
    BY <1>9b
  <2>3. Inherits(published, stack, t, r, 0) /\ Inherits(delivered, stack, t, r, 0)
    BY <1>10 DEF Inherits
  <2> QED
    BY <1>5, <1>6, <2>1, <2>2, <2>3, StackKeeps
<1>12. BusTyped'
  BY <1>1, <1>7 DEF BusInv, BusTyped
<1>13. SeenInv'
  BY <1>1, <1>4, <1>7, <1>8 DEF BusInv, SeenInv
<1>14. OrderInv'
  BY <1>1, <1>8 DEF BusInv, OrderInv, Precedes
<1>15. StoredSomewhere'
  <2>1. SUFFICES ASSUME NEW e \in DOMAIN events, e \notin Members(store'), e \notin raised
                 PROVE  Tagged(published, stack', e)
    BY <1>1 DEF StoredSomewhere, published, Tagged
  <2>2. e \notin Members(store) /\ e # ev
    BY <1>7, <2>1
  <2>3. Tagged(published, stack, e)
    BY <2>1, <2>2 DEF BusInv, StoredSomewhere, Tagged
  <2> DEFINE X == {ev}
  <2>4. \A i \in 1 .. Len(stack[t]) :
           published[stack[t][i]] \in X \/ (i \in 1 .. Len(r) /\ published[r[i]] = published[stack[t][i]])
    <3>1. \A i \in 1 .. n : i = n \/ (i \in 1 .. Len(r) /\ r[i] = stack[t][i])
      BY <1>2, <1>5
    <3> QED
      BY <1>2, <1>4, <3>1
  <2>5. e \notin X
    BY <2>2
  <2>6. stack \in [Threads -> Seq(Frame)]
    BY StackTyped
  <2> HIDE DEF X
  <2> QED
    BY <1>5, <1>6, <2>3, <2>4, <2>5, <2>6, WitnessStays
<1>16. RoutedSomewhere'
  <2>1. SUFFICES ASSUME NEW e \in DOMAIN events, events[e].kind = "response",
                        e \notin heap, e \notin Members(got[events[e].corr])
                 PROVE  \E u \in Threads : Capturing(u, e)'
    BY <1>1, <1>8 DEF RoutedSomewhere
  <2>2. PICK u \in Threads : Capturing(u, e)
    BY <2>1 DEF BusInv, RoutedSomewhere
  <2>3. u # t
    BY <1>1, <2>2 DEF Capturing, Inside, Now
  <2>4. stack'[u] = stack[u]
    BY <1>11, <2>3
  <2>5. Capturing(u, e)'
    BY <2>2, <2>4 DEF Capturing, Inside, Now
  <2> QED
    BY <2>5
<1>17. Drained'
  <2>1. SUFFICES ASSUME autoFlush, raised = {}, heap # {}
                 PROVE  \E u \in Threads : \E i \in 1 .. Len(stack'[u]) : stack'[u][i].pc = "drain"
    BY <1>1 DEF Drained
  <2>2. PICK u \in Threads : \E i \in 1 .. Len(stack[u]) : stack[u][i].pc = "drain"
    BY <2>1 DEF BusInv, Drained
  <2>3. PICK i \in 1 .. Len(stack[u]) : stack[u][i].pc = "drain"
    BY <2>2
  <2>4. ~(u = t /\ i = n)
    BY <1>1, <1>2, <2>3
  <2>5. i \in 1 .. Len(stack'[u]) /\ stack'[u][i].pc = "drain"
    BY <1>2, <1>5, <1>11, <2>3, <2>4
  <2> QED
    BY <2>5
<1> QED
  BY <1>11, <1>12, <1>13, <1>14, <1>15, <1>16, <1>17 DEF BusInv

\* A new event, and the frames that publish it: the last one of q.
LEMMA PushKeeps ==
  ASSUME BusInv, NEW t \in Threads, ~Inside(t, "deliver"),
         NEW prio \in Nat, NEW kind \in {"event", "request", "response"}, NEW corr \in 0 .. MaxEvents,
         kind = "response" => corr \in Id,
         NEW outer \in {<<>>, <<In("wait", Len(events) + 1)>>},
         Push(t, prio, kind, corr, outer)
  PROVE  BusInv'
<1> DEFINE n == Len(events) + 1
           pc == IF autoFlush THEN "drain" ELSE "store"
           g == In(pc, n)
           q == outer \o <<g>>
           r == stack[t] \o q
           l == Len(stack[t])
<1>1. /\ Len(events) < MaxEvents
      /\ events' = Append(events, [prio |-> prio, kind |-> kind, corr |-> corr])
      /\ heap' = heap \cup {n} /\ stack' = [stack EXCEPT ![t] = r]
      /\ autoFlush' = autoFlush /\ subs' = subs /\ buffer' = buffer /\ replies' = replies
      /\ store' = store /\ received' = received /\ raised' = raised /\ overlap' = overlap
  <2>1. stack[t] \o (outer \o <<In(IF autoFlush THEN "drain" ELSE "store", Len(events) + 1)>>) = r
    OBVIOUS
  <2> QED
    BY <2>1 DEF Push, Enter, ghosts
<1>2. /\ events \in Seq(Event) /\ Len(events) \in Nat /\ DOMAIN events = 1 .. Len(events)
      /\ \A e \in DOMAIN events : e \in Id /\ e # 0
  BY EventsTyped
<1>3. /\ n \in Id /\ n \notin DOMAIN events /\ n # 0 /\ n \in Nat /\ n \in 0 .. MaxEvents
      /\ \A e \in DOMAIN events : e < n
  BY <1>1, <1>2, BoundAssumption DEF Id
<1>4. /\ events' \in Seq(Event) /\ Len(events') = n /\ DOMAIN events' = DOMAIN events \cup {n}
      /\ \A e \in DOMAIN events : events'[e] = events[e]
      /\ events'[n].kind = kind /\ events'[n].corr = corr
  <2> DEFINE new == [prio |-> prio, kind |-> kind, corr |-> corr]
  <2>1. new \in Event /\ new.kind = kind /\ new.corr = corr
    BY DEF Event
  <2> HIDE DEF new
  <2>2. /\ Append(events, new) \in Seq(Event) /\ Len(Append(events, new)) = Len(events) + 1
        /\ \A e \in 1 .. Len(events) : Append(events, new)[e] = events[e]
        /\ Append(events, new)[Len(events) + 1] = new
    BY <1>2, <2>1, AppendProperties
  <2>3. events' = Append(events, new)
    BY <1>1 DEF new
  <2>4. DOMAIN events' = 1 .. Len(events')
    BY <2>2, <2>3, LenProperties
  <2>5. 1 .. Len(events) + 1 = (1 .. Len(events)) \cup {Len(events) + 1}
    BY <1>2
  <2> QED
    BY <1>2, <2>1, <2>2, <2>3, <2>4, <2>5
<1> HIDE DEF n
<1>5. Popped' = Popped /\ Popped \subseteq DOMAIN events /\ got' = got
  <2>1. Popped' = Popped
    BY <1>1, <1>3, <1>4 DEF Popped
  <2>2. got' = got
    BY <1>1 DEF got
  <2> QED
    BY <2>1, <2>2 DEF Popped
<1>6. \A x, y \in DOMAIN events : Precedes(x, y)' <=> Precedes(x, y)
  BY <1>4 DEF Precedes
<1>7. ASSUME NEW f \in GoodFrames
      PROVE  f \in GoodFrames'
  <2>1. f \in Frame /\ FrameTyped(f) /\ FrameDelivers(f) /\ FrameOrdered(f) /\ FrameNotStored(f)
    BY GoodParts
  <2>2. FrameTyped(f)'
    BY <1>4, <2>1 DEF FrameTyped
  <2>3. FrameDelivers(f)'
    <3>1. ASSUME f.ev \in DOMAIN events PROVE events'[f.ev] = events[f.ev]
      BY <1>4, <3>1
    <3> QED
      BY <1>1, <1>5, <2>1, <3>1 DEF FrameDelivers
  <2>4. FrameOrdered(f)'
    <3>1. SUFFICES ASSUME f.pc \in {"deliver", "handle"}, ~overlap, NEW e \in Popped \ {f.ev}
                   PROVE  e < f.ev \/ Precedes(e, f.ev)'
      BY <1>1, <1>5 DEF FrameOrdered
    <3>2. f.ev \in DOMAIN events /\ e \in DOMAIN events
      BY <1>5, <2>1, <3>1 DEF FrameDelivers
    <3>3. e < f.ev \/ Precedes(e, f.ev)
      BY <2>1, <3>1 DEF FrameOrdered
    <3> QED
      BY <1>6, <3>2, <3>3
  <2>5. FrameNotStored(f)'
    BY <1>1, <2>1 DEF FrameNotStored
  <2> QED
    BY <2>1, <2>2, <2>3, <2>4, <2>5 DEF GoodFrames
<1>8. ASSUME NEW p \in {"drain", "store", "wait"}
      PROVE  In(p, n) \in GoodFrames' /\ In(p, n) \in Frame
  <2>1. In(p, n) \in Frame /\ In(p, n).pc = p /\ In(p, n).ev = n
    BY <1>3, PlainFrame
  <2> DEFINE f == In(p, n)
  <2>2. PICK h \in Frame : h = f
    BY <2>1
  <2>3. h.pc = p /\ h.ev = n
    BY <2>1, <2>2
  <2>4. FrameTyped(h)'
    BY <1>3, <1>4, <2>3 DEF FrameTyped
  <2>5. FrameDelivers(h)' /\ FrameOrdered(h)'
    BY <2>3 DEF FrameDelivers, FrameOrdered
  <2>6. n \notin Members(store)
    BY <1>3 DEF BusInv, SeenInv
  <2>7. FrameNotStored(h)'
    BY <1>1, <2>3, <2>6 DEF FrameNotStored
  <2>8. h \in GoodFrames'
    BY <2>4, <2>5, <2>7 DEF GoodFrames
  <2> QED
    BY <2>1, <2>2, <2>8
<1>9. stack[t] \in Seq(Frame) /\ l \in Nat /\ stack \in [Threads -> Seq(Frame)]
  BY StackTyped, LenProperties
<1>10. PICK m \in {1, 2} : /\ q \in Seq(Frame) /\ Len(q) = m /\ q[m] = g
                           /\ \A i \in 1 .. m : i = m \/ q[i] = In("wait", n)
  <2>1. g \in Frame /\ In("wait", n) \in Frame
    BY <1>8
  <2> DEFINE w == In("wait", n)
  <2> HIDE DEF g, w
  <2>2. CASE outer = <<>>
    <3>1. q = <<g>>
      BY <2>2
    <3>2. <<g>> \in Seq(Frame) /\ Len(<<g>>) = 1 /\ <<g>>[1] = g /\ \A i \in 1 .. 1 : i = 1
      BY <2>1 DEF w
    <3> QED
      BY <3>1, <3>2
  <2>3. CASE outer = <<w>>
    <3> DEFINE a == <<w>>
    <3>1. a \in Seq(Frame) /\ Len(a) = 1 /\ a[1] = w /\ q = a \o <<g>>
      BY <2>1, <2>3 DEF w
    <3> HIDE DEF a
    <3>2. /\ a \o <<g>> \in Seq(Frame) /\ Len(a \o <<g>>) = Len(a) + 1
          /\ \A i \in 1 .. Len(a) : (a \o <<g>>)[i] = a[i]
          /\ (a \o <<g>>)[Len(a) + 1] = g
      BY <2>1, <3>1, OneEntered, ZenonT(40)
    <3>3. 1 \in 1 .. Len(a) /\ Len(a) + 1 = 2
      BY <3>1
    <3>4. \A i \in 1 .. 2 : i = 1 \/ i = 2
      OBVIOUS
    <3>5. q \in Seq(Frame) /\ Len(q) = 2 /\ q[1] = w /\ q[2] = g
      BY <3>1, <3>2, <3>3
    <3>6. q \in Seq(Frame) /\ Len(q) = 2 /\ q[2] = g /\ \A i \in 1 .. 2 : i = 2 \/ q[i] = w
      BY <3>4, <3>5
    <3> QED
      BY <3>6 DEF w
  <2> QED
    BY <2>2, <2>3 DEF n, w
<1>11. /\ In("wait", n) \in GoodFrames' /\ g \in GoodFrames' /\ g \in Frame /\ g.pc = pc
       /\ published[g] = n /\ delivered[g] = 0
       /\ published[In("wait", n)] = 0 /\ delivered[In("wait", n)] = 0
  <2>1. /\ In("wait", n) \in GoodFrames' /\ g \in GoodFrames' /\ In("wait", n) \in Frame /\ g \in Frame
    BY <1>8
  <2>2. In("wait", n).pc = "wait" /\ g.pc = pc /\ g.ev = n
    BY <1>3, PlainFrame
  <2>3. published[g] = n /\ delivered[g] = 0
    BY <2>1, <2>2, Tags
  <2>4. published[In("wait", n)] = 0 /\ delivered[In("wait", n)] = 0
    BY <2>1, <2>2, Tags
  <2> QED
    BY <2>1, <2>2, <2>3, <2>4
<1> HIDE DEF g, q, pc
<1>12. /\ r \in Seq(Frame) /\ Len(r) = l + m
       /\ \A i \in 1 .. l + m : r[i] = IF i <= l THEN stack[t][i] ELSE q[i - l]
  BY <1>9, <1>10, ConcatProperties
<1> HIDE DEF r
<1>13. /\ \A i \in 1 .. l : i \in 1 .. Len(r) /\ r[i] = stack[t][i]
       /\ l + m \in 1 .. Len(r) /\ r[l + m] = g
       /\ \A i \in 1 .. Len(r) : i \in 1 .. l \/ r[i] = In("wait", n) \/ (i = l + m /\ r[i] = g)
  <2>1. \A i \in 1 .. l : i \in 1 .. l + m /\ i <= l
    BY <1>9
  <2>2. l + m \in 1 .. l + m /\ ~(l + m <= l) /\ l + m - l = m
    BY <1>9
  <2>3. \A i \in 1 .. l + m : i \in 1 .. l \/ (~(i <= l) /\ i - l \in 1 .. m /\ (i - l = m => i = l + m))
    BY <1>9
  <2> QED
    BY <1>10, <1>12, <2>1, <2>2, <2>3, SMTT(30)
<1>14. \A u \in Threads : \A i \in 1 .. Len(stack[u]) : stack[u][i] \in GoodFrames' /\ published[stack[u][i]] # n
  <2>1. TAKE u \in Threads
  <2>2. TAKE i \in 1 .. Len(stack[u])
  <2>3. stack[u][i] \in GoodFrames
    BY StackTyped
  <2>4. stack[u][i] \in Frame /\ FrameTyped(stack[u][i])
    BY <2>3, GoodParts
  <2> QED
    BY <1>3, <1>7, <2>3, <2>4, Tags DEF FrameTyped
<1>15. StackInv' /\ \A u \in Threads : stack'[u] = IF u = t THEN r ELSE stack[u]
  <2>1. \A i \in 1 .. Len(r) : r[i] \in GoodFrames'
    BY <1>11, <1>13, <1>14
  <2>2. Inherits(published, stack, t, r, l + m) /\ Inherits(delivered, stack, t, r, l + m)
    BY <1>11, <1>13, <1>14 DEF Inherits
  <2> QED
    BY <1>1, <1>12, <1>14, <2>1, <2>2, StackKeeps, ZenonT(40)
<1>16. BusTyped'
  <2>1. /\ autoFlush' \in BOOLEAN /\ overlap' \in BOOLEAN /\ raised' \subseteq 0 .. MaxEvents
        /\ subs' \in Seq(Handlers \cup {Capture}) /\ Once(subs') /\ Len(subs') >= 1 /\ subs'[1] = Capture
        /\ buffer' \in [Id -> Seq(Id)] /\ replies' \in [Id -> Seq(Id)]
        /\ store' \in Seq(Id) /\ received' \in [Handlers -> Seq(Id)]
    BY <1>1 DEF BusInv, BusTyped
  <2>2. heap \subseteq DOMAIN events /\ \A e \in DOMAIN events : events[e].kind = "response" => events[e].corr \in Id
    BY DEF BusInv, BusTyped
  <2>3. heap' \subseteq DOMAIN events'
    BY <1>1, <1>4, <2>2
  <2>4. \A e \in DOMAIN events' : events'[e].kind = "response" => events'[e].corr \in Id
    BY <1>4, <2>2
  <2>5. Len(events') <= MaxEvents
    BY <1>1, <1>2, <1>4, BoundAssumption DEF n
  <2> QED
    BY <1>4, <2>1, <2>3, <2>4, <2>5 DEF BusTyped
<1>17. SeenInv'
  BY <1>1, <1>4, <1>5 DEF BusInv, SeenInv
<1>18. OrderInv'
  <2>1. \A e \in Popped, f \in heap : e < f \/ Precedes(e, f)
    BY DEF BusInv, OrderInv
  <2>2. heap \subseteq DOMAIN events
    BY DEF BusInv, BusTyped
  <2>3. \A e \in Popped', f \in heap' : e < f \/ Precedes(e, f)'
    BY <1>1, <1>3, <1>5, <1>6, <2>1, <2>2
  <2>4. ASSUME ~overlap, NEW h \in Handlers, NEW i \in 1 .. Len(received[h]), NEW j \in 1 .. Len(received[h]), i < j
        PROVE  received[h][i] < received[h][j] \/ Precedes(received[h][i], received[h][j])'
    <3>1. received[h][i] \in DOMAIN events /\ received[h][j] \in DOMAIN events
      <4>1. received[h] \in Seq(Id) /\ Members(received[h]) \subseteq DOMAIN events
        BY <1>5 DEF BusInv, BusTyped, SeenInv
      <4> QED
        BY <4>1, MembersTyped
    <3>2. received[h][i] < received[h][j] \/ Precedes(received[h][i], received[h][j])
      BY <2>4 DEF BusInv, OrderInv
    <3> QED
      BY <1>1, <1>4, <3>1, <3>2 DEF Precedes
  <2> QED
    BY <1>1, <2>3, <2>4, ZenonT(40) DEF OrderInv, Precedes
<1>19. StoredSomewhere'
  <2>1. SUFFICES ASSUME NEW e \in DOMAIN events', e \notin Members(store), e \notin raised
                 PROVE  Tagged(published, stack', e)
    BY <1>1 DEF StoredSomewhere, published, Tagged
  <2>2. CASE e = n
    BY <1>11, <1>13, <1>15, <2>2 DEF Tagged
  <2>3. CASE e \in DOMAIN events
    <3>1. Tagged(published, stack, e)
      BY <2>1, <2>3 DEF BusInv, StoredSomewhere, Tagged
    <3> DEFINE X == {}
    <3>2. e \notin X /\ \A i \in 1 .. Len(stack[t]) :
            published[stack[t][i]] \in X \/ (i \in 1 .. Len(r) /\ published[r[i]] = published[stack[t][i]])
      BY <1>13
    <3> HIDE DEF X
    <3> QED
      BY <1>1, <1>9, <1>12, <3>1, <3>2, WitnessStays
  <2> QED
    BY <1>4, <2>1, <2>2, <2>3
<1>20. RoutedSomewhere'
  <2>1. SUFFICES ASSUME NEW e \in DOMAIN events', events'[e].kind = "response",
                        e \notin heap', e \notin Members(got[events'[e].corr])
                 PROVE  \E u \in Threads : Capturing(u, e)'
    BY <1>1, <1>5 DEF RoutedSomewhere
  <2>2. e \in DOMAIN events /\ events'[e] = events[e] /\ e \notin heap
    BY <1>1, <1>4, <2>1
  <2>3. PICK u \in Threads : Capturing(u, e)
    BY <2>1, <2>2 DEF BusInv, RoutedSomewhere
  <2>4. u # t
    BY <2>3 DEF Capturing
  <2>5. stack'[u] = stack[u]
    BY <1>15, <2>4
  <2>6. Capturing(u, e)'
    BY <2>3, <2>5 DEF Capturing, Inside, Now
  <2> QED
    BY <2>6
<1>21. Drained'
  <2>1. SUFFICES ASSUME autoFlush
                 PROVE  \E u \in Threads : \E i \in 1 .. Len(stack'[u]) : stack'[u][i].pc = "drain"
    BY <1>1 DEF Drained
  <2>2. g.pc = "drain"
    BY <1>11, <2>1 DEF pc
  <2> QED
    BY <1>13, <1>15, <2>2
<1> QED
  BY <1>15, <1>16, <1>17, <1>18, <1>19, <1>20, <1>21 DEF BusInv

\* publish(), request() and respond() push such an event.
LEMMA PublishingKeeps ==
  ASSUME BusInv, NEW t \in Threads, Publish(t) \/ Request(t) \/ Respond(t)
  PROVE  BusInv'
<1>1. ASSUME NEW call, May(t, call) PROVE ~Inside(t, "deliver")
  BY <1>1 DEF May, Inside
<1>2. 0 \in 0 .. MaxEvents /\ 10 \in Nat /\ 5 \in Nat
  BY BoundAssumption
<1>3. CASE Publish(t)
  <2>1. PICK p \in Priorities : Push(t, p, "event", 0, <<>>)
    BY <1>3 DEF Publish
  <2>2. p \in Nat /\ ~Inside(t, "deliver")
    BY <1>1, <1>3, BoundAssumption DEF Publish
  <2> QED
    BY <1>2, <2>1, <2>2, PushKeeps
<1>4. CASE Request(t)
  <2>1. Push(t, 10, "request", Len(events) + 1, <<In("wait", Len(events) + 1)>>) /\ ~Inside(t, "deliver")
    BY <1>1, <1>4 DEF Request
  <2>2. Len(events) + 1 \in 0 .. MaxEvents
    BY <2>1, EventsTyped DEF Push
  <2> QED
    BY <1>2, <2>1, <2>2, PushKeeps
<1>5. CASE Respond(t)
  <2>1. PICK h \in Handlers : \E x \in Range(received[h]) : Push(t, 5, "response", x, <<>>)
    BY <1>5 DEF Respond
  <2>4. PICK q \in Range(received[h]) : Push(t, 5, "response", q, <<>>)
    BY <2>1
  <2>2. q \in Id /\ q \in 0 .. MaxEvents
    <3>1. received[h] \in Seq(Id)
      BY DEF BusInv, BusTyped
    <3>2. DOMAIN received[h] = 1 .. Len(received[h])
      BY <3>1, LenProperties
    <3>3. \E i \in 1 .. Len(received[h]) : q = received[h][i]
      BY <2>4, <3>2 DEF Range
    <3>4. q \in Id
      BY <3>1, <3>3, ElementOfSeq
    <3> QED
      BY <3>4, BoundAssumption DEF Id
  <2>3. ~Inside(t, "deliver")
    BY <1>1, <1>5 DEF Respond
  <2> QED
    BY <1>2, <2>4, <2>2, <2>3, PushKeeps
<1> QED
  BY <1>3, <1>4, <1>5

\* What is being delivered is counted as such.
LEMMA FrameIsDelivering ==
  ASSUME BusInv, NEW t \in Threads, NEW i \in 1 .. Len(stack[t]),
         stack[t][i].pc \in {"deliver", "handle"}
  PROVE  Delivering # {}
<1>1. stack[t] \in Seq(GoodFrames)
  BY StackTyped
<1>2. i \in DOMAIN stack[t]
  BY <1>1, LenProperties
<1>3. stack[t][i].ev \in {stack[t][k].ev : k \in {j \in DOMAIN stack[t] : stack[t][j].pc \in {"deliver", "handle"}}}
  BY <1>2
<1>4. stack[t][i].ev \in Delivering
  BY <1>3 DEF Delivering
<1> QED
  BY <1>4

\* The handlers an event is offered to.
LEMMA RecipientsOf ==
  ASSUME BusInv, NEW e \in DOMAIN events
  PROVE  /\ Recipients(e) \in Seq(Handlers \cup {Capture}) /\ Once(Recipients(e))
         /\ Members(Recipients(e)) \subseteq Handlers \cup {Capture}
         /\ Capture \in Members(Recipients(e)) <=> events[e].kind = "response"
         /\ Capture \in Members(Recipients(e)) => Head(Recipients(e)) = Capture
<1> DEFINE S == Handlers \cup {Capture}
           T == IF events[e].kind = "response" THEN Handlers \cup {Capture} ELSE Handlers
           r == Filtered(subs, T)
<1>1. subs \in Seq(S) /\ Once(subs) /\ Len(subs) >= 1 /\ subs[1] = Capture /\ 1 \in 1 .. Len(subs)
  <2>1. subs \in Seq(S) /\ Once(subs) /\ Len(subs) >= 1 /\ subs[1] = Capture
    BY DEF BusInv, BusTyped
  <2>2. Len(subs) \in Nat
    BY <2>1, LenProperties
  <2> QED
    BY <2>1, <2>2
<1>2. Recipients(e) = r
  BY DEF Recipients
<1>3. Capture \in T <=> events[e].kind = "response"
  BY CaptureAssumption
<1> HIDE DEF S, T
<1>4. r \in Seq(S) /\ Once(r) /\ Members(r) = Members(subs) \cap T
  BY <1>1, KeptMembers
<1>5. Capture \in Members(subs)
  BY <1>1, MembersTyped
<1>6. Capture \in T => Head(r) = Capture
  <2>1. SUFFICES ASSUME Capture \in T PROVE Head(r) = Capture
    OBVIOUS
  <2>2. Len(r) >= 1 /\ r[1] = Capture
    BY <1>1, <2>1, FilteredHead
  <2> HIDE DEF r
  <2>3. r # <<>>
    BY <1>4, <2>2, EmptySeq
  <2> QED
    BY <1>4, <2>2, <2>3, HeadTailProperties
<1>7. Members(r) \subseteq S
  BY <1>4, MembersTyped
<1> QED
  BY <1>2, <1>3, <1>4, <1>5, <1>6, <1>7 DEF S

LEMMA DrainPopKeeps ==
  ASSUME BusInv, NEW t \in Threads, DrainPop(t)
  PROVE  BusInv'
<1>1. /\ autoFlush' = autoFlush /\ events' = events /\ subs' = subs /\ buffer' = buffer
      /\ replies' = replies /\ store' = store /\ received' = received /\ raised' = raised
      /\ overlap' = (overlap \/ Delivering # {}) /\ stack[t] # <<>> /\ Now(t).pc = "drain"
  BY DEF DrainPop, Inside, Now
<1>2. PICK ev \in heap : /\ \A f \in heap \ {ev} : Precedes(ev, f)
                         /\ heap' = heap \ {ev}
                         /\ Enter(t, <<[pc |-> "deliver", ev |-> ev, rest |-> Recipients(ev)]>>)
  BY DEF DrainPop
<1> DEFINE l == Len(stack[t])
<1>3. /\ heap \subseteq DOMAIN events /\ ev \in DOMAIN events /\ ev \in Id /\ ev # 0 /\ ev \in 0 .. MaxEvents
  <2>1. heap \subseteq DOMAIN events
    BY DEF BusInv, BusTyped
  <2> QED
    BY <1>2, <2>1, EventsTyped DEF Id
<1>4. Popped' = Popped \cup {ev} /\ got' = got /\ ev \notin Popped
  BY <1>1, <1>2, <1>3 DEF Popped, got
<1>5. /\ Recipients(ev) \in Seq(Handlers \cup {Capture}) /\ Once(Recipients(ev))
      /\ Members(Recipients(ev)) \subseteq Handlers \cup {Capture}
      /\ Capture \in Members(Recipients(ev)) <=> events[ev].kind = "response"
      /\ Capture \in Members(Recipients(ev)) => Head(Recipients(ev)) = Capture
  BY <1>3, RecipientsOf
<1>6. PICK g \in Frame : g = [pc |-> "deliver", ev |-> ev, rest |-> Recipients(ev)]
  BY <1>3, <1>5 DEF Frame
<1>7. g.pc = "deliver" /\ g.ev = ev /\ g.rest = Recipients(ev) /\ published[g] = 0 /\ delivered[g] = ev
  <2>1. g.pc = "deliver" /\ g.ev = ev /\ g.rest = Recipients(ev)
    BY <1>6
  <2> QED
    BY <2>1, Tags
<1>8. g \in GoodFrames'
  <2>1. FrameTyped(g)'
    BY <1>1, <1>3, <1>7 DEF FrameTyped
  <2>2. FrameDelivers(g)'
    <3>1. \A h \in Handlers : ev \notin Members(received[h])
      BY <1>4 DEF BusInv, SeenInv
    <3>2. events[ev].kind = "response" => events[ev].corr \in Id
      BY <1>3 DEF BusInv, BusTyped
    <3>3. \A q \in Id : ev \notin Members(got[q])
      BY <1>4 DEF BusInv, SeenInv
    <3>4. Capture \in Members(g.rest) => ev \notin Members(got[events[ev].corr])
      BY <1>5, <1>7, <3>2, <3>3
    <3>5. \A h \in Members(g.rest) \ {Capture} : ev \notin Members(received[h])
      BY <1>5, <1>7, <3>1
    <3> QED
      BY <1>1, <1>4, <1>5, <1>7, <3>4, <3>5 DEF FrameDelivers
  <2>3. FrameOrdered(g)'
    <3>1. \A e \in Popped : e < ev \/ Precedes(e, ev)
      BY <1>2 DEF BusInv, OrderInv
    <3> QED
      BY <1>1, <1>4, <1>7, <3>1 DEF FrameOrdered, Precedes
  <2>4. FrameNotStored(g)'
    BY <1>7 DEF FrameNotStored
  <2> QED
    BY <2>1, <2>2, <2>3, <2>4 DEF GoodFrames
<1>9. ASSUME NEW f \in GoodFrames, f.pc \in {"deliver", "handle"} => overlap'
      PROVE  f \in GoodFrames' /\ delivered[f] # ev
  <2>1. f \in Frame /\ FrameTyped(f) /\ FrameDelivers(f) /\ FrameNotStored(f)
    BY GoodParts
  <2>2. FrameTyped(f)'
    BY <1>1, <2>1 DEF FrameTyped
  <2>3. FrameDelivers(f)'
    BY <1>1, <1>4, <2>1 DEF FrameDelivers
  <2>4. FrameOrdered(f)'
    BY <1>9 DEF FrameOrdered
  <2>5. FrameNotStored(f)'
    BY <1>1, <2>1 DEF FrameNotStored
  <2>6. delivered[f] # ev
    BY <1>3, <1>4, <2>1, Tags DEF FrameDelivers
  <2> QED
    BY <2>1, <2>2, <2>3, <2>4, <2>5, <2>6 DEF GoodFrames
<1>10. \A u \in Threads : \A i \in 1 .. Len(stack[u]) : stack[u][i] \in GoodFrames' /\ delivered[stack[u][i]] # ev
  <2>1. TAKE u \in Threads
  <2>2. TAKE i \in 1 .. Len(stack[u])
  <2>3. stack[u][i] \in GoodFrames
    BY StackTyped
  <2>4. stack[u][i].pc \in {"deliver", "handle"} => overlap'
    BY <1>1, FrameIsDelivering
  <2> QED
    BY <1>9, <2>3, <2>4
<1>11. /\ stack' = [stack EXCEPT ![t] = stack[t] \o <<g>>] /\ stack[t] \in Seq(Frame) /\ l \in Nat
       /\ stack \in [Threads -> Seq(Frame)]
  <2>1. stack[t] \in Seq(Frame) /\ stack \in [Threads -> Seq(Frame)]
    BY StackTyped
  <2> QED
    BY <1>2, <1>6, <2>1, LenProperties DEF Enter
<1> DEFINE w == stack[t] \o <<g>>
<1>12. /\ w \in Seq(Frame) /\ Len(w) = l + 1 /\ \A i \in 1 .. l : w[i] = stack[t][i]
       /\ w[l + 1] = g
  BY <1>11, OneEntered
<1> HIDE DEF w
<1>13. /\ \A i \in 1 .. l : i \in 1 .. Len(w) /\ w[i] = stack[t][i]
       /\ l + 1 \in 1 .. Len(w) /\ l + 1 = Len(w) /\ w[l + 1] = g /\ w # <<>>
       /\ \A i \in 1 .. Len(w) : i \in 1 .. l \/ (i = l + 1 /\ w[i] = g)
  BY <1>11, <1>12
<1>14. StackInv' /\ \A u \in Threads : stack'[u] = IF u = t THEN w ELSE stack[u]
  <2>1. \A i \in 1 .. Len(w) : w[i] \in GoodFrames'
    BY <1>8, <1>10, <1>13
  <2>2. Inherits(published, stack, t, w, l + 1) /\ Inherits(delivered, stack, t, w, l + 1)
    BY <1>7, <1>10, <1>13 DEF Inherits
  <2>3. stack' = [stack EXCEPT ![t] = w]
    BY <1>11 DEF w
  <2> QED
    BY <1>10, <1>12, <2>1, <2>2, <2>3, StackKeeps
<1>15. BusTyped'
  <2>1. overlap' \in BOOLEAN
    BY <1>1 DEF BusInv, BusTyped
  <2> QED
    BY <1>1, <1>2, <1>3, <2>1 DEF BusInv, BusTyped
<1>16. SeenInv'
  BY <1>1, <1>4 DEF BusInv, SeenInv
<1>17. OrderInv'
  <2>1. \A e \in Popped, f \in heap : e < f \/ Precedes(e, f)
    BY DEF BusInv, OrderInv
  <2>2. \A e \in Popped', f \in heap' : e < f \/ Precedes(e, f)'
    BY <1>1, <1>2, <1>4, <2>1 DEF Precedes
  <2> QED
    BY <1>1, <2>2 DEF BusInv, OrderInv, Precedes
<1>18. StoredSomewhere'
  <2>1. SUFFICES ASSUME NEW e \in DOMAIN events, e \notin Members(store), e \notin raised
                 PROVE  Tagged(published, stack', e)
    BY <1>1 DEF StoredSomewhere, published, Tagged
  <2>2. Tagged(published, stack, e)
    BY <2>1 DEF BusInv, StoredSomewhere, Tagged
  <2> DEFINE X == {}
  <2>3. e \notin X /\ \A i \in 1 .. Len(stack[t]) :
          published[stack[t][i]] \in X \/ (i \in 1 .. Len(w) /\ published[w[i]] = published[stack[t][i]])
    BY <1>13
  <2>4. stack' = [stack EXCEPT ![t] = w]
    BY <1>11 DEF w
  <2> HIDE DEF X
  <2>5. stack \in [Threads -> Seq(Frame)]
    BY StackTyped
  <2>6. Tagged(published, [stack EXCEPT ![t] = w], e)
    BY <1>12, <2>2, <2>3, <2>5, WitnessStays
  <2> QED
    BY <2>4, <2>6
<1>19. RoutedSomewhere'
  <2>1. SUFFICES ASSUME NEW e \in DOMAIN events, events[e].kind = "response",
                        e \notin heap', e \notin Members(got[events[e].corr])
                 PROVE  \E u \in Threads : Capturing(u, e)'
    BY <1>1, <1>4 DEF RoutedSomewhere
  <2>2. CASE e = ev
    <3>1. stack'[t] = w
      BY <1>14
    <3>2. Last(stack'[t]) = g
      BY <1>13, <3>1 DEF Last
    <3>3. Capturing(t, e)'
      BY <1>5, <1>7, <1>13, <2>1, <2>2, <3>1, <3>2 DEF Capturing, Inside, Now
    <3> QED
      BY <3>3
  <2>3. CASE e # ev
    <3>1. PICK u \in Threads : Capturing(u, e)
      BY <1>2, <2>1, <2>3 DEF BusInv, RoutedSomewhere
    <3>2. u # t
      BY <1>1, <3>1 DEF Capturing, Inside, Now
    <3>3. stack'[u] = stack[u]
      BY <1>14, <3>2
    <3>4. Capturing(u, e)'
      BY <3>1, <3>3 DEF Capturing, Inside, Now
    <3> QED
      BY <3>4
  <2> QED
    BY <2>2, <2>3
<1>20. Drained'
  <2>1. Now(t) = stack[t][l] /\ l \in 1 .. l
    BY <1>1, StackTyped
  <2>2. l \in 1 .. Len(stack'[t]) /\ stack'[t][l].pc = "drain"
    BY <1>1, <1>13, <1>14, <2>1
  <2> QED
    BY <2>2 DEF Drained
<1> QED
  BY <1>14, <1>15, <1>16, <1>17, <1>18, <1>19, <1>20 DEF BusInv

\* A delivery goes on with the next handler, as g.
LEMMA DeliveryGoesOn ==
  ASSUME BusInv, NEW t \in Threads, Inside(t, "deliver"), NEW g \in Frame, Become(t, g),
         g.ev = Now(t).ev, g.pc \in {"deliver", "handle"},
         UNCHANGED <<autoFlush, events, heap, store, raised>>,
         g \in GoodFrames',
         \A f \in GoodFrames : delivered[f] # Now(t).ev => f \in GoodFrames'
  PROVE  /\ StackInv' /\ StoredSomewhere' /\ Drained'
         /\ \A u \in Threads \ {t} : stack'[u] = stack[u]
<1> DEFINE n == Len(stack[t])
           ev == Now(t).ev
           r == Append(Front(stack[t]), g)
<1>1. stack[t] # <<>> /\ Now(t).pc = "deliver"
  BY DEF Inside, Now
<1>2. Now(t) \in GoodFrames /\ Now(t) = stack[t][n] /\ n \in Nat \ {0} /\ n \in 1 .. n
      /\ stack[t] \in Seq(Frame) /\ stack \in [Threads -> Seq(Frame)]
  BY <1>1, StackTyped
<1>3. Now(t) \in Frame /\ FrameTyped(Now(t))
  BY <1>2, GoodParts
<1>4. ev # 0 /\ delivered[Now(t)] = ev /\ published[Now(t)] = 0 /\ delivered[g] = ev /\ published[g] = 0
  <2>1. ev # 0
    BY <1>1, <1>3 DEF FrameTyped
  <2>2. delivered[Now(t)] = ev /\ published[Now(t)] = 0
    BY <1>1, <1>3, Tags
  <2>3. delivered[g] = ev /\ published[g] = 0
    BY Tags
  <2> QED
    BY <2>1, <2>2, <2>3
<1>5. /\ r \in Seq(Frame) /\ Len(r) = n /\ r[n] = g
      /\ \A i \in 1 .. n - 1 : r[i] = stack[t][i]
  BY <1>1, <1>2, LastReplaced
<1>6. stack' = [stack EXCEPT ![t] = r]
  BY DEF Become
<1> HIDE DEF r, ev
<1>7. ASSUME NEW u \in Threads, NEW i \in 1 .. Len(stack[u]), ~(u = t /\ i = n)
      PROVE  stack[u][i] \in GoodFrames'
  <2>1. Alone(delivered, stack)
    BY DEF BusInv, StackInv
  <2>2. delivered[stack[u][i]] # ev
    BY <1>2, <1>4, <1>7, <2>1 DEF Alone
  <2>3. stack[u][i] \in GoodFrames
    BY StackTyped
  <2> QED
    BY <2>2, <2>3 DEF ev
<1>8. \A i \in 1 .. n : (i # n /\ r[i] = stack[t][i]) \/ (i = n /\ r[i] = g)
  <2>1. \A i \in 1 .. n : i = n \/ (i # n /\ i \in 1 .. n - 1)
    BY <1>2
  <2> QED
    BY <1>5, <2>1
<1>9. \A i \in 1 .. n : published[r[i]] = published[stack[t][i]] /\ delivered[r[i]] = delivered[stack[t][i]]
  BY <1>2, <1>4, <1>8
<1>10. StackInv' /\ \A u \in Threads : stack'[u] = IF u = t THEN r ELSE stack[u]
  <2>1. \A i \in 1 .. Len(r) : r[i] \in GoodFrames'
    BY <1>5, <1>7, <1>8
  <2>2. \A u \in Threads \ {t} : \A i \in 1 .. Len(stack[u]) : stack[u][i] \in GoodFrames'
    BY <1>7
  <2>3. Inherits(published, stack, t, r, 0) /\ Inherits(delivered, stack, t, r, 0)
    BY <1>5, <1>9 DEF Inherits
  <2> QED
    BY <1>5, <1>6, <2>1, <2>2, <2>3, StackKeeps
<1>11. StoredSomewhere'
  <2>1. SUFFICES ASSUME NEW e \in DOMAIN events, e \notin Members(store), e \notin raised
                 PROVE  Tagged(published, stack', e)
    BY DEF StoredSomewhere, published, Tagged
  <2>2. Tagged(published, stack, e)
    BY <2>1 DEF BusInv, StoredSomewhere, Tagged
  <2> DEFINE X == {}
  <2>3. e \notin X /\ \A i \in 1 .. Len(stack[t]) :
          published[stack[t][i]] \in X \/ (i \in 1 .. Len(r) /\ published[r[i]] = published[stack[t][i]])
    BY <1>5, <1>9
  <2> HIDE DEF X
  <2>4. Tagged(published, [stack EXCEPT ![t] = r], e)
    BY <1>2, <1>5, <2>2, <2>3, WitnessStays
  <2> QED
    BY <1>6, <2>4
<1>12. Drained'
  <2>1. SUFFICES ASSUME autoFlush, raised = {}, heap # {}
                 PROVE  \E u \in Threads : \E i \in 1 .. Len(stack'[u]) : stack'[u][i].pc = "drain"
    BY DEF Drained
  <2>2. PICK u \in Threads : \E i \in 1 .. Len(stack[u]) : stack[u][i].pc = "drain"
    BY <2>1 DEF BusInv, Drained
  <2>3. PICK i \in 1 .. Len(stack[u]) : stack[u][i].pc = "drain"
    BY <2>2
  <2>4. ~(u = t /\ i = n)
    BY <1>1, <1>2, <2>3
  <2>5. i \in 1 .. Len(stack'[u]) /\ stack'[u][i].pc = "drain"
    BY <1>5, <1>8, <1>10, <2>3, <2>4
  <2> QED
    BY <2>5
<1> QED
  BY <1>10, <1>11, <1>12

\* What the next handler, or the bus, takes from the list of a delivery.
LEMMA NextOne ==
  ASSUME BusInv, NEW t \in Threads, Inside(t, "deliver"), Now(t).rest # <<>>
  PROVE  /\ Now(t) \in Frame /\ FrameTyped(Now(t)) /\ FrameDelivers(Now(t)) /\ FrameOrdered(Now(t))
         /\ Now(t).pc = "deliver" /\ Now(t).ev \in Popped /\ Now(t).ev \in Id /\ Now(t).ev # 0
         /\ Head(Now(t).rest) \in Handlers \cup {Capture} /\ Head(Now(t).rest) \in Members(Now(t).rest)
         /\ Tail(Now(t).rest) \in Seq(Handlers \cup {Capture}) /\ Once(Tail(Now(t).rest))
         /\ Members(Tail(Now(t).rest)) \subseteq Members(Now(t).rest) \ {Head(Now(t).rest)}
         /\ Capture \notin Members(Tail(Now(t).rest))
<1> DEFINE f == Now(t)
<1>1. stack[t] # <<>> /\ f.pc = "deliver"
  BY DEF Inside, Now
<1>2. f \in GoodFrames
  BY <1>1, StackTyped
<1>3. f \in Frame /\ FrameTyped(f) /\ FrameDelivers(f) /\ FrameOrdered(f)
  BY <1>2, GoodParts
<1>4. /\ f.rest \in Seq(Handlers \cup {Capture}) /\ Once(f.rest) /\ f.ev \in Popped
      /\ Capture \in Members(f.rest) => Head(f.rest) = Capture
  BY <1>1, <1>3, Tags DEF FrameDelivers
<1>5. f.ev \in DOMAIN events
  BY <1>4 DEF Popped
<1>6. f.ev \in Id /\ f.ev # 0
  BY <1>5, EventsTyped
<1> DEFINE S == Handlers \cup {Capture}
           q == f.rest
<1>7. q \in Seq(S) /\ q # <<>> /\ Once(q) /\ (Capture \in Members(q) => Head(q) = Capture)
  BY <1>4
<1> HIDE DEF S, q
<1>8. /\ Head(q) \in Members(q) /\ Tail(q) \in Seq(S) /\ Once(Tail(q))
      /\ Members(q) = Members(Tail(q)) \cup {Head(q)} /\ Head(q) \notin Members(Tail(q))
  BY <1>7, TailMembers
<1>9. Members(q) \subseteq S
  BY <1>7, MembersTyped
<1>10. Members(Tail(q)) \subseteq Members(q) \ {Head(q)} /\ Capture \notin Members(Tail(q)) /\ Head(q) \in S
  BY <1>7, <1>8, <1>9
<1> QED
  BY <1>1, <1>3, <1>4, <1>6, <1>8, <1>10 DEF S, q

LEMMA CallHandlerKeeps ==
  ASSUME BusInv, NEW t \in Threads, CallHandler(t)
  PROVE  BusInv'
<1> DEFINE ev == Now(t).ev
           h == Head(Now(t).rest)
<1>1. /\ Inside(t, "deliver") /\ Now(t).rest # <<>> /\ h # Capture
      /\ received' = [received EXCEPT ![h] = Append(@, ev)]
      /\ Become(t, [Now(t) EXCEPT !.pc = "handle", !.rest = Tail(@)])
      /\ autoFlush' = autoFlush /\ events' = events /\ heap' = heap /\ subs' = subs /\ buffer' = buffer
      /\ replies' = replies /\ store' = store /\ raised' = raised /\ overlap' = overlap
  BY DEF CallHandler
<1>2. /\ Now(t) \in Frame /\ FrameTyped(Now(t)) /\ FrameDelivers(Now(t)) /\ FrameOrdered(Now(t))
      /\ Now(t).pc = "deliver" /\ ev \in Popped /\ ev \in Id /\ ev # 0
      /\ h \in Handlers /\ h \in Members(Now(t).rest)
      /\ Tail(Now(t).rest) \in Seq(Handlers \cup {Capture}) /\ Once(Tail(Now(t).rest))
      /\ Members(Tail(Now(t).rest)) \subseteq Members(Now(t).rest) \ {h}
      /\ Capture \notin Members(Tail(Now(t).rest))
  BY <1>1, NextOne
<1>3. PICK g \in Frame : g = [Now(t) EXCEPT !.pc = "handle", !.rest = Tail(@)]
  BY <1>2 DEF Frame
<1>4. g.pc = "handle" /\ g.ev = ev /\ g.rest = Tail(Now(t).rest) /\ Become(t, g)
  BY <1>1, <1>2, <1>3 DEF Frame
<1>5. ev \notin Members(received[h]) /\ \A k \in Members(g.rest) : ev \notin Members(received[k]) /\ k # h
  <2>1. \A k \in Members(Now(t).rest) \ {Capture} : ev \notin Members(received[k])
    BY <1>2 DEF FrameDelivers
  <2> QED
    BY <1>1, <1>2, <1>4, <2>1
<1> HIDE DEF ev, h
<1>6. /\ received \in [Handlers -> Seq(Id)] /\ received' \in [Handlers -> Seq(Id)]
      /\ \A k \in Handlers : k # h => received'[k] = received[k]
      /\ received'[h] = Append(received[h], ev)
      /\ \A k \in Handlers : Members(received'[k]) \subseteq Members(received[k]) \cup {ev}
      /\ Len(received[h]) \in Nat /\ Len(received'[h]) = Len(received[h]) + 1
      /\ \A i \in 1 .. Len(received[h]) : received'[h][i] = received[h][i]
      /\ received'[h][Len(received[h]) + 1] = ev
  <2>1. received \in [Handlers -> Seq(Id)]
    BY DEF BusInv, BusTyped
  <2>2. received[h] \in Seq(Id)
    BY <1>2, <2>1
  <2>3. /\ Append(received[h], ev) \in Seq(Id) /\ Len(Append(received[h], ev)) = Len(received[h]) + 1
        /\ \A i \in 1 .. Len(received[h]) : Append(received[h], ev)[i] = received[h][i]
        /\ Append(received[h], ev)[Len(received[h]) + 1] = ev
        /\ Members(Append(received[h], ev)) = Members(received[h]) \cup {ev}
    BY <1>2, <2>2, AppendedMembers
  <2>4. \A k \in Handlers : received'[k] = IF k = h THEN Append(received[h], ev) ELSE received[k]
    BY <1>1, <1>2, <2>1
  <2>5. received' \in [Handlers -> Seq(Id)]
    BY <1>1, <2>1, <2>3
  <2>6. \A k \in Handlers : Members(received'[k]) \subseteq Members(received[k]) \cup {ev}
    BY <2>3, <2>4
  <2>7. received'[h] = Append(received[h], ev) /\ Len(received[h]) \in Nat
    BY <1>2, <2>2, <2>4, LenProperties
  <2> QED
    BY <2>1, <2>3, <2>4, <2>5, <2>6, <2>7
<1>7. Popped' = Popped /\ got' = got
  BY <1>1 DEF Popped, got
<1>8. g \in GoodFrames'
  <2>1. FrameTyped(g)'
    BY <1>1, <1>2, <1>4 DEF FrameTyped, Popped, ev
  <2>2. FrameDelivers(g)'
    <3>1. \A k \in Members(g.rest) : k \in Handlers
      <4>1. Members(g.rest) \subseteq Handlers \cup {Capture}
        BY <1>2, <1>4, MembersTyped
      <4> QED
        BY <1>2, <1>4, <4>1
    <3>2. \A k \in Members(g.rest) : ev \notin Members(received'[k])
      BY <1>5, <1>6, <3>1
    <3> QED
      BY <1>2, <1>4, <1>7, <3>2 DEF FrameDelivers
  <2>3. FrameOrdered(g)'
    BY <1>1, <1>2, <1>4, <1>7 DEF FrameOrdered, Precedes, ev
  <2>4. FrameNotStored(g)'
    BY <1>4 DEF FrameNotStored
  <2> QED
    BY <2>1, <2>2, <2>3, <2>4 DEF GoodFrames
<1>9. ASSUME NEW f \in GoodFrames, delivered[f] # ev
      PROVE  f \in GoodFrames'
  <2>1. f \in Frame /\ FrameTyped(f) /\ FrameDelivers(f) /\ FrameOrdered(f) /\ FrameNotStored(f)
    BY GoodParts
  <2>2. FrameTyped(f)'
    BY <1>1, <2>1 DEF FrameTyped
  <2>3. FrameDelivers(f)'
    <3>1. SUFFICES ASSUME f.pc \in {"deliver", "handle"} PROVE FrameDelivers(f)'
      BY DEF FrameDelivers
    <3>2. f.ev # ev
      BY <1>9, <2>1, <3>1, Tags
    <3>3. Members(f.rest) \subseteq Handlers \cup {Capture}
      BY <2>1, Tags, MembersTyped
    <3>4. \A k \in Members(f.rest) \ {Capture} : f.ev \notin Members(received'[k])
      BY <1>6, <2>1, <3>1, <3>2, <3>3 DEF FrameDelivers
    <3> QED
      BY <1>1, <1>7, <2>1, <3>4 DEF FrameDelivers
  <2>4. FrameOrdered(f)'
    BY <1>1, <1>7, <2>1 DEF FrameOrdered, Precedes
  <2>5. FrameNotStored(f)'
    BY <1>1, <2>1 DEF FrameNotStored
  <2> QED
    BY <2>1, <2>2, <2>3, <2>4, <2>5 DEF GoodFrames
<1>10. /\ StackInv' /\ StoredSomewhere' /\ Drained' /\ \A u \in Threads \ {t} : stack'[u] = stack[u]
  <2>1. \A f \in GoodFrames : delivered[f] # Now(t).ev => f \in GoodFrames'
    BY <1>9 DEF ev
  <2>2. g.ev = Now(t).ev /\ g.pc \in {"deliver", "handle"}
    BY <1>4 DEF ev
  <2> QED
    BY <1>1, <1>4, <1>8, <2>1, <2>2, DeliveryGoesOn
<1>11. BusTyped'
  BY <1>1, <1>6 DEF BusInv, BusTyped
<1>12. SeenInv'
  <2>1. \A k \in Handlers : Members(received'[k]) \subseteq Popped
    BY <1>2, <1>6 DEF BusInv, SeenInv
  <2> QED
    BY <1>1, <1>7, <2>1 DEF BusInv, SeenInv
<1>13. OrderInv'
  <2>1. \A e \in Popped', f \in heap' : e < f \/ Precedes(e, f)'
    BY <1>1, <1>7 DEF BusInv, OrderInv, Precedes
  <2>2. ASSUME ~overlap, NEW k \in Handlers, NEW i \in 1 .. Len(received'[k]), NEW j \in 1 .. Len(received'[k]), i < j
        PROVE  received'[k][i] < received'[k][j] \/ Precedes(received'[k][i], received'[k][j])
    <3>1. CASE k # h
      BY <1>6, <2>2, <3>1 DEF BusInv, OrderInv
    <3>2. CASE k = h
      <4>1. i \in 1 .. Len(received[h]) /\ (j \in 1 .. Len(received[h]) \/ j = Len(received[h]) + 1)
        BY <1>6, <2>2, <3>2, SMTT(30)
      <4>2. CASE j \in 1 .. Len(received[h])
        BY <1>2, <1>6, <2>2, <3>2, <4>1, <4>2 DEF BusInv, OrderInv
      <4>3. CASE j = Len(received[h]) + 1
        <5>1. received[h][i] \in Members(received[h])
          BY <4>1 DEF Members
        <5>2. received[h][i] \in Popped \ {ev}
          BY <1>2, <1>5, <5>1 DEF BusInv, SeenInv
        <5>3. \A e \in Popped \ {ev} : e < ev \/ Precedes(e, ev)
          BY <1>2, <2>2 DEF FrameOrdered, ev
        <5>4. received'[k][i] = received[h][i] /\ received'[k][j] = ev
          BY <1>6, <3>2, <4>1, <4>3
        <5> QED
          BY <5>2, <5>3, <5>4
      <4> QED
        BY <4>1, <4>2, <4>3
    <3> QED
      BY <3>1, <3>2
  <2> QED
    BY <1>1, <2>1, <2>2 DEF OrderInv, Precedes
<1>14. RoutedSomewhere'
  <2>1. SUFFICES ASSUME NEW e \in DOMAIN events, events[e].kind = "response",
                        e \notin heap, e \notin Members(got[events[e].corr])
                 PROVE  \E u \in Threads : Capturing(u, e)'
    BY <1>1, <1>7 DEF RoutedSomewhere
  <2>2. PICK u \in Threads : Capturing(u, e)
    BY <2>1 DEF BusInv, RoutedSomewhere
  <2>3. u # t
    BY <1>1, <1>2, <2>2 DEF Capturing, FrameDelivers, h
  <2>4. stack'[u] = stack[u]
    BY <1>10, <2>3
  <2>5. Capturing(u, e)'
    BY <2>2, <2>4 DEF Capturing, Inside, Now
  <2> QED
    BY <2>5
<1> QED
  BY <1>10, <1>11, <1>12, <1>13, <1>14 DEF BusInv

LEMMA CaptureResponseKeeps ==
  ASSUME BusInv, NEW t \in Threads, CaptureResponse(t)
  PROVE  BusInv'
<1> DEFINE ev == Now(t).ev
           c == events[ev].corr
<1>1. /\ Inside(t, "deliver") /\ Now(t).rest # <<>> /\ Head(Now(t).rest) = Capture
      /\ buffer' = [buffer EXCEPT ![c] = Append(@, ev)]
      /\ Become(t, [Now(t) EXCEPT !.rest = Tail(@)])
      /\ autoFlush' = autoFlush /\ events' = events /\ heap' = heap /\ subs' = subs /\ received' = received
      /\ replies' = replies /\ store' = store /\ raised' = raised /\ overlap' = overlap
  BY DEF CaptureResponse, ghosts
<1>2. /\ Now(t) \in Frame /\ FrameTyped(Now(t)) /\ FrameDelivers(Now(t)) /\ FrameOrdered(Now(t))
      /\ Now(t).pc = "deliver" /\ ev \in Popped /\ ev \in Id /\ ev # 0
      /\ Capture \in Members(Now(t).rest)
      /\ Tail(Now(t).rest) \in Seq(Handlers \cup {Capture}) /\ Once(Tail(Now(t).rest))
      /\ Members(Tail(Now(t).rest)) \subseteq Members(Now(t).rest) \ {Capture}
      /\ Capture \notin Members(Tail(Now(t).rest))
  BY <1>1, NextOne
<1>3. PICK g \in Frame : g = [Now(t) EXCEPT !.rest = Tail(@)]
  BY <1>2 DEF Frame
<1>4. g.pc = "deliver" /\ g.ev = ev /\ g.rest = Tail(Now(t).rest) /\ Become(t, g)
  BY <1>1, <1>2, <1>3 DEF Frame
<1>5. events[ev].kind = "response" /\ c \in Id /\ ev \notin Members(got[c]) /\ ev \in DOMAIN events
  <2>1. events[ev].kind = "response" /\ ev \notin Members(got[c])
    BY <1>2 DEF FrameDelivers
  <2>2. ev \in DOMAIN events
    BY <1>2 DEF Popped
  <2>3. c \in Id
    BY <2>1, <2>2 DEF BusInv, BusTyped
  <2> QED
    BY <2>1, <2>2, <2>3
<1> HIDE DEF ev, c
<1>6. /\ buffer' \in [Id -> Seq(Id)] /\ got[c] \in Seq(Id) /\ got'[c] = Append(got[c], ev)
      /\ \A q \in Id : q # c => got'[q] = got[q]
  <2>1. buffer \in [Id -> Seq(Id)] /\ replies \in [Id -> Seq(Id)]
    BY DEF BusInv, BusTyped
  <2>2. buffer[c] \in Seq(Id) /\ replies[c] \in Seq(Id) /\ <<ev>> \in Seq(Id)
    BY <1>2, <1>5, <2>1
  <2>3. Append(buffer[c], ev) = buffer[c] \o <<ev>> /\ Append(buffer[c], ev) \in Seq(Id)
    BY <1>2, <2>2, AppendIsConcat, AppendProperties
  <2>4. replies[c] \o buffer[c] \in Seq(Id)
    BY <2>2, ConcatProperties
  <2>5. Append(replies[c] \o buffer[c], ev) = (replies[c] \o buffer[c]) \o <<ev>>
    BY <1>2, <2>4, AppendIsConcat
  <2>6. (replies[c] \o buffer[c]) \o <<ev>> = replies[c] \o (buffer[c] \o <<ev>>)
    <3> DEFINE a == replies[c]
               b == buffer[c]
               d == <<ev>>
    <3>1. a \in Seq(Id) /\ b \in Seq(Id) /\ d \in Seq(Id)
      BY <2>2
    <3> HIDE DEF a, b, d
    <3>2. (a \o b) \o d = a \o (b \o d)
      BY <3>1, ConcatAssociative
    <3> QED
      BY <3>2 DEF a, b, d
  <2>7. \A q \in Id : buffer'[q] = IF q = c THEN Append(buffer[c], ev) ELSE buffer[q]
    BY <1>1, <2>1
  <2>8. buffer' \in [Id -> Seq(Id)]
    BY <1>1, <2>1, <2>3
  <2>9. got'[c] = Append(got[c], ev) /\ got[c] \in Seq(Id)
    BY <1>1, <1>5, <2>3, <2>4, <2>5, <2>6, <2>7 DEF got
  <2>10. \A q \in Id : q # c => got'[q] = got[q]
    <3>1. TAKE q \in Id
    <3>2. HAVE q # c
    <3>3. buffer'[q] = buffer[q] /\ replies'[q] = replies[q]
      BY <1>1, <2>7, <3>2
    <3> QED
      BY <3>3 DEF got
  <2> QED
    BY <2>8, <2>9, <2>10
<1>7. /\ Members(got'[c]) = Members(got[c]) \cup {ev} /\ (Once(got[c]) => Once(got'[c]))
  BY <1>2, <1>5, <1>6, AppendedMembers
<1>8. \A q \in Id : Members(got'[q]) \subseteq Members(got[q]) \cup {ev} /\ Members(got[q]) \subseteq Members(got'[q])
  BY <1>6, <1>7
<1>9. Popped' = Popped
  BY <1>1 DEF Popped
<1>10. g \in GoodFrames'
  <2>1. FrameTyped(g)'
    BY <1>1, <1>2, <1>4, <1>5 DEF FrameTyped
  <2>2. FrameDelivers(g)'
    <3>1. \A k \in Members(g.rest) \ {Capture} : ev \notin Members(received[k])
      BY <1>2, <1>4 DEF FrameDelivers, ev
    <3> QED
      BY <1>1, <1>2, <1>4, <1>9, <3>1 DEF FrameDelivers
  <2>3. FrameOrdered(g)'
    BY <1>1, <1>2, <1>4, <1>9 DEF FrameOrdered, Precedes, ev
  <2>4. FrameNotStored(g)'
    BY <1>4 DEF FrameNotStored
  <2> QED
    BY <2>1, <2>2, <2>3, <2>4 DEF GoodFrames
<1>11. ASSUME NEW f \in GoodFrames, delivered[f] # ev
       PROVE  f \in GoodFrames'
  <2>1. f \in Frame /\ FrameTyped(f) /\ FrameDelivers(f) /\ FrameOrdered(f) /\ FrameNotStored(f)
    BY GoodParts
  <2>2. FrameTyped(f)'
    BY <1>1, <2>1 DEF FrameTyped
  <2>3. FrameDelivers(f)'
    <3>1. SUFFICES ASSUME f.pc \in {"deliver", "handle"} PROVE FrameDelivers(f)'
      BY DEF FrameDelivers
    <3>2. f.ev # ev
      BY <1>11, <2>1, <3>1, Tags
    <3>3. ASSUME Capture \in Members(f.rest) PROVE f.ev \notin Members(got'[events[f.ev].corr])
      <4>1. f.ev \in DOMAIN events /\ events[f.ev].kind = "response" /\ f.ev \notin Members(got[events[f.ev].corr])
        BY <2>1, <3>1, <3>3 DEF FrameDelivers, Popped
      <4>2. events[f.ev].corr \in Id
        BY <4>1 DEF BusInv, BusTyped
      <4> QED
        BY <1>8, <3>2, <4>1, <4>2
    <3> QED
      BY <1>1, <1>9, <2>1, <3>3 DEF FrameDelivers
  <2>4. FrameOrdered(f)'
    BY <1>1, <1>9, <2>1 DEF FrameOrdered, Precedes
  <2>5. FrameNotStored(f)'
    BY <1>1, <2>1 DEF FrameNotStored
  <2> QED
    BY <2>1, <2>2, <2>3, <2>4, <2>5 DEF GoodFrames
<1>12. /\ StackInv' /\ StoredSomewhere' /\ Drained' /\ \A u \in Threads \ {t} : stack'[u] = stack[u]
  <2>1. \A f \in GoodFrames : delivered[f] # Now(t).ev => f \in GoodFrames'
    BY <1>11 DEF ev
  <2>2. g.ev = Now(t).ev /\ g.pc \in {"deliver", "handle"}
    BY <1>4 DEF ev
  <2> QED
    BY <1>1, <1>4, <1>10, <2>1, <2>2, DeliveryGoesOn
<1>13. BusTyped'
  BY <1>1, <1>6 DEF BusInv, BusTyped
<1>14. SeenInv'
  <2>1. \A q \in Id : Once(got[q]) /\ Members(got[q]) \subseteq Popped
    BY DEF BusInv, SeenInv
  <2>2. \A q \in Id : Members(got'[q]) \subseteq Popped
    BY <1>2, <1>8, <2>1
  <2>3. \A q \in Id : Once(got'[q])
    BY <1>5, <1>6, <1>7, <2>1
  <2> QED
    BY <1>1, <1>9, <2>2, <2>3 DEF BusInv, SeenInv
<1>15. OrderInv'
  BY <1>1, <1>9 DEF BusInv, OrderInv, Precedes
<1>16. RoutedSomewhere'
  <2>1. SUFFICES ASSUME NEW e \in DOMAIN events, events[e].kind = "response",
                        e \notin heap, e \notin Members(got'[events[e].corr])
                 PROVE  \E u \in Threads : Capturing(u, e)'
    BY <1>1 DEF RoutedSomewhere
  <2>2. events[e].corr \in Id
    BY <2>1 DEF BusInv, BusTyped
  <2>3. e \notin Members(got[events[e].corr]) /\ e # ev
    BY <1>7, <1>8, <2>1, <2>2 DEF c
  <2>4. PICK u \in Threads : Capturing(u, e)
    BY <2>1, <2>3 DEF BusInv, RoutedSomewhere
  <2>5. u # t
    BY <2>3, <2>4 DEF Capturing, ev
  <2>6. stack'[u] = stack[u]
    BY <1>12, <2>5
  <2>7. Capturing(u, e)'
    BY <2>4, <2>6 DEF Capturing, Inside, Now
  <2> QED
    BY <2>7
<1> QED
  BY <1>12, <1>13, <1>14, <1>15, <1>16 DEF BusInv

-----------------------------------------------------------------------------
(* The theorems                                                            *)

LEMMA BusStep == BusInv /\ [Next]_vars => BusInv'
<1> SUFFICES ASSUME BusInv, [Next]_vars PROVE BusInv'
  OBVIOUS
<1>1. CASE UNCHANGED vars
  <2>1. UNCHANGED <<autoFlush, events, heap, subs, stack, buffer, replies, store, received, raised, overlap>>
    BY <1>1 DEF vars, ghosts
  <2>2. Quiet
    BY <2>1, UnchangedIsQuiet
  <2>3. GoodFrames' = GoodFrames /\ SeenInv' /\ OrderInv' /\ got' = got
    BY <2>2, QuietStays DEF Quiet
  <2>4. BusTyped'
    BY <2>1 DEF BusInv, BusTyped
  <2>5. StackInv'
    BY <2>1, <2>3 DEF BusInv, StackInv, Alone, published, delivered
  <2>6. StoredSomewhere' /\ Drained'
    BY <2>1 DEF BusInv, StoredSomewhere, Drained, published
  <2>7. RoutedSomewhere'
    BY <2>1, <2>3 DEF BusInv, RoutedSomewhere, Capturing, Inside, Now
  <2> QED
    BY <2>3, <2>4, <2>5, <2>6, <2>7 DEF BusInv
<1>2. ASSUME NEW t \in Threads,
             \/ Publish(t) \/ Request(t) \/ Respond(t) \/ Flush(t)
             \/ Subscribe(t) \/ Unsubscribe(t)
             \/ Continue(t)
      PROVE  BusInv'
  <2>1. CASE Publish(t) \/ Request(t) \/ Respond(t)
    BY <2>1, PublishingKeeps
  <2>2. CASE Flush(t)
    BY <2>2, FlushKeeps
  <2>3. CASE Subscribe(t) \/ Unsubscribe(t)
    BY <2>3, SubscriptionsKeep
  <2>4. CASE DrainPop(t)
    BY <2>4, DrainPopKeeps
  <2>5. CASE DrainEmpty(t)
    BY <2>5, DrainEmptyKeeps
  <2>6. CASE CallHandler(t)
    BY <2>6, CallHandlerKeeps
  <2>7. CASE CaptureResponse(t)
    BY <2>7, CaptureResponseKeeps
  <2>8. CASE FilterRaises(t)
    BY <2>8, FilterRaisesKeeps
  <2>9. CASE HandlerEnds(t)
    BY <2>9, HandlerEndsKeeps
  <2>10. CASE DeliverEnds(t)
    BY <2>10, DeliverEndsKeeps
  <2>11. CASE StoreAppend(t)
    BY <2>11, StoreAppendKeeps
  <2>12. CASE RequestFlush(t)
    BY <2>12, RequestFlushKeeps
  <2>13. CASE RequestTimesOut(t) \/ RequestTakes(t) \/ RequestReturns(t)
    BY <2>13, RequestEndsKeep
  <2> QED
    BY <1>2, <2>1, <2>2, <2>3, <2>4, <2>5, <2>6, <2>7, <2>8, <2>9, <2>10, <2>11, <2>12, <2>13 DEF Continue
<1> QED
  BY <1>1, <1>2 DEF Next

LEMMA BusInvariant == Spec => []BusInv
  BY BusStarts, BusStep, PTL DEF Spec

\* TypeOK, whatever the threads do.
THEOREM BusTypeCorrect == Spec => []TypeOK
<1>1. BusInv => TypeOK
  <2> SUFFICES ASSUME BusInv PROVE TypeOK
    OBVIOUS
  <2>1. stack \in [Threads -> Seq(Frame)]
    BY StackTyped
  <2> QED
    BY <2>1 DEF BusInv, BusTyped, TypeOK
<1> QED
  BY <1>1, BusInvariant, PTL

\* NoneLost: the store holds every event once when its publish() is over, every response
\* finds its request once, and with auto_flush no event is left behind, whichever thread
\* delivers it and wherever a handler or a filter interrupts.
THEOREM NothingGetsLost == Spec => []NoneLost
<1>1. BusInv => NoneLost
  <2> SUFFICES ASSUME BusInv PROVE NoneLost
    OBVIOUS
  <2>1. ASSUME NEW q \in Seq(Id) PROVE Members(q) = Range(q) /\ (Once(q) => IsInjective(q))
    <3>1. DOMAIN q = 1 .. Len(q)
      BY LenProperties
    <3> QED
      BY <3>1 DEF Members, Range, Once, IsInjective
  <2>2. store \in Seq(Id) /\ replies \in [Id -> Seq(Id)] /\ buffer \in [Id -> Seq(Id)]
    BY DEF BusInv, BusTyped
  <2>3. \A q \in Id : replies[q] \o buffer[q] \in Seq(Id) /\ got[q] = replies[q] \o buffer[q]
    BY <2>2, ConcatProperties DEF got
  <2>4. StoreExact
    <3>1. IsInjective(store)
      BY <2>1, <2>2 DEF BusInv, SeenInv
    <3>2. ASSUME NEW e \in DOMAIN events, e \notin Range(store), e \notin raised
          PROVE  \E t \in Threads : e \in Publishing(stack[t], 1)
      <4>1. e \notin Members(store)
        BY <2>1, <2>2, <3>2
      <4>2. PICK t \in Threads : \E i \in 1 .. Len(stack[t]) : published[stack[t][i]] = e
        BY <3>2, <4>1 DEF BusInv, StoredSomewhere
      <4>3. PICK i \in 1 .. Len(stack[t]) : published[stack[t][i]] = e
        BY <4>2
      <4>4. stack[t][i] \in Frame
        BY StackTyped
      <4>5. e # 0
        BY EventsTyped
      <4>6. stack[t][i].pc \in {"drain", "store"} /\ stack[t][i].ev = e
        BY <4>3, <4>4, <4>5, Tags
      <4> QED
        BY <4>6 DEF Publishing
    <3> QED
      BY <3>1, <3>2 DEF StoreExact
  <2>5. ResponsesRouted
    <3>1. \A q \in Id : IsInjective(replies[q] \o buffer[q])
      BY <2>1, <2>3 DEF BusInv, SeenInv
    <3>2. ASSUME NEW e \in DOMAIN events, events[e].kind = "response", e \notin heap,
                 e \notin Range(replies[events[e].corr] \o buffer[events[e].corr])
          PROVE  \E t \in Threads : Inside(t, "deliver") /\ Now(t).ev = e /\ Capture \in Range(Now(t).rest)
      <4>1. events[e].corr \in Id
        BY <3>2 DEF BusInv, BusTyped
      <4>2. e \notin Members(got[events[e].corr])
        BY <2>1, <2>3, <3>2, <4>1
      <4>3. PICK t \in Threads : Capturing(t, e)
        BY <3>2, <4>2 DEF BusInv, RoutedSomewhere
      <4>4. stack[t] # <<>>
        BY <4>3 DEF Capturing, Inside
      <4>5. Now(t) \in GoodFrames
        BY <4>4, StackTyped
      <4>6. Now(t).rest \in Seq(Handlers \cup {Capture})
        BY <4>5, GoodParts, Tags
      <4>7. DOMAIN Now(t).rest = 1 .. Len(Now(t).rest)
        BY <4>6, LenProperties
      <4>8. Capture \in Range(Now(t).rest)
        BY <4>3, <4>7 DEF Capturing, Members, Range
      <4> QED
        BY <4>3, <4>8 DEF Capturing
    <3> QED
      BY <3>1, <3>2 DEF ResponsesRouted
  <2>6. NothingStranded
    <3>1. SUFFICES ASSUME autoFlush, raised = {}, heap # {}
                   PROVE  \E t \in Threads : \E i \in DOMAIN stack[t] : stack[t][i].pc = "drain"
      BY DEF NothingStranded
    <3>2. PICK t \in Threads : \E i \in 1 .. Len(stack[t]) : stack[t][i].pc = "drain"
      BY <3>1 DEF BusInv, Drained
    <3>3. DOMAIN stack[t] = 1 .. Len(stack[t])
      BY StackTyped, LenProperties
    <3> QED
      BY <3>2, <3>3
  <2> QED
    BY <2>4, <2>5, <2>6 DEF NoneLost
<1> QED
  BY <1>1, BusInvariant, PTL

\* DeliveryOrder: as long as no delivery overlaps another one, each subscriber gets the
\* events in the order of priority and arrival in which they could be popped.
THEOREM DeliveredInOrder == Spec => []DeliveryOrder
<1>1. BusInv => DeliveryOrder
  <2> SUFFICES ASSUME BusInv, ~overlap, NEW h \in Handlers PROVE InOrder(received[h])
    BY DEF DeliveryOrder
  <2>1. received[h] \in Seq(Id)
    BY DEF BusInv, BusTyped
  <2>2. DOMAIN received[h] = 1 .. Len(received[h])
    BY <2>1, LenProperties
  <2> QED
    BY <2>2 DEF BusInv, OrderInv, InOrder
<1> QED
  BY <1>1, BusInvariant, PTL
====
