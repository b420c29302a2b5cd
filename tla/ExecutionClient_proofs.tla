------------------------ MODULE ExecutionClient_proofs ------------------------
(***************************************************************************)
(* The types, that the engine is told of a fill once, and that a fill that *)
(* was received is told or waits, for any orders, trades and matchings and *)
(* however often messages are repeated.                                    *)
(*                                                                         *)
(* EngineKnows: what the engine has applied was told.  SubmitFits: an      *)
(* order is submitted and answered once, so a known one is not rejected.   *)
(* TradeFits: the channel tells of every trade, and nothing is recorded of *)
(* one not received.  WaitFits: who waits for an order that is known waits *)
(* in vain, and its fill is an overtaken one.  EndFits: a cancellation     *)
(* follows every trade of its order, on the channel and through the tasks. *)
(* FillFits: a received fill is told, overtaken or in a task.  So what     *)
(* _handle_user_trade_in_ws_trade_msg skips has been told, or overtaken.   *)
(***************************************************************************)
EXTENDS ExecutionClient, FiniteSetTheorems, WellFoundedInduction, TLAPS

(* The elements of two sequences, one after the other.                     *)
LEMMA JoinElements ==
    ASSUME NEW T, NEW s \in Seq(T), NEW t \in Seq(T)
    PROVE  s \o t \in Seq(T) /\ ToSet(s \o t) = ToSet(s) \cup ToSet(t)
<1>1. ASSUME NEW x \in ToSet(s \o t)
      PROVE  x \in ToSet(s) \cup ToSet(t)
  BY <1>1 DEF ToSet
<1>2. ASSUME NEW x \in ToSet(s)
      PROVE  x \in ToSet(s \o t)
  <2>1. PICK i \in 1 .. Len(s) : x = s[i]
    BY <1>2 DEF ToSet
  <2>2. i \in DOMAIN (s \o t) /\ (s \o t)[i] = x
    BY <2>1
  <2> QED  BY <2>2 DEF ToSet
<1>3. ASSUME NEW x \in ToSet(t)
      PROVE  x \in ToSet(s \o t)
  <2>1. PICK i \in 1 .. Len(t) : x = t[i]
    BY <1>3 DEF ToSet
  <2>2. Len(s) + i \in DOMAIN (s \o t) /\ (s \o t)[Len(s) + i] = x
    BY <2>1
  <2> QED  BY <2>2 DEF ToSet
<1> QED  BY <1>1, <1>2, <1>3

LEMMA LeastOf ==
    ASSUME NEW S \in SUBSET Nat, S # {}
    PROVE  \E m \in S : \A k \in S : m <= k
<1>1. PICK m \in S : \A k \in S : ~(<<k, m>> \in OpToRel(<, Nat))
  BY NatLessThanWellFounded, WFMin
<1>2. \A k \in S : ~(k < m)
  BY <1>1 DEF OpToRel
<1> QED  BY <1>2

(* What FlattenSeq computes: the sequences before, and then this one.      *)
Follows(f, seqs, n) ==
    \A i \in 1 .. n : f[i] = IF i = 1 THEN seqs[i] ELSE f[i - 1] \o seqs[i]

LEMMA FlattenExists ==
    ASSUME NEW T, NEW seqs \in Seq(Seq(T)), NEW n \in 0 .. Len(seqs)
    PROVE  \E f \in [1 .. n -> Seq(T)] : Follows(f, seqs, n)
<1> DEFINE Bad == {k \in 0 .. n : ~\E f \in [1 .. k -> Seq(T)] : Follows(f, seqs, k)}
<1>1. ASSUME Bad # {} PROVE FALSE
  <2>1. PICK m \in Bad : \A k \in Bad : m <= k
    <3>1. Bad \in SUBSET Nat
      OBVIOUS
    <3> HIDE DEF Bad
    <3> QED  BY <1>1, <3>1, LeastOf
  <2>2. CASE m = 0
    <3>1. [i \in 1 .. 0 |-> <<>>] \in [1 .. 0 -> Seq(T)]
      OBVIOUS
    <3>2. Follows([i \in 1 .. 0 |-> <<>>], seqs, 0)
      BY DEF Follows
    <3> QED  BY <2>2, <3>1, <3>2
  <2>3. CASE m # 0
    <3>1. m \in 1 .. n /\ m - 1 \in 0 .. n /\ m - 1 \notin Bad
      BY <2>1, <2>3
    <3>2. PICK f \in [1 .. m - 1 -> Seq(T)] : Follows(f, seqs, m - 1)
      BY <3>1
    <3> DEFINE g == [i \in 1 .. m |-> IF i = m
                        THEN IF m = 1 THEN seqs[m] ELSE f[m - 1] \o seqs[m]
                        ELSE f[i]]
    <3>3. seqs[m] \in Seq(T)
      BY <3>1
    <3>4. m # 1 => f[m - 1] \in Seq(T) /\ f[m - 1] \o seqs[m] \in Seq(T)
      BY <3>1, <3>2, <3>3
    <3>5. g \in [1 .. m -> Seq(T)]
      BY <3>1, <3>2, <3>3, <3>4
    <3>6. ASSUME NEW i \in 1 .. m
          PROVE  g[i] = IF i = 1 THEN seqs[i] ELSE g[i - 1] \o seqs[i]
      <4>1. CASE i = m
        BY <4>1, <3>1
      <4>2. CASE i # m
        <5>1. i \in 1 .. m - 1 /\ (i # 1 => i - 1 \in 1 .. m - 1)
          BY <4>2, <3>1
        <5>2. f[i] = IF i = 1 THEN seqs[i] ELSE f[i - 1] \o seqs[i]
          BY <5>1, <3>2 DEF Follows
        <5>3. g[i] = f[i] /\ (i # 1 => g[i - 1] = f[i - 1])
          BY <5>1, <4>2, <3>1
        <5> QED  BY <5>2, <5>3
      <4> QED  BY <4>1, <4>2
    <3>7. Follows(g, seqs, m)
      BY <3>6 DEF Follows
    <3> QED  BY <3>1, <3>5, <3>7
  <2> QED  BY <2>2, <2>3
<1>2. n \in 0 .. n
  OBVIOUS
<1> QED  BY <1>1, <1>2

LEMMA FlattenFollows ==
    ASSUME NEW T, NEW seqs \in Seq(Seq(T)), Len(seqs) > 0
    PROVE  \E f \in [1 .. Len(seqs) -> Seq(T)] :
              Follows(f, seqs, Len(seqs)) /\ FlattenSeq(seqs) = f[Len(seqs)]
<1> DEFINE flatten[i \in 1 .. Len(seqs)] ==
              IF i = 1 THEN seqs[i] ELSE flatten[i - 1] \o seqs[i]
<1>1. FlattenSeq(seqs) = flatten[Len(seqs)]
  BY DEF FlattenSeq
<1>2. PICK f \in [1 .. Len(seqs) -> Seq(T)] : Follows(f, seqs, Len(seqs))
  BY FlattenExists
<1>3. f = [i \in 1 .. Len(seqs) |-> IF i = 1 THEN seqs[i] ELSE f[i - 1] \o seqs[i]]
  BY <1>2 DEF Follows
<1>4. flatten = [i \in 1 .. Len(seqs) |->
                    IF i = 1 THEN seqs[i] ELSE flatten[i - 1] \o seqs[i]]
  BY <1>3
<1> HIDE DEF flatten
<1>5. Follows(flatten, seqs, Len(seqs))
  BY <1>4 DEF Follows
<1> DEFINE Bad == {k \in 1 .. Len(seqs) : flatten[k] # f[k]}
<1>6. ASSUME Bad # {} PROVE FALSE
  <2>1. PICK m \in Bad : \A k \in Bad : m <= k
    <3>1. Bad \in SUBSET Nat
      OBVIOUS
    <3> HIDE DEF Bad
    <3> QED  BY <1>6, <3>1, LeastOf
  <2>2. m # 1 => m - 1 \in 1 .. Len(seqs) /\ m - 1 \notin Bad
    BY <2>1
  <2>3. m # 1 => flatten[m - 1] = f[m - 1]
    BY <2>2
  <2>4. flatten[m] = f[m]
    BY <1>2, <1>5, <2>3 DEF Follows
  <2> QED  BY <2>4
<1>7. Len(seqs) \in 1 .. Len(seqs)
  OBVIOUS
<1> QED  BY <1>1, <1>2, <1>6, <1>7

(* FlattenSeq has the elements of the sequences it is given.               *)
LEMMA FlattenElements ==
    ASSUME NEW T, NEW seqs \in Seq(Seq(T))
    PROVE  /\ FlattenSeq(seqs) \in Seq(T)
           /\ ToSet(FlattenSeq(seqs)) = UNION {ToSet(seqs[i]) : i \in DOMAIN seqs}
<1> DEFINE Union(n) == UNION {ToSet(seqs[i]) : i \in 1 .. n}
<1>1. CASE Len(seqs) = 0
  <2>1. FlattenSeq(seqs) = <<>> /\ seqs = <<>>
    BY <1>1 DEF FlattenSeq
  <2> QED  BY <2>1 DEF ToSet
<1>2. CASE Len(seqs) > 0
  <2>1. PICK f \in [1 .. Len(seqs) -> Seq(T)] :
                Follows(f, seqs, Len(seqs)) /\ FlattenSeq(seqs) = f[Len(seqs)]
    BY <1>2, FlattenFollows
  <2> DEFINE Bad == {k \in 1 .. Len(seqs) : ToSet(f[k]) # Union(k)}
  <2>2. ASSUME Bad # {} PROVE FALSE
    <3>1. PICK m \in Bad : \A k \in Bad : m <= k
      <4>1. Bad \in SUBSET Nat
        OBVIOUS
      <4> HIDE DEF Bad
      <4> QED  BY <2>2, <4>1, LeastOf
    <3>2. CASE m = 1
      <4>1. f[1] = seqs[1]
        <5>1. Len(seqs) \in Nat /\ 1 \in 1 .. Len(seqs)
          BY <1>2
        <5> QED  BY <5>1, <2>1 DEF Follows
      <4>2. Union(1) = ToSet(seqs[1])
        OBVIOUS
      <4> QED  BY <3>1, <3>2, <4>1, <4>2
    <3>3. CASE m # 1
      <4>1. m - 1 \in 1 .. Len(seqs) /\ m - 1 \notin Bad /\ m \in 1 .. Len(seqs)
        <5>1. Len(seqs) \in Nat /\ m \in 1 .. Len(seqs)
          BY <3>1
        <5>2. m - 1 \in 1 .. Len(seqs) /\ ~(m <= m - 1)
          BY <5>1, <3>3
        <5> QED  BY <3>1, <5>1, <5>2
      <4>2. ToSet(f[m - 1]) = Union(m - 1)
        BY <4>1
      <4>3. f[m] = f[m - 1] \o seqs[m]
        BY <2>1, <3>1, <3>3 DEF Follows
      <4>4. f[m - 1] \in Seq(T) /\ seqs[m] \in Seq(T)
        BY <4>1, <2>1
      <4>5. ToSet(f[m]) = ToSet(f[m - 1]) \cup ToSet(seqs[m])
        BY <4>3, <4>4, JoinElements
      <4>6. Union(m) = Union(m - 1) \cup ToSet(seqs[m])
        <5>1. 1 .. m = (1 .. m - 1) \cup {m}
          BY <4>1
        <5> QED  BY <5>1
      <4> QED  BY <3>1, <4>2, <4>5, <4>6
    <3> QED  BY <3>2, <3>3
  <2>3. Len(seqs) \in 1 .. Len(seqs) /\ DOMAIN seqs = 1 .. Len(seqs)
    BY <1>2
  <2> QED  BY <2>1, <2>2, <2>3
<1>3. Len(seqs) \in Nat
  OBVIOUS
<1> QED  BY <1>1, <1>2, <1>3

(* The first element and the others.                                       *)
LEMMA HeadElement ==
    ASSUME NEW T, NEW s \in Seq(T), s # <<>>
    PROVE  /\ Head(s) \in T /\ Tail(s) \in Seq(T)
           /\ ToSet(s) = {Head(s)} \cup ToSet(Tail(s))
<1>1. Len(s) \in Nat \ {0} /\ Head(s) = s[1] /\ Head(s) \in T /\ Tail(s) \in Seq(T)
      /\ Len(Tail(s)) = Len(s) - 1 /\ \A i \in 1 .. Len(s) - 1 : Tail(s)[i] = s[i + 1]
  OBVIOUS
<1>2. ASSUME NEW x \in ToSet(s), x # Head(s)
      PROVE  x \in ToSet(Tail(s))
  <2>1. PICK i \in 1 .. Len(s) : x = s[i]
    BY <1>2 DEF ToSet
  <2>2. i - 1 \in 1 .. Len(Tail(s)) /\ Tail(s)[i - 1] = x
    BY <1>1, <1>2, <2>1
  <2>3. DOMAIN Tail(s) = 1 .. Len(Tail(s))
    BY <1>1
  <2>4. Tail(s)[i - 1] \in {Tail(s)[j] : j \in DOMAIN Tail(s)}
    BY <2>2, <2>3
  <2> QED  BY <2>2, <2>4 DEF ToSet
<1>3. ASSUME NEW x \in ToSet(Tail(s))
      PROVE  x \in ToSet(s)
  <2>1. PICK i \in 1 .. Len(Tail(s)) : x = Tail(s)[i]
    BY <1>1, <1>3 DEF ToSet
  <2>2. i + 1 \in 1 .. Len(s) /\ s[i + 1] = x
    BY <1>1, <2>1
  <2> QED  BY <2>2 DEF ToSet
<1>4. Head(s) \in ToSet(s)
  BY <1>1 DEF ToSet
<1> QED  BY <1>1, <1>2, <1>3, <1>4

LEMMA LastElement ==
    ASSUME NEW T, NEW s \in Seq(T), NEW e \in T
    PROVE  Append(s, e) \in Seq(T) /\ ToSet(Append(s, e)) = ToSet(s) \cup {e}
<1>1. Len(Append(s, e)) = Len(s) + 1 /\ Append(s, e)[Len(s) + 1] = e
      /\ \A i \in 1 .. Len(s) : Append(s, e)[i] = s[i]
  OBVIOUS
<1>2. ASSUME NEW x \in ToSet(Append(s, e)), x # e
      PROVE  x \in ToSet(s)
  <2>1. PICK i \in 1 .. Len(s) + 1 : x = Append(s, e)[i]
    BY <1>1, <1>2 DEF ToSet
  <2>2. i \in 1 .. Len(s) /\ x = s[i]
    BY <1>1, <1>2, <2>1
  <2> QED  BY <2>2 DEF ToSet
<1>3. ASSUME NEW x \in ToSet(s)
      PROVE  x \in ToSet(Append(s, e))
  <2>1. PICK i \in 1 .. Len(s) : x = s[i]
    BY <1>3 DEF ToSet
  <2>2. i \in 1 .. Len(Append(s, e)) /\ x = Append(s, e)[i]
    BY <1>1, <2>1
  <2> QED  BY <2>2 DEF ToSet
<1>4. e \in ToSet(Append(s, e))
  BY <1>1 DEF ToSet
<1> QED  BY <1>2, <1>3, <1>4

(* SetToSeqs leaves no element out.                                        *)
LEMMA PermutationElements ==
    ASSUME NEW S, IsFiniteSet(S), NEW f \in SetToSeqs(S)
    PROVE  f \in Seq(S) /\ ToSet(f) = S
<1>1. Cardinality(S) \in Nat
  BY FS_CardinalityType
<1> DEFINE n == Cardinality(S)
<1>2. f \in [1 .. n -> S] /\ \A i, j \in 1 .. n : i # j => f[i] # f[j]
  BY DEF SetToSeqs
<1>3. IsFiniteSet(1 .. n) /\ Cardinality(1 .. n) = n
  BY <1>1, FS_Interval
<1> HIDE DEF n
<1>4. f \in Injection(1 .. n, S)
  BY <1>2 DEF Injection, IsInjective
<1>5. f \in Surjection(1 .. n, S)
  BY <1>3, <1>4, FS_Injection DEF n
<1>6. \A x \in S : \E i \in 1 .. n : f[i] = x
  BY <1>5 DEF Surjection
<1>7. n \in Nat
  BY <1>1 DEF n
<1>8. f \in Seq(S) /\ DOMAIN f = 1 .. n
  BY <1>2, <1>7
<1> QED  BY <1>2, <1>6, <1>8 DEF ToSet
-----------------------------------------------------------------------------
(* Types *)

Runnable == Tasks \cup {EngineTask}

(* The engine waits in ready once, if its queue holds something, and else  *)
(* not at all.                                                             *)
EngineOnce(tasks) ==
    \A i, j \in DOMAIN tasks : tasks[i] = EngineTask /\ tasks[j] = EngineTask => i = j

EngineFits(tasks, queue) ==
    EngineOnce(tasks) /\ (EngineTask \in ToSet(tasks) => queue # <<>>)

(* The tasks of the client among these.                                    *)
Running(tasks) == ToSet(tasks) \ {EngineTask}

(* The task of an order message is for the order the message names.        *)
NamesItsOrder(tasks) ==
    \A task \in Running(tasks) : IsOrderTask(task) => task.message.order = task.order

TypeInv ==
    /\ TypeOK
    /\ EngineFits(ready, events)
    /\ NamesItsOrder(ready) /\ NamesItsOrder(waiting)

LEMMA MessageKinds ==
    ASSUME NEW m \in Messages
    PROVE  \/ /\ m.kind = "order" /\ m.order \in Orders
              /\ m.type \in {"PLACEMENT", "UPDATE", "CANCELLATION"}
           \/ /\ m.kind = "trade" /\ m.trade \in Trades
              /\ m.type \in {"MATCHED", "MINED"}
  BY DEF Messages

LEMMA TaskFields ==
    ASSUME NEW task \in Tasks
    PROVE  /\ task # EngineTask /\ task.order \in Orders /\ task.linked \in BOOLEAN
           /\ task.message \in Messages
           /\ task.message.kind \in {"order", "trade"}
<1>1. task.message \in Messages /\ task.order \in Orders /\ task.linked \in BOOLEAN
  BY DEF Tasks
<1>2. task.message.kind \in {"order", "trade"}
  BY <1>1, MessageKinds
<1>3. EngineTask.message.kind = "engine"
  BY DEF EngineTask
<1> QED  BY <1>1, <1>2, <1>3

LEMMA NewTaskType ==
    ASSUME NEW m \in Messages, NEW o \in Orders
    PROVE  NewTask(m, o) \in Tasks
  BY DEF NewTask, Tasks

(* Tasks of the client leave the engine's place alone.                     *)
LEMMA JoinKeepsEngine ==
    ASSUME NEW s \in Seq(Runnable), NEW t \in Seq(Tasks), NEW queue, EngineFits(s, queue)
    PROVE  EngineFits(s \o t, queue)
<1>1. \A i \in DOMAIN t : t[i] # EngineTask
  BY TaskFields
<1>2. ASSUME NEW i \in DOMAIN (s \o t), (s \o t)[i] = EngineTask
      PROVE  i \in DOMAIN s /\ s[i] = EngineTask
  <2>1. i \in 1 .. Len(s) + Len(t)
    BY <1>2
  <2>2. CASE i \in 1 .. Len(s)
    BY <2>2, <1>2
  <2>3. CASE i \notin 1 .. Len(s)
    <3>1. i - Len(s) \in DOMAIN t /\ (s \o t)[i] = t[i - Len(s)]
      BY <2>1, <2>3
    <3> QED  BY <3>1, <1>1, <1>2
  <2> QED  BY <2>2, <2>3
<1>3. EngineOnce(s \o t)
  BY <1>2 DEF EngineFits, EngineOnce
<1>4. EngineTask \in ToSet(s \o t) => EngineTask \in ToSet(s)
  BY <1>2 DEF ToSet
<1> QED  BY <1>3, <1>4 DEF EngineFits

LEMMA HeadKeepsEngine ==
    ASSUME NEW s \in Seq(Runnable), s # <<>>, NEW queue, EngineFits(s, queue)
    PROVE  /\ EngineFits(Tail(s), queue)
           /\ Head(s) = EngineTask => queue # <<>> /\ EngineTask \notin ToSet(Tail(s))
<1>1. Len(s) \in Nat \ {0} /\ Head(s) = s[1] /\ Tail(s) \in Seq(Runnable)
      /\ Len(Tail(s)) = Len(s) - 1 /\ \A i \in 1 .. Len(s) - 1 : Tail(s)[i] = s[i + 1]
  OBVIOUS
<1>2. DOMAIN Tail(s) = 1 .. Len(s) - 1 /\ DOMAIN s = 1 .. Len(s)
  BY <1>1
<1>3. \A i \in DOMAIN Tail(s) : i + 1 \in DOMAIN s /\ i + 1 # 1 /\ Tail(s)[i] = s[i + 1]
  BY <1>1, <1>2
<1>4. EngineOnce(Tail(s))
  BY <1>2, <1>3 DEF EngineFits, EngineOnce
<1>5. ToSet(s) = {Head(s)} \cup ToSet(Tail(s))
  BY HeadElement
<1>6. Head(s) = EngineTask => EngineTask \notin ToSet(Tail(s))
  BY <1>1, <1>2, <1>3 DEF EngineFits, EngineOnce, ToSet
<1> QED  BY <1>4, <1>5, <1>6 DEF EngineFits

(* A list to which the engine is added, if it was idle, fits the queue.    *)
LEMMA EngineWoken ==
    ASSUME TypeInv, NEW new \in Seq(Events), NEW tasks \in Seq(Runnable),
           EngineFits(tasks, events), NEW queue, queue = events \o new
    PROVE  /\ queue \in Seq(Events) /\ WithEngine(new, tasks) \in Seq(Runnable)
           /\ EngineFits(WithEngine(new, tasks), queue)
           /\ ToSet(queue) = ToSet(events) \cup ToSet(new)
           /\ ToSet(WithEngine(new, tasks)) \ {EngineTask} = ToSet(tasks) \ {EngineTask}
<1> DEFINE queued == WithEngine(new, tasks)
<1>1. events \in Seq(Events)
  BY DEF TypeInv, TypeOK
<1>2. queue \in Seq(Events) /\ ToSet(queue) = ToSet(events) \cup ToSet(new)
  BY <1>1, JoinElements
<1>3. CASE events = <<>> /\ new # <<>>
  <2>1. queued = Append(tasks, EngineTask) /\ queue # <<>>
    <3>1. Len(new) # 0 /\ Len(queue) = Len(events) + Len(new) /\ Len(events) = 0
      BY <1>1, <1>3
    <3> QED  BY <1>3, <3>1 DEF WithEngine
  <2> HIDE DEF queued
  <2>2. EngineTask \notin ToSet(tasks)
    BY <1>3 DEF EngineFits
  <2>3. Len(tasks) \in Nat /\ DOMAIN tasks = 1 .. Len(tasks)
        /\ DOMAIN queued = 1 .. Len(tasks) + 1
        /\ \A i \in 1 .. Len(tasks) : queued[i] = tasks[i]
    BY <2>1
  <2>4. EngineOnce(queued)
    <3>1. ASSUME NEW i \in DOMAIN queued, queued[i] = EngineTask
          PROVE  i = Len(tasks) + 1
      <4>1. i \in 1 .. Len(tasks) + 1
        BY <2>3
      <4>2. i \in 1 .. Len(tasks) => tasks[i] = EngineTask /\ i \in DOMAIN tasks
        BY <2>3, <3>1
      <4>3. i \notin 1 .. Len(tasks)
        BY <2>2, <4>2 DEF ToSet
      <4> QED  BY <2>3, <4>1, <4>3
    <3> QED  BY <3>1 DEF EngineOnce
  <2>5. queued \in Seq(Runnable) /\ ToSet(queued) = ToSet(tasks) \cup {EngineTask}
    BY <2>1, LastElement DEF Runnable
  <2>6. EngineFits(queued, queue)
    BY <2>1, <2>4 DEF EngineFits
  <2> QED  BY <1>2, <2>5, <2>6 DEF queued
<1>4. CASE ~(events = <<>> /\ new # <<>>)
  <2>1. WithEngine(new, tasks) = tasks
    BY <1>4 DEF WithEngine
  <2>2. events # <<>> => queue # <<>>
    <3>1. Len(queue) = Len(events) + Len(new) /\ Len(events) \in Nat /\ Len(new) \in Nat
      BY <1>1
    <3>2. events # <<>> => Len(events) # 0
      BY <1>1
    <3>3. queue = <<>> => Len(queue) = 0
      OBVIOUS
    <3> QED  BY <3>1, <3>2, <3>3
  <2>3. EngineFits(tasks, queue)
    BY <2>2 DEF EngineFits
  <2> QED  BY <1>2, <2>1, <2>3
<1> QED  BY <1>3, <1>4

(* Generate adds the events to the queue, and to the tasks none but the    *)
(* engine.                                                                 *)
LEMMA GenerateAdds ==
    ASSUME TypeInv, NEW new \in Seq(Events), NEW tasks \in Seq(Runnable),
           EngineFits(tasks, events), Generate(new, tasks)
    PROVE  /\ events' \in Seq(Events) /\ ready' \in Seq(Runnable)
           /\ EngineFits(ready', events')
           /\ ToSet(events') = ToSet(events) \cup ToSet(new)
           /\ ToSet(ready') \ {EngineTask} = ToSet(tasks) \ {EngineTask}
  BY EngineWoken DEF Generate

(* The waiting tasks picked out are those of the set.                      *)
LEMMA PicksWaiting ==
    ASSUME TypeInv, NEW set
    PROVE  WaitingIn(set) \in Seq(Tasks) /\ ToSet(WaitingIn(set)) = ToSet(waiting) \cap set
<1> DEFINE picks == [i \in DOMAIN waiting |->
                        IF waiting[i] \in set THEN <<waiting[i]>> ELSE <<>>]
<1>1. waiting \in Seq(Tasks)
  BY DEF TypeInv, TypeOK
<1>2. picks \in Seq(Seq(Tasks)) /\ DOMAIN picks = DOMAIN waiting
  <2>1. \A i \in DOMAIN waiting : waiting[i] \in Tasks /\ picks[i] \in Seq(Tasks)
    BY <1>1
  <2>2. DOMAIN waiting = 1 .. Len(waiting) /\ Len(waiting) \in Nat
    BY <1>1
  <2>3. picks \in [1 .. Len(waiting) -> Seq(Tasks)]
    BY <2>1, <2>2
  <2> QED  BY <2>2, <2>3
<1>3. \A i \in DOMAIN waiting :
          ToSet(picks[i]) = IF waiting[i] \in set THEN {waiting[i]} ELSE {}
  <2>1. \A x : ToSet(<<x>>) = {x}
    BY DEF ToSet
  <2>2. ToSet(<<>>) = {}
    BY DEF ToSet
  <2> QED  BY <2>1, <2>2
<1> HIDE DEF picks
<1>4. /\ FlattenSeq(picks) \in Seq(Tasks)
      /\ ToSet(FlattenSeq(picks)) = UNION {ToSet(picks[i]) : i \in DOMAIN picks}
  BY <1>2, FlattenElements
<1>5. UNION {ToSet(picks[i]) : i \in DOMAIN picks} = ToSet(waiting) \cap set
  <2>1. ToSet(waiting) = {waiting[i] : i \in DOMAIN waiting}
    BY DEF ToSet
  <2> QED  BY <2>1, <1>2, <1>3
<1>6. WaitingIn(set) = FlattenSeq(picks)
  BY DEF WaitingIn, picks
<1> QED  BY <1>4, <1>5, <1>6

(* An answer wakes exactly the tasks whose event it sets.                  *)
LEMMA WokenElements ==
    ASSUME TypeInv, NEW success \in SUBSET Orders, NEW first \in SetToSeqs(success)
    PROVE  LET woken == FlattenSeq([i \in DOMAIN first |-> Woken(first[i])])
           IN  woken \in Seq(Tasks) /\ ToSet(woken) = WokenBy(success)
<1> DEFINE groups == [i \in DOMAIN first |-> Woken(first[i])]
<1>1. ASSUME NEW o
      PROVE  Woken(o) \in Seq(Tasks) /\ ToSet(Woken(o)) = WokenBy({o})
  <2> DEFINE orders == WaitingIn({task \in WokenBy({o}) : IsOrderTask(task)})
             trades == WaitingIn({task \in WokenBy({o}) : ~IsOrderTask(task)})
  <2>1. orders \in Seq(Tasks) /\ trades \in Seq(Tasks)
    BY PicksWaiting
  <2>2. ToSet(orders) = ToSet(waiting) \cap {task \in WokenBy({o}) : IsOrderTask(task)}
    BY PicksWaiting
  <2>3. ToSet(trades) = ToSet(waiting) \cap {task \in WokenBy({o}) : ~IsOrderTask(task)}
    BY PicksWaiting
  <2> HIDE DEF orders, trades
  <2>4. orders \o trades \in Seq(Tasks)
        /\ ToSet(orders \o trades) = ToSet(orders) \cup ToSet(trades)
    BY <2>1, JoinElements
  <2>5. ToSet(orders) \cup ToSet(trades) = WokenBy({o})
    BY <2>2, <2>3 DEF WokenBy
  <2>6. Woken(o) = orders \o trades
    BY DEF Woken, orders, trades
  <2> QED  BY <2>4, <2>5, <2>6
<1>2. first \in Seq(success) /\ ToSet(first) = success
  <2>1. IsFiniteSet(success)
    BY ExecutionAssumption, FS_Subset
  <2> QED  BY <2>1, PermutationElements
<1>3. groups \in Seq(Seq(Tasks)) /\ DOMAIN groups = DOMAIN first
  <2>1. Len(first) \in Nat /\ DOMAIN first = 1 .. Len(first)
    BY <1>2
  <2>2. groups \in [1 .. Len(first) -> Seq(Tasks)]
    BY <1>1, <2>1
  <2> QED  BY <2>1, <2>2
<1>4. \A i \in DOMAIN first : ToSet(groups[i]) = WokenBy({first[i]})
  BY <1>1
<1> HIDE DEF groups
<1>5. /\ FlattenSeq(groups) \in Seq(Tasks)
      /\ ToSet(FlattenSeq(groups)) = UNION {ToSet(groups[i]) : i \in DOMAIN groups}
  BY <1>3, FlattenElements
<1>6. UNION {ToSet(groups[i]) : i \in DOMAIN groups} = WokenBy(success)
  <2>1. success = {first[i] : i \in DOMAIN first}
    BY <1>2 DEF ToSet
  <2>2. UNION {ToSet(groups[i]) : i \in DOMAIN groups}
            = UNION {WokenBy({o}) : o \in success}
    BY <1>3, <1>4, <2>1
  <2> QED  BY <2>2 DEF WokenBy
<1> QED  BY <1>5, <1>6 DEF groups

(* What an answer does that calls these orders of a list a success.        *)
Answered(list, success) ==
    /\ posts' = posts \ {list} /\ known' = known \cup success
    /\ waiting' \in Seq(Tasks) /\ ToSet(waiting') = ToSet(waiting) \ WokenBy(success)
    /\ ready' \in Seq(Runnable) /\ EngineFits(ready', events')
    /\ Running(ready') = Running(ready) \cup WokenBy(success)
    /\ events' \in Seq(Events) /\ ToSet(events) \subseteq ToSet(events')
    /\ \A e \in ToSet(events') \ ToSet(events) :
          e.kind = "rejected" /\ e.order \in list \ success

LEMMA AnswerDoes ==
    ASSUME TypeInv, Answer
    PROVE  \E list \in posts : \E success \in SUBSET list : Answered(list, success)
<1> DEFINE Ends(list, success, first, rest, last) ==
              /\ posts' = posts \ {list} /\ known' = known \cup success
              /\ waiting' = WaitingIn(ToSet(waiting) \ WokenBy(success))
              /\ events' = events \o Rejections(last)
              /\ ready' = WithEngine(Rejections(last), ready \o WokenInTurn(first))
                            \o WokenInTurn(rest)
<1>a. PICK list \in posts : \E success \in SUBSET list : \E early \in SUBSET success :
        \E first \in SetToSeqs(early), rest \in SetToSeqs(success \ early),
           last \in SetToSeqs(list \ success) : Ends(list, success, first, rest, last)
  BY DEF Answer
<1>b. PICK success \in SUBSET list : \E early \in SUBSET success :
        \E first \in SetToSeqs(early), rest \in SetToSeqs(success \ early),
           last \in SetToSeqs(list \ success) : Ends(list, success, first, rest, last)
  BY <1>a
<1>c. PICK early \in SUBSET success :
        \E first \in SetToSeqs(early), rest \in SetToSeqs(success \ early),
           last \in SetToSeqs(list \ success) : Ends(list, success, first, rest, last)
  BY <1>b
<1>1. PICK first \in SetToSeqs(early), rest \in SetToSeqs(success \ early),
           last \in SetToSeqs(list \ success) : Ends(list, success, first, rest, last)
  BY <1>c
<1>2. ready \in Seq(Runnable) /\ events \in Seq(Events) /\ list \subseteq Orders
      /\ EngineFits(ready, events)
  BY DEF TypeInv, TypeOK, Runnable
<1> DEFINE woken == WokenInTurn(first)
           later == WokenInTurn(rest)
           new == Rejections(last)
           queued == WithEngine(new, ready \o woken)
<1>3. /\ woken \in Seq(Tasks) /\ ToSet(woken) = WokenBy(early)
      /\ later \in Seq(Tasks) /\ ToSet(later) = WokenBy(success \ early)
  BY <1>2, WokenElements DEF WokenInTurn
<1>4. last \in Seq(list \ success)
  <2>1. IsFiniteSet(list \ success)
    BY <1>2, ExecutionAssumption, FS_Subset
  <2> QED  BY <2>1, PermutationElements
<1>5. new \in Seq(Events)
      /\ \A e \in ToSet(new) : e.kind = "rejected" /\ e.order \in list \ success
  <2>1. Len(last) \in Nat /\ DOMAIN last = 1 .. Len(last)
        /\ \A i \in DOMAIN last : last[i] \in list \ success
    BY <1>4
  <2>2. \A i \in DOMAIN last : Event("rejected", last[i], "none") \in Events
    BY <1>2, <2>1 DEF Event, Events
  <2>3. new \in [1 .. Len(last) -> Events]
    BY <2>1, <2>2 DEF Rejections
  <2>4. \A i \in DOMAIN last : new[i].kind = "rejected" /\ new[i].order = last[i]
    BY DEF Event, Rejections
  <2>5. \A e \in ToSet(new) : e.kind = "rejected" /\ e.order \in list \ success
    BY <2>1, <2>3, <2>4 DEF ToSet
  <2> QED  BY <2>1, <2>3, <2>5
<1>6. events' = events \o new /\ ready' = queued \o later
      /\ posts' = posts \ {list} /\ known' = known \cup success
      /\ waiting' = WaitingIn(ToSet(waiting) \ WokenBy(success))
  BY <1>1
<1> HIDE DEF woken, later, new, Ends
<1>7. woken \in Seq(Runnable) /\ later \in Seq(Runnable)
  BY <1>3 DEF Runnable
<1>8. /\ ready \o woken \in Seq(Runnable) /\ EngineFits(ready \o woken, events)
      /\ ToSet(ready \o woken) = ToSet(ready) \cup ToSet(woken)
  BY <1>2, <1>3, <1>7, JoinElements, JoinKeepsEngine
<1>9. /\ events' \in Seq(Events) /\ queued \in Seq(Runnable)
      /\ EngineFits(queued, events')
      /\ ToSet(events') = ToSet(events) \cup ToSet(new)
      /\ ToSet(queued) \ {EngineTask} = ToSet(ready \o woken) \ {EngineTask}
  BY <1>5, <1>6, <1>8, EngineWoken
<1> HIDE DEF queued
<1>10. EngineTask \notin ToSet(woken) /\ EngineTask \notin ToSet(later)
  <2>1. /\ \A i \in DOMAIN woken : woken[i] # EngineTask
        /\ \A i \in DOMAIN later : later[i] # EngineTask
    BY <1>3, TaskFields
  <2> QED  BY <2>1 DEF ToSet
<1>11. /\ ready' \in Seq(Runnable) /\ EngineFits(ready', events')
       /\ ToSet(ready') = ToSet(queued) \cup ToSet(later)
  BY <1>3, <1>6, <1>7, <1>9, JoinElements, JoinKeepsEngine
<1>12. waiting' \in Seq(Tasks) /\ ToSet(waiting') = ToSet(waiting) \ WokenBy(success)
  <2>1. WaitingIn(ToSet(waiting) \ WokenBy(success)) \in Seq(Tasks)
        /\ ToSet(WaitingIn(ToSet(waiting) \ WokenBy(success)))
              = ToSet(waiting) \cap (ToSet(waiting) \ WokenBy(success))
    BY PicksWaiting
  <2> QED  BY <1>6, <2>1
<1>13. ToSet(ready') \ {EngineTask} = (ToSet(ready) \ {EngineTask}) \cup WokenBy(success)
  <2>1. WokenBy(success) = WokenBy(early) \cup WokenBy(success \ early)
    BY DEF WokenBy
  <2> QED  BY <1>3, <1>8, <1>9, <1>10, <1>11, <2>1
<1>14. \A e \in ToSet(events') \ ToSet(events) : e.kind = "rejected" /\ e.order \in list \ success
  BY <1>5, <1>9
<1>15. Answered(list, success)
  BY <1>6, <1>9, <1>11, <1>12, <1>13, <1>14 DEF Answered, Running
<1> QED  BY <1>15

(* What one turn of a handler does to the queue and to the tasks.          *)
LEMMA HandleDoes ==
    ASSUME TypeInv, NEW task \in Tasks, NEW tasks \in Seq(Runnable),
           EngineFits(tasks, events), Handle(task, tasks),
           IsOrderTask(task) => task.message.order = task.order
    PROVE  /\ events' \in Seq(Events) /\ ready' \in Seq(Runnable)
           /\ EngineFits(ready', events')
           /\ Running(ready') = Running(tasks) /\ ToSet(events) \subseteq ToSet(events')
           /\ filled \subseteq filled' /\ filled' \subseteq Fills
           /\ open' \subseteq Trades /\ final' \subseteq Trades
           /\ reported' \subseteq Orders
           /\ \A e \in ToSet(events') \ ToSet(events) :
                 /\ e.order = task.order /\ task.order \in known
                 /\ \/ e.kind = "accepted" /\ IsOrderTask(task)
                    \/ /\ e.kind = "canceled" /\ IsOrderTask(task)
                       /\ task.message.type = "CANCELLATION"
                    \/ /\ e.kind = "filled" /\ ~IsOrderTask(task)
                       /\ <<e.trade, e.order>> \in filled'
<1>1. /\ task.order \in Orders /\ task.message \in Messages
      /\ filled \subseteq Fills /\ open \subseteq Trades /\ final \subseteq Trades
      /\ reported \subseteq Orders
  BY TaskFields DEF TypeInv, TypeOK
<1>2. ASSUME NEW new \in Seq(Events), Generate(new, tasks)
      PROVE  /\ events' \in Seq(Events) /\ ready' \in Seq(Runnable)
             /\ EngineFits(ready', events') /\ Running(ready') = Running(tasks)
             /\ ToSet(events) \subseteq ToSet(events')
             /\ ToSet(events') \ ToSet(events) \subseteq ToSet(new)
  BY <1>2, GenerateAdds DEF Running
<1>3. ToSet(<<>>) = {} /\ <<>> \in Seq(Events) /\ \A x : ToSet(<<x>>) = {x}
  BY DEF ToSet
<1>4. CASE IsOrderTask(task)
  <2> DEFINE o == task.order
  <2>1. /\ UNCHANGED <<filled, open, final>>
        /\ \/ Generate(<<>>, tasks) /\ reported' \subseteq Orders
           \/ /\ o \in known /\ UNCHANGED reported
              /\ \/ Generate(<<Event("accepted", o, "none")>>, tasks)
                 \/ /\ task.message.type = "CANCELLATION"
                    /\ Generate(<<Event("canceled", o, "none")>>, tasks)
    BY <1>1, <1>4 DEF Handle, HandleOrder
  <2>2. CASE Generate(<<>>, tasks) /\ reported' \subseteq Orders
    BY <1>1, <1>2, <1>3, <2>1, <2>2
  <2>3. ASSUME NEW kind \in {"accepted", "canceled"},
               kind = "canceled" => task.message.type = "CANCELLATION",
               o \in known, UNCHANGED reported,
               Generate(<<Event(kind, o, "none")>>, tasks)
        PROVE  /\ events' \in Seq(Events) /\ ready' \in Seq(Runnable)
               /\ EngineFits(ready', events')
               /\ Running(ready') = Running(tasks) /\ ToSet(events) \subseteq ToSet(events')
               /\ \A e \in ToSet(events') \ ToSet(events) :
                     e = Event(kind, o, "none")
    <3>1. Event(kind, o, "none") \in Events
      BY <1>1 DEF Event, Events
    <3> DEFINE e == Event(kind, o, "none")
    <3> HIDE DEF e
    <3>2. <<e>> \in Seq(Events) /\ ToSet(<<e>>) = {e}
      BY <1>3, <3>1 DEF e
    <3>3. Generate(<<e>>, tasks)
      BY <2>3 DEF e
    <3> QED  BY <1>2, <3>2, <3>3 DEF e
  <2>4. \A kind : Event(kind, o, "none").kind = kind /\ Event(kind, o, "none").order = o
    BY DEF Event
  <2> HIDE DEF o
  <2> QED  BY <1>1, <1>4, <2>1, <2>2, <2>3, <2>4 DEF o
<1>5. CASE ~IsOrderTask(task)
  <2> DEFINE f == <<task.message.trade, task.order>>
             e == Event("filled", task.order, task.message.trade)
  <2>1. task.message.trade \in Trades
    BY <1>1, <1>5, MessageKinds DEF IsOrderTask
  <2>2. HandleFill(task.message, task.order, tasks)
    BY <1>5 DEF Handle
  <2>3. f \in Fills /\ e \in Events /\ e.kind = "filled" /\ e.order = task.order
        /\ <<e.trade, e.order>> = f
    BY <1>1, <2>1 DEF Fills, Event, Events
  <2>4. filled \subseteq filled' /\ filled' \subseteq Fills
        /\ open' \subseteq Trades /\ final' \subseteq Trades /\ reported' \subseteq Orders
    BY <1>1, <2>1, <2>2, <2>3 DEF HandleFill, RecordTrade
  <2>5. \/ Generate(<<>>, tasks)
        \/ Generate(<<e>>, tasks) /\ task.order \in known /\ f \in filled'
    BY <2>2 DEF HandleFill
  <2> HIDE DEF e
  <2>6. <<e>> \in Seq(Events) /\ ToSet(<<e>>) = {e}
    BY <1>3, <2>3
  <2> QED  BY <1>2, <1>3, <1>5, <2>3, <2>4, <2>5, <2>6
<1> QED  BY <1>4, <1>5

LEMMA ClientTasks ==
    ASSUME TypeInv
    PROVE  /\ ready \in Seq(Runnable) /\ Running(ready) \subseteq Tasks
           /\ waiting \in Seq(Tasks) /\ Running(waiting) = ToSet(waiting)
           /\ ToSet(waiting) \subseteq Tasks
<1>1. ready \in Seq(Runnable) /\ waiting \in Seq(Tasks)
  BY DEF TypeInv, TypeOK, Runnable
<1>2. \A i \in DOMAIN ready : ready[i] \in Runnable
  BY <1>1
<1>3. \A i \in DOMAIN waiting : waiting[i] \in Tasks /\ waiting[i] # EngineTask
  BY <1>1, TaskFields
<1> QED  BY <1>1, <1>2, <1>3 DEF Running, ToSet, Runnable

(* The task that runs next.                                                *)
LEMMA NextTask ==
    ASSUME TypeInv, ready # <<>>
    PROVE  /\ Head(ready) \in Runnable /\ Tail(ready) \in Seq(Runnable)
           /\ EngineFits(Tail(ready), events)
           /\ Head(ready) = EngineTask =>
                 /\ events # <<>> /\ EngineTask \notin ToSet(Tail(ready))
                 /\ Running(ready) = Running(Tail(ready))
           /\ Head(ready) # EngineTask =>
                 /\ Head(ready) \in Tasks
                 /\ Running(ready) = {Head(ready)} \cup Running(Tail(ready))
                 /\ IsOrderTask(Head(ready)) => Head(ready).message.order = Head(ready).order
<1>1. ready \in Seq(Runnable) /\ EngineFits(ready, events) /\ NamesItsOrder(ready)
  BY ClientTasks DEF TypeInv
<1>2. /\ Head(ready) \in Runnable /\ Tail(ready) \in Seq(Runnable)
      /\ ToSet(ready) = {Head(ready)} \cup ToSet(Tail(ready))
  BY <1>1, HeadElement
<1>3. /\ EngineFits(Tail(ready), events)
      /\ Head(ready) = EngineTask => events # <<>> /\ EngineTask \notin ToSet(Tail(ready))
  BY <1>1, HeadKeepsEngine
<1>4. Head(ready) # EngineTask => Head(ready) \in Running(ready)
  BY <1>2 DEF Running
<1> QED  BY <1>1, <1>2, <1>3, <1>4 DEF Running, NamesItsOrder, Runnable

(* The task that times out.                                                *)
LEMMA LongestWait ==
    ASSUME TypeInv, waiting # <<>>
    PROVE  /\ Head(waiting) \in Tasks /\ Tail(waiting) \in Seq(Tasks)
           /\ ToSet(waiting) = {Head(waiting)} \cup ToSet(Tail(waiting))
           /\ IsOrderTask(Head(waiting)) => Head(waiting).message.order = Head(waiting).order
<1>1. waiting \in Seq(Tasks) /\ Running(waiting) = ToSet(waiting) /\ NamesItsOrder(waiting)
  BY ClientTasks DEF TypeInv
<1> QED  BY <1>1, HeadElement DEF NamesItsOrder

(* Those that go on waiting, some of them in vain.                         *)
StillWait ==
    /\ waiting' \in Seq(Tasks)
    /\ \A w \in ToSet(waiting') : \E v \in ToSet(Tail(waiting)) :
          /\ w.message = v.message /\ w.order = v.order
          /\ ~w.linked => ~v.linked \/ SharesEvent(Head(waiting), v)
          /\ w.linked => v.linked
    /\ \A v \in ToSet(Tail(waiting)) : \E w \in ToSet(waiting') :
          w.message = v.message /\ w.order = v.order

LEMMA TimeOutWaits ==
    ASSUME TypeInv, TimeOut
    PROVE  StillWait
<1> DEFINE rest == Tail(waiting)
           alone == {i \in DOMAIN rest : SharesEvent(Head(waiting), rest[i])}
<1>1. rest \in Seq(Tasks)
  BY LongestWait DEF TimeOut
<1>2. waiting' = [i \in DOMAIN rest |-> [rest[i] EXCEPT !.linked = @ /\ i \notin alone]]
  BY DEF TimeOut
<1>3. Len(rest) \in Nat /\ DOMAIN rest = 1 .. Len(rest) /\ \A i \in DOMAIN rest : rest[i] \in Tasks
  BY <1>1
<1>4. ASSUME NEW i \in DOMAIN rest
      PROVE  /\ waiting'[i] \in Tasks
             /\ waiting'[i].message = rest[i].message /\ waiting'[i].order = rest[i].order
             /\ ~waiting'[i].linked => ~rest[i].linked \/ SharesEvent(Head(waiting), rest[i])
             /\ waiting'[i].linked => rest[i].linked
  <2>1. rest[i] \in Tasks
    BY <1>3
  <2> DEFINE b == rest[i].linked /\ i \notin alone
  <2>2. waiting'[i] = [rest[i] EXCEPT !.linked = b]
    BY <1>2
  <2>3. b \in BOOLEAN
    OBVIOUS
  <2>4. ~b => ~rest[i].linked \/ SharesEvent(Head(waiting), rest[i])
    OBVIOUS
  <2>5. b => rest[i].linked
    OBVIOUS
  <2> HIDE DEF b, rest
  <2>6. /\ waiting'[i] \in Tasks /\ waiting'[i].linked = b
        /\ waiting'[i].message = rest[i].message /\ waiting'[i].order = rest[i].order
    BY <2>1, <2>2, <2>3 DEF Tasks
  <2> QED  BY <2>4, <2>5, <2>6
<1>5. DOMAIN waiting' = DOMAIN rest
  BY <1>2
<1> HIDE DEF rest, alone
<1>6. waiting' \in [1 .. Len(rest) -> Tasks]
  <2>1. \A i \in 1 .. Len(rest) : waiting'[i] \in Tasks
    BY <1>3, <1>4
  <2> QED  BY <1>2, <1>3, <2>1
<1>7. waiting' \in Seq(Tasks)
  BY <1>3, <1>6
<1>8. ToSet(waiting') = {waiting'[i] : i \in DOMAIN rest}
      /\ ToSet(rest) = {rest[i] : i \in DOMAIN rest}
  BY <1>5 DEF ToSet
<1>9. \A w \in ToSet(waiting') : \E v \in ToSet(rest) :
          /\ w.message = v.message /\ w.order = v.order
          /\ ~w.linked => ~v.linked \/ SharesEvent(Head(waiting), v)
          /\ w.linked => v.linked
  BY <1>4, <1>8
<1>10. \A v \in ToSet(rest) : \E w \in ToSet(waiting') :
          w.message = v.message /\ w.order = v.order
  BY <1>4, <1>8
<1> QED  BY <1>7, <1>9, <1>10 DEF StillWait, rest

(* What a message of the channel does.                                     *)
Received(m, new) ==
    /\ ready' \in Seq(Runnable) /\ EngineFits(ready', events)
    /\ Running(ready') = Running(ready) \cup new /\ new \subseteq Tasks
    /\ \A task \in new : task.linked /\ task.message = m
    /\ m.kind = "order" =>
          /\ \A task \in new : task.order = m.order
          /\ UNCHANGED <<seen, open, final>>
    /\ m.kind = "trade" =>
          /\ \A task \in new : task.order \in fillsOf[m.trade]
          /\ \/ /\ new = {} /\ UNCHANGED seen /\ m.trade \in open \cup final
                /\ open' \subseteq open /\ final' \subseteq final \cup {m.trade}
             \/ /\ seen' = seen \cup {m.trade} \X fillsOf[m.trade]
                /\ \A o \in fillsOf[m.trade] : \E task \in new : task.order = o
                /\ UNCHANGED <<open, final>>

LEMMA ReceiveDoes ==
    ASSUME TypeInv, Receive
    PROVE  /\ wire # <<>> /\ wire' = Tail(wire) /\ Head(wire) \in Messages
           /\ \E new \in SUBSET Tasks : Received(Head(wire), new)
<1> DEFINE m == Head(wire)
           t == m.trade
<1>1. wire # <<>> /\ wire' = Tail(wire) /\ m \in Messages
  <2>1. wire \in Seq(Messages) /\ wire # <<>>
    BY DEF TypeInv, TypeOK, Receive
  <2> QED  BY <2>1, HeadElement DEF Receive
<1>2. ready \in Seq(Runnable) /\ EngineFits(ready, events)
  BY ClientTasks DEF TypeInv
<1>3. ASSUME NEW tasks \in Seq(Tasks), ready' = ready \o tasks
      PROVE  /\ ready' \in Seq(Runnable) /\ EngineFits(ready', events)
             /\ Running(ready') = Running(ready) \cup ToSet(tasks)
             /\ ToSet(tasks) \subseteq Tasks
  <2>1. tasks \in Seq(Runnable)
    BY DEF Runnable
  <2>2. ready' \in Seq(Runnable) /\ ToSet(ready') = ToSet(ready) \cup ToSet(tasks)
    BY <1>2, <1>3, <2>1, JoinElements
  <2>3. \A task \in ToSet(tasks) : task \in Tasks /\ task # EngineTask
    BY TaskFields DEF ToSet
  <2>4. EngineFits(ready', events)
    BY <1>2, <1>3, JoinKeepsEngine
  <2> QED  BY <2>2, <2>3, <2>4 DEF Running
<1>4. ASSUME UNCHANGED ready
      PROVE  /\ ready' \in Seq(Runnable) /\ EngineFits(ready', events)
             /\ Running(ready') = Running(ready) \cup {}
  BY <1>2, <1>4
<1> HIDE DEF m
<1>5. CASE m.kind = "order"
  <2>1. ready' = Append(ready, NewTask(m, m.order)) /\ UNCHANGED <<seen, open, final>>
    BY <1>5 DEF Receive, m
  <2>2. NewTask(m, m.order) \in Tasks
    BY <1>1, <1>5, MessageKinds, NewTaskType
  <2>3. <<NewTask(m, m.order)>> \in Seq(Tasks)
        /\ ready' = ready \o <<NewTask(m, m.order)>>
        /\ ToSet(<<NewTask(m, m.order)>>) = {NewTask(m, m.order)}
    BY <1>2, <2>1, <2>2 DEF ToSet
  <2>4. /\ NewTask(m, m.order).linked /\ NewTask(m, m.order).message = m
        /\ NewTask(m, m.order).order = m.order
    BY DEF NewTask
  <2>5. Received(m, {NewTask(m, m.order)})
    <3> DEFINE task == NewTask(m, m.order)
    <3> HIDE DEF task
    <3> QED  BY <1>3, <1>5, <2>1, <2>3, <2>4 DEF Received, task
  <2> QED  BY <1>1, <2>2, <2>5 DEF m
<1>6. CASE m.kind = "trade"
  <2>1. \/ /\ t \in final \cup open /\ UNCHANGED <<ready, seen>>
           /\ open' \subseteq open /\ final' \subseteq final \cup {t}
        \/ /\ seen' = seen \cup {t} \X fillsOf[t] /\ UNCHANGED <<open, final>>
           /\ \E orders \in SetToSeqs(fillsOf[t]) :
                 ready' = ready \o [i \in DOMAIN orders |-> NewTask(m, orders[i])]
    BY <1>6 DEF Receive, m, Transitions
  <2>2. CASE /\ t \in final \cup open /\ UNCHANGED <<ready, seen>>
             /\ open' \subseteq open /\ final' \subseteq final \cup {t}
    <3>1. Received(m, {})
      BY <1>4, <1>6, <2>2 DEF Received
    <3> QED  BY <1>1, <3>1 DEF m
  <2>3. ASSUME seen' = seen \cup {t} \X fillsOf[t], UNCHANGED <<open, final>>,
               NEW orders \in SetToSeqs(fillsOf[t]),
               ready' = ready \o [i \in DOMAIN orders |-> NewTask(m, orders[i])]
        PROVE  \E new \in SUBSET Tasks : Received(m, new)
    <3> DEFINE tasks == [i \in DOMAIN orders |-> NewTask(m, orders[i])]
    <3>1. t \in Trades /\ fillsOf[t] \subseteq Orders
      BY <1>1, <1>6, MessageKinds DEF TypeInv, TypeOK
    <3>2. orders \in Seq(fillsOf[t]) /\ ToSet(orders) = fillsOf[t]
      <4>1. IsFiniteSet(fillsOf[t])
        BY <3>1, ExecutionAssumption, FS_Subset
      <4> QED  BY <4>1, PermutationElements
    <3>3. Len(orders) \in Nat /\ DOMAIN orders = 1 .. Len(orders)
          /\ \A i \in DOMAIN orders : orders[i] \in fillsOf[t]
      BY <3>2
    <3>4. \A i \in DOMAIN orders : NewTask(m, orders[i]) \in Tasks
      BY <1>1, <3>1, <3>3, NewTaskType
    <3>5. tasks \in [1 .. Len(orders) -> Tasks]
      BY <3>3, <3>4
    <3>6. tasks \in Seq(Tasks) /\ DOMAIN tasks = DOMAIN orders
      BY <3>3, <3>5
    <3>7. \A i \in DOMAIN orders : /\ tasks[i].linked /\ tasks[i].message = m
                                   /\ tasks[i].order = orders[i]
      BY DEF NewTask
    <3> HIDE DEF tasks
    <3>8. ToSet(tasks) = {tasks[i] : i \in DOMAIN orders}
      BY <3>6 DEF ToSet
    <3>9. /\ \A task \in ToSet(tasks) : /\ task.linked /\ task.message = m
                                        /\ task.order \in fillsOf[t]
          /\ \A o \in fillsOf[t] : \E task \in ToSet(tasks) : task.order = o
      <4>1. \A o \in fillsOf[t] : \E i \in DOMAIN orders : orders[i] = o
        BY <3>2 DEF ToSet
      <4> QED  BY <3>3, <3>7, <3>8, <4>1
    <3>10. ready' = ready \o tasks
      BY <2>3 DEF tasks
    <3>11. Received(m, ToSet(tasks))
      BY <1>3, <1>6, <2>3, <3>6, <3>9, <3>10 DEF Received
    <3>12. ToSet(tasks) \subseteq Tasks
      BY <3>6, <3>10, <1>3
    <3> QED  BY <3>11, <3>12
  <2> QED  BY <1>1, <2>1, <2>2, <2>3 DEF m
<1> QED  BY <1>1, <1>5, <1>6, MessageKinds

(* What only the venue and the strategy do leaves the loop alone.          *)
LEMMA OutsideTypes ==
    ASSUME TypeInv, Submit \/ RequestCancel \/ SendCancel \/ Place \/ Match \/ Settle
                    \/ Withdraw \/ Repeat \/ Update
    PROVE  TypeInv' /\ UNCHANGED <<ready, waiting, events>>
<1>1. UNCHANGED <<ready, waiting, events, fillsOf, named, executed, known, filled, open, final,
                  told, seen, overtaken, reported>>
  BY DEF Submit, RequestCancel, SendCancel, Place, Match, Settle, Withdraw, Repeat, Update, client,
         engine, market, history
<1>2. /\ status' \in [Orders -> Statuses] /\ posts' \subseteq SUBSET Orders
      /\ cancels' \in [Orders -> {"none", "asked", "sent", "done"}]
      /\ venue' \in [Orders -> {"none", "asked", "live", "refused", "done"}]
      /\ trade' \in [Trades -> {"none", "MATCHED", "MINED"}] /\ repeats' \in Nat
  <2>5. /\ status \in [Orders -> Statuses] /\ posts \subseteq SUBSET Orders
        /\ cancels \in [Orders -> {"none", "asked", "sent", "done"}]
        /\ venue \in [Orders -> {"none", "asked", "live", "refused", "done"}]
        /\ trade \in [Trades -> {"none", "MATCHED", "MINED"}] /\ repeats \in Nat
    BY DEF TypeInv, TypeOK
  <2>1. CASE Submit
    <3>1. \A S : (\A o \in Orders : o \in S \/ status[o] \in Statuses)
              => [o \in Orders |-> IF o \in S THEN "SUBMITTED" ELSE status[o]]
                    \in [Orders -> Statuses]
      BY DEF Statuses
    <3>2. \A S : [o \in Orders |-> IF o \in S THEN "asked" ELSE venue[o]]
                    \in [Orders -> {"none", "asked", "live", "refused", "done"}]
      BY DEF TypeInv, TypeOK
    <3>3. \A o \in Orders : status[o] \in Statuses
      BY DEF TypeInv, TypeOK
    <3>4. PICK list \in SUBSET Orders \ {{}} :
             /\ status' = [o \in Orders |-> IF o \in list THEN "SUBMITTED" ELSE status[o]]
             /\ venue' = [o \in Orders |-> IF o \in list THEN "asked" ELSE venue[o]]
             /\ posts' = posts \cup {list}
      BY <2>1 DEF Submit
    <3>5. UNCHANGED <<cancels, trade, repeats>>
      BY <2>1 DEF Submit, history
    <3> QED  BY <3>1, <3>2, <3>3, <3>4, <3>5 DEF TypeInv, TypeOK
  <2>2. CASE RequestCancel
    <3>1. UNCHANGED <<posts, venue, trade, repeats>>
      BY <2>2 DEF RequestCancel, market, history
    <3>2. \E o \in Orders : /\ status' = [status EXCEPT ![o] = "PENDING_CANCEL"]
                            /\ cancels' = [cancels EXCEPT ![o] = "asked"]
      BY <2>2, ExecutionAssumption DEF RequestCancel
    <3> QED  BY <2>5, <3>1, <3>2 DEF Statuses
  <2>3. CASE SendCancel
    <3>1. UNCHANGED <<status, posts, venue, trade, repeats>>
      BY <2>3 DEF SendCancel, engine, market, history
    <3>2. \E o \in Orders, s \in {"sent", "none"} : cancels' = [cancels EXCEPT ![o] = s]
      BY <2>3 DEF SendCancel
    <3> QED  BY <2>5, <3>1, <3>2
  <2>6. CASE Place
    <3>1. UNCHANGED <<status, posts, cancels, trade, repeats>>
      BY <2>6 DEF Place, client, engine, history
    <3>2. \E o \in Orders, s \in {"refused", "live"} : venue' = [venue EXCEPT ![o] = s]
      BY <2>6 DEF Place
    <3> QED  BY <2>5, <3>1, <3>2
  <2>7. CASE Settle
    <3>1. UNCHANGED <<status, posts, cancels, venue, repeats>>
      BY <2>7 DEF Settle, client, engine, history
    <3>2. \E t \in Trades : trade' = [trade EXCEPT ![t] = "MINED"]
      BY <2>7 DEF Settle
    <3> QED  BY <2>5, <3>1, <3>2
  <2>8. CASE Withdraw
    <3>1. UNCHANGED <<status, posts, trade, repeats>>
      BY <2>8 DEF Withdraw, client, engine, history
    <3>2. \E o \in Orders :
             /\ UNCHANGED venue \/ venue' = [venue EXCEPT ![o] = "done"]
             /\ \E s \in {"done", cancels[o]} : cancels' = [cancels EXCEPT ![o] = s]
      BY <2>8 DEF Withdraw
    <3> QED  BY <2>5, <3>1, <3>2
  <2>9. CASE Repeat \/ Update
    <3>1. UNCHANGED <<status, posts, cancels, venue, trade>> /\ repeats' = repeats + 1
      BY <2>9 DEF Repeat, Update, client, engine, market
    <3> QED  BY <2>5, <3>1
  <2>4. CASE Match
    <3>1. PICK t \in Trades :
             /\ trade' = [trade EXCEPT ![t] = "MATCHED"]
             /\ venue' = [o \in Orders |->
                  IF o \in fillsOf[t] /\ Complete(o, {u \in Trades : trade'[u] # "none"})
                  THEN "done" ELSE venue[o]]
      BY <2>4 DEF Match
    <3>2. UNCHANGED <<status, posts, cancels, repeats>>
      BY <2>4 DEF Match, client, engine, history
    <3>3. /\ \A o \in Orders : venue[o] \in {"none", "asked", "live", "refused", "done"}
          /\ trade \in [Trades -> {"none", "MATCHED", "MINED"}]
      BY DEF TypeInv, TypeOK
    <3>4. venue' \in [Orders -> {"none", "asked", "live", "refused", "done"}]
      BY <3>1, <3>3
    <3>5. trade' \in [Trades -> {"none", "MATCHED", "MINED"}]
      BY <3>1, <3>3
    <3> QED  BY <3>2, <3>4, <3>5 DEF TypeInv, TypeOK
  <2> QED  BY <2>1, <2>2, <2>3, <2>4, <2>6, <2>7, <2>8, <2>9
<1>3. wire' \in Seq(Messages)
  <2>1. wire \in Seq(Messages)
    BY DEF TypeInv, TypeOK
  <2>2. ASSUME NEW m \in Messages, wire' = Append(wire, m)
        PROVE  wire' \in Seq(Messages)
    BY <2>1, <2>2
  <2>3. \A o \in Orders : /\ OrderMessage("PLACEMENT", o) \in Messages
                          /\ OrderMessage("CANCELLATION", o) \in Messages
                          /\ OrderMessage("UPDATE", o) \in Messages
    BY DEF OrderMessage, Messages
  <2>4. \A t \in Trades, s \in {"MATCHED", "MINED"} : TradeMessage(s, t) \in Messages
    BY DEF TradeMessage, Messages
  <2>5. CASE Submit \/ RequestCancel \/ SendCancel
    BY <2>1, <2>5 DEF Submit, RequestCancel, SendCancel, market
  <2>6. CASE Place \/ Withdraw
    BY <2>1, <2>2, <2>3, <2>6 DEF Place, Withdraw
  <2>7. CASE Match \/ Settle
    BY <2>1, <2>2, <2>4, <2>7 DEF Match, Settle
  <2>8. CASE Repeat
    <3>1. PICK t \in Repeated : trade[t] # "none" /\ wire' = Append(wire, TradeMessage(trade[t], t))
      BY <2>8 DEF Repeat
    <3>2. t \in Trades /\ trade[t] \in {"MATCHED", "MINED"}
      BY <3>1, ExecutionAssumption DEF TypeInv, TypeOK
    <3> QED  BY <2>2, <2>4, <3>1, <3>2
  <2>9. CASE Update
    <3>1. PICK t \in Repeated :
             \E o \in fillsOf[t] : wire' = Append(wire, OrderMessage("UPDATE", o))
      BY <2>9 DEF Update
    <3>2. fillsOf[t] \subseteq Orders
      BY <3>1, ExecutionAssumption DEF TypeInv, TypeOK
    <3> QED  BY <2>2, <2>3, <3>1, <3>2
  <2> QED  BY <2>5, <2>6, <2>7, <2>8, <2>9
<1>4. TypeOK'
  BY <1>1, <1>2, <1>3 DEF TypeInv, TypeOK
<1>5. EngineFits(ready, events)' /\ NamesItsOrder(ready)' /\ NamesItsOrder(waiting)'
  BY <1>1 DEF TypeInv, EngineFits, EngineOnce, NamesItsOrder, Running
<1> QED  BY <1>1, <1>4, <1>5 DEF TypeInv

LEMMA AnswerTypes ==
    ASSUME TypeInv, Answer
    PROVE  TypeInv'
<1>1. PICK list \in posts : \E success \in SUBSET list : Answered(list, success)
  BY AnswerDoes
<1>2. PICK success \in SUBSET list : Answered(list, success)
  BY <1>1
<1>3. UNCHANGED <<engine, cancels, filled, open, final, market, wire, history>>
  BY DEF Answer
<1>4. list \subseteq Orders
  BY DEF TypeInv, TypeOK
<1>5. TypeOK'
  BY <1>2, <1>3, <1>4 DEF TypeInv, TypeOK, Answered, Runnable, engine, market, history
<1>6. EngineFits(ready, events)'
  BY <1>2 DEF Answered, EngineFits, EngineOnce
<1>7. NamesItsOrder(ready)' /\ NamesItsOrder(waiting)'
  <2>1. Running(ready') \subseteq Running(ready) \cup ToSet(waiting)
    BY <1>2 DEF Answered, WokenBy
  <2>2. Running(waiting') \subseteq ToSet(waiting)
    BY <1>2 DEF Answered, Running
  <2>3. ToSet(waiting) = Running(waiting)
    BY ClientTasks
  <2>4. \A task \in Running(ready) \cup Running(waiting) :
            IsOrderTask(task) => task.message.order = task.order
    BY DEF TypeInv, NamesItsOrder
  <2>5. \A task \in Running(ready') \cup Running(waiting') :
            IsOrderTask(task) => task.message.order = task.order
    BY <2>1, <2>2, <2>3, <2>4
  <2> QED  BY <2>5 DEF NamesItsOrder, Running
<1> QED  BY <1>5, <1>6, <1>7 DEF TypeInv

LEMMA CancelAnswerTypes ==
    ASSUME TypeInv, CancelAnswer
    PROVE  /\ TypeInv' /\ Running(ready') = Running(ready) /\ ToSet(events) \subseteq ToSet(events')
           /\ \A e \in ToSet(events') \ ToSet(events) : e.kind = "cancel_rejected"
<1>1. PICK o \in Orders : cancels' = [cancels EXCEPT ![o] = "none"] /\ GenerateCancelEvent(o)
  BY DEF CancelAnswer
<1>2. UNCHANGED <<engine, known, posts, waiting, filled, open, final, market, wire, history>>
  BY DEF CancelAnswer
<1> DEFINE e == Event("cancel_rejected", o, "none")
<1>3. e \in Events /\ e.kind = "cancel_rejected"
  BY DEF Event, Events
<1>4. UNCHANGED <<events, ready>> \/ Generate(<<e>>, ready)
  BY <1>1 DEF GenerateCancelEvent
<1> HIDE DEF e
<1>5. <<e>> \in Seq(Events) /\ ToSet(<<e>>) = {e}
  BY <1>3 DEF ToSet
<1>6. ready \in Seq(Runnable) /\ events \in Seq(Events) /\ EngineFits(ready, events)
  BY ClientTasks DEF TypeInv, TypeOK
<1>7. /\ events' \in Seq(Events) /\ ready' \in Seq(Runnable) /\ EngineFits(ready', events')
      /\ Running(ready') = Running(ready) /\ ToSet(events) \subseteq ToSet(events')
      /\ \A x \in ToSet(events') \ ToSet(events) : x = e
  <2>1. CASE UNCHANGED <<events, ready>>
    BY <1>6, <2>1
  <2>2. CASE Generate(<<e>>, ready)
    BY <1>5, <1>6, <2>2, GenerateAdds DEF Running
  <2> QED  BY <1>4, <2>1, <2>2
<1>8. cancels' \in [Orders -> {"none", "asked", "sent", "done"}]
  BY <1>1 DEF TypeInv, TypeOK
<1>9. TypeOK'
  BY <1>2, <1>7, <1>8 DEF TypeInv, TypeOK, Runnable, engine, market, history
<1>10. EngineFits(ready, events)' /\ NamesItsOrder(ready)' /\ NamesItsOrder(waiting)'
  BY <1>2, <1>7 DEF TypeInv, NamesItsOrder, Running, EngineFits, EngineOnce
<1> QED  BY <1>3, <1>7, <1>9, <1>10 DEF TypeInv

LEMMA ReceiveTypes ==
    ASSUME TypeInv, Receive
    PROVE  TypeInv'
<1>1. wire # <<>> /\ wire' = Tail(wire) /\ Head(wire) \in Messages
  BY ReceiveDoes
<1>2. PICK new \in SUBSET Tasks : Received(Head(wire), new)
  BY ReceiveDoes
<1>3. UNCHANGED <<engine, events, known, posts, cancels, waiting, filled, market, told,
                  overtaken, reported, repeats>>
  BY DEF Receive
<1> DEFINE m == Head(wire)
<1>4. m.kind = "trade" => m.trade \in Trades /\ fillsOf[m.trade] \subseteq Orders
  BY <1>1, MessageKinds DEF TypeInv, TypeOK
<1>5. m.kind = "order" \/ m.kind = "trade"
  BY <1>1, MessageKinds
<1>6. wire' \in Seq(Messages)
  <2>1. wire \in Seq(Messages)
    BY DEF TypeInv, TypeOK
  <2> QED  BY <1>1, <2>1, HeadElement
<1> HIDE DEF m
<1>7. seen' \subseteq Fills /\ open' \subseteq Trades /\ final' \subseteq Trades
  <2>1. seen \subseteq Fills /\ open \subseteq Trades /\ final \subseteq Trades
    BY DEF TypeInv, TypeOK
  <2>2. m.kind = "trade" => {m.trade} \X fillsOf[m.trade] \subseteq Fills
    BY <1>4 DEF Fills
  <2> QED  BY <1>2, <1>4, <1>5, <2>1, <2>2 DEF Received, m
<1>8. ready' \in Seq(Runnable)
  BY <1>2 DEF Received
<1>9. TypeOK'
  BY <1>3, <1>6, <1>7, <1>8 DEF TypeInv, TypeOK, Runnable, engine, market
<1>10. EngineFits(ready, events)'
  BY <1>2, <1>3 DEF Received, EngineFits, EngineOnce
<1>11. NamesItsOrder(ready)' /\ NamesItsOrder(waiting)'
  <2>1. \A task \in new : IsOrderTask(task) => task.message.order = task.order
    BY <1>2 DEF Received, IsOrderTask, m
  <2> QED  BY <1>2, <1>3, <2>1 DEF TypeInv, NamesItsOrder, Running, Received
<1> QED  BY <1>9, <1>10, <1>11 DEF TypeInv

(* What is told has a number, however often.                               *)
LEMMA ToldType ==
    ASSUME TypeInv, NEW task, NEW tasks, Handle(task, tasks)
    PROVE  told' \in [Fills -> 0 .. 2]
<1>1. told \in [Fills -> 0 .. 2]
  BY DEF TypeInv, TypeOK
<1>2. CASE UNCHANGED told
  BY <1>1, <1>2
<1>3. ASSUME NEW f, told' = [told EXCEPT ![f] = IF @ = 2 THEN 2 ELSE @ + 1]
      PROVE  told' \in [Fills -> 0 .. 2]
  <2>1. \A g \in Fills : (IF told[g] = 2 THEN 2 ELSE told[g] + 1) \in 0 .. 2
    BY <1>1
  <2> QED  BY <1>1, <1>3, <2>1
<1> QED  BY <1>2, <1>3 DEF Handle, HandleOrder, HandleFill

LEMMA FillsInType ==
    ASSUME NEW tasks, Running(tasks) \subseteq Tasks, NEW o \in Orders
    PROVE  FillsIn(tasks, o) \subseteq Fills
<1>1. ASSUME NEW task \in Running(tasks), ~IsOrderTask(task)
      PROVE  task.message.trade \in Trades
  BY <1>1, TaskFields, MessageKinds DEF IsOrderTask
<1> QED  BY <1>1 DEF FillsIn, Fills, Running

(* A turn of the loop: of the engine, of a task that handles its message,  *)
(* or of one that begins to wait.                                          *)
Handles ==
    /\ ready # <<>> /\ Head(ready) # EngineTask /\ Head(ready).order \in known
    /\ Handle(Head(ready), Tail(ready)) /\ UNCHANGED waiting
    /\ overtaken' = IF Head(ready).message.type = "CANCELLATION"
                    THEN overtaken \cup FillsIn(Tail(ready), Head(ready).order)
                    ELSE overtaken
    /\ UNCHANGED <<engine, known, posts, cancels, market, wire, seen, repeats>>

BeginsToWait ==
    /\ ready # <<>> /\ Head(ready) # EngineTask /\ Head(ready).order \notin known
    /\ waiting' = Append(waiting, Head(ready)) /\ Generate(<<>>, Tail(ready))
    /\ UNCHANGED <<filled, open, final, told, reported, overtaken>>
    /\ UNCHANGED <<engine, known, posts, cancels, market, wire, seen, repeats>>

LEMMA RunTaskDoes ==
    ASSUME RunTask
    PROVE  Handles \/ BeginsToWait
  BY DEF RunTask, Handles, BeginsToWait

LEMMA HandlesTypes ==
    ASSUME TypeInv, Handles
    PROVE  TypeInv'
<1> DEFINE task == Head(ready)
           tasks == Tail(ready)
<1>1. /\ task \in Tasks /\ tasks \in Seq(Runnable) /\ EngineFits(tasks, events)
      /\ Running(ready) = {task} \cup Running(tasks)
      /\ IsOrderTask(task) => task.message.order = task.order
  BY NextTask DEF Handles
<1>2. Handle(task, tasks)
  BY DEF Handles
<1>3. Running(ready) \subseteq Tasks /\ task.order \in Orders
  BY <1>1, ClientTasks, TaskFields
<1> HIDE DEF task, tasks
<1>4. /\ events' \in Seq(Events) /\ ready' \in Seq(Runnable)
      /\ EngineFits(ready', events') /\ Running(ready') = Running(tasks)
      /\ filled' \subseteq Fills /\ open' \subseteq Trades /\ final' \subseteq Trades
      /\ reported' \subseteq Orders
  BY <1>1, <1>2, HandleDoes
<1>5. told' \in [Fills -> 0 .. 2]
  BY <1>2, ToldType
<1>6. overtaken' \subseteq Fills
  <2>1. FillsIn(tasks, task.order) \subseteq Fills
    BY <1>1, <1>3, FillsInType
  <2> QED  BY <2>1 DEF Handles, TypeInv, TypeOK, task, tasks
<1>7. UNCHANGED <<waiting, engine, known, posts, cancels, market, wire, seen, repeats>>
  BY DEF Handles
<1>8. TypeOK'
  BY <1>4, <1>5, <1>6, <1>7 DEF TypeInv, TypeOK, Runnable, engine, market
<1>9. EngineFits(ready, events)' /\ NamesItsOrder(ready)' /\ NamesItsOrder(waiting)'
  BY <1>1, <1>4, <1>7 DEF TypeInv, NamesItsOrder, Running, EngineFits, EngineOnce
<1> QED  BY <1>8, <1>9 DEF TypeInv

LEMMA BeginsToWaitTypes ==
    ASSUME TypeInv, BeginsToWait
    PROVE  /\ TypeInv' /\ UNCHANGED events /\ Running(ready') = Running(Tail(ready))
           /\ ToSet(waiting') = ToSet(waiting) \cup {Head(ready)}
<1> DEFINE task == Head(ready)
           tasks == Tail(ready)
<1>1. /\ task \in Tasks /\ tasks \in Seq(Runnable) /\ EngineFits(tasks, events)
      /\ Running(ready) = {task} \cup Running(tasks)
      /\ IsOrderTask(task) => task.message.order = task.order
  BY NextTask DEF BeginsToWait
<1>2. Generate(<<>>, tasks) /\ waiting' = Append(waiting, task)
  BY DEF BeginsToWait
<1>3. waiting \in Seq(Tasks) /\ ToSet(waiting) = Running(waiting)
      /\ events \in Seq(Events)
  BY ClientTasks DEF TypeInv, TypeOK
<1> HIDE DEF task, tasks
<1>4. UNCHANGED events /\ ready' = tasks
  BY <1>2, <1>3 DEF Generate, WithEngine
<1>5. waiting' \in Seq(Tasks) /\ ToSet(waiting') = ToSet(waiting) \cup {task}
  BY <1>1, <1>2, <1>3, LastElement
<1>6. UNCHANGED <<filled, open, final, told, reported, overtaken>>
      /\ UNCHANGED <<engine, known, posts, cancels, market, wire, seen, repeats>>
  BY DEF BeginsToWait
<1>7. TypeOK'
  BY <1>1, <1>4, <1>5, <1>6 DEF TypeInv, TypeOK, Runnable, engine, market
<1>8. EngineFits(ready, events)' /\ NamesItsOrder(ready)' /\ NamesItsOrder(waiting)'
  BY <1>1, <1>3, <1>4, <1>5 DEF TypeInv, NamesItsOrder, Running, EngineFits, EngineOnce
<1> QED  BY <1>4, <1>5, <1>7, <1>8 DEF TypeInv, task, tasks

LEMMA TimeOutTypes ==
    ASSUME TypeInv, TimeOut
    PROVE  TypeInv' /\ Running(ready') = {} /\ Running(ready) = {}
<1> DEFINE task == Head(waiting)
<1>1. /\ task \in Tasks
      /\ IsOrderTask(task) => task.message.order = task.order
      /\ ToSet(waiting) = {task} \cup ToSet(Tail(waiting)) /\ Tail(waiting) \in Seq(Tasks)
  BY LongestWait DEF TimeOut
<1>2. Handle(task, ready) /\ ready = <<>>
  BY DEF TimeOut
<1>3. ready \in Seq(Runnable) /\ EngineFits(ready, events) /\ Running(ready) = {}
  BY <1>2, ClientTasks DEF TypeInv, Running, ToSet
<1>4. task.order \in Orders /\ ToSet(waiting) = Running(waiting) /\ Running(waiting) \subseteq Tasks
      /\ Running(Tail(waiting)) \subseteq Tasks
  BY <1>1, ClientTasks, TaskFields DEF Running
<1> HIDE DEF task
<1>5. /\ events' \in Seq(Events) /\ ready' \in Seq(Runnable)
      /\ EngineFits(ready', events') /\ Running(ready') = Running(ready)
      /\ filled' \subseteq Fills /\ open' \subseteq Trades /\ final' \subseteq Trades
      /\ reported' \subseteq Orders
  BY <1>1, <1>2, <1>3, HandleDoes
<1>6. told' \in [Fills -> 0 .. 2]
  BY <1>2, ToldType
<1>7. overtaken' \subseteq Fills
  <2>1. FillsIn(Tail(waiting), task.order) \subseteq Fills
    BY <1>4, FillsInType
  <2>2. overtaken \subseteq Fills
    BY DEF TypeInv, TypeOK
  <2>3. \/ overtaken' = overtaken
        \/ overtaken' = overtaken \cup FillsIn(Tail(waiting), task.order)
    BY DEF TimeOut, task
  <2> QED  BY <2>1, <2>2, <2>3
<1>8. StillWait
  BY TimeOutWaits
<1>9. UNCHANGED <<engine, known, posts, cancels, market, wire, seen, repeats>>
  BY DEF TimeOut
<1>10. TypeOK'
  BY <1>5, <1>6, <1>7, <1>8, <1>9 DEF TypeInv, TypeOK, Runnable, engine, market, StillWait
<1>11. NamesItsOrder(waiting')
  <2>1. ASSUME NEW w \in Running(waiting'), IsOrderTask(w)
        PROVE  w.message.order = w.order
    <3>1. PICK v \in ToSet(Tail(waiting)) : w.message = v.message /\ w.order = v.order
      BY <1>8, <2>1 DEF StillWait, Running
    <3> QED  BY <1>1, <1>4, <2>1, <3>1 DEF TypeInv, NamesItsOrder, IsOrderTask
  <2> QED  BY <2>1 DEF NamesItsOrder
<1>12. EngineFits(ready, events)' /\ NamesItsOrder(ready)' /\ NamesItsOrder(waiting)'
  BY <1>3, <1>5, <1>11 DEF NamesItsOrder, Running, EngineFits, EngineOnce
<1> QED  BY <1>3, <1>5, <1>10, <1>12 DEF TypeInv
-----------------------------------------------------------------------------
(* The engine and the submissions *)

(* The engine has applied, or will, no fill that was not told, and calls   *)
(* an order filled when it has all its fills.                              *)
EngineKnows ==
    /\ executed \subseteq filled
    /\ \A e \in ToSet(events) : e.kind = "filled" => <<e.trade, e.order>> \in filled
    /\ \A o \in Orders : status[o] = "FILLED" => TradesOf(o) \X {o} \subseteq executed

(* What the engine makes of an event.                                      *)
Applied(event) ==
    LET o == event.order
    IN  /\ status' \in [Orders -> Statuses] /\ named' \subseteq Orders
        /\ \A p \in Orders \ {o} : status'[p] = status[p]
        /\ executed' = IF event.kind = "filled"
                       THEN executed \cup {<<event.trade, o>>} ELSE executed
        /\ \/ status'[o] = status[o]
           \/ /\ event.kind = "filled" /\ status'[o] = "FILLED"
              /\ Complete(o, {t \in Trades : <<t, o>> \in executed'})
           \/ status'[o] = "OPEN" /\ ~is_closed(o)
           \/ event.kind = "rejected" /\ status'[o] = "REJECTED" /\ ~is_closed(o)
           \/ event.kind = "canceled" /\ status'[o] = "CANCELED"

LEMMA ApplyDoes ==
    ASSUME TypeInv, Apply
    PROVE  /\ events # <<>> /\ Head(events) \in Events /\ events' \in Seq(Events)
           /\ ToSet(events) = {Head(events)} \cup ToSet(events')
           /\ ready' \in Seq(Runnable) /\ EngineFits(ready', events')
           /\ Running(ready') = Running(ready)
           /\ Applied(Head(events))
<1>1. ready # <<>> /\ Head(ready) = EngineTask /\ events' = Tail(events)
      /\ ready' = IF Len(events) = 1 THEN Tail(ready) ELSE ready
  BY DEF Apply
<1>2. /\ Tail(ready) \in Seq(Runnable) /\ EngineFits(Tail(ready), events)
      /\ events # <<>> /\ EngineTask \notin ToSet(Tail(ready))
      /\ Running(ready) = Running(Tail(ready))
  BY <1>1, NextTask
<1>3. ready \in Seq(Runnable) /\ EngineFits(ready, events) /\ events \in Seq(Events)
  BY ClientTasks DEF TypeInv, TypeOK
<1>4. /\ Head(events) \in Events /\ events' \in Seq(Events)
      /\ ToSet(events) = {Head(events)} \cup ToSet(events')
  BY <1>1, <1>2, <1>3, HeadElement
<1>5. ready' \in Seq(Runnable) /\ Running(ready') = Running(ready)
  BY <1>1, <1>2, <1>3
<1>6. EngineFits(ready', events')
  <2>1. CASE Len(events) = 1
    BY <1>1, <1>2, <2>1 DEF EngineFits
  <2>2. CASE Len(events) # 1
    <3>1. events' # <<>>
      <4>1. Len(events) \in Nat /\ Len(events) # 0 /\ Len(events') = Len(events) - 1
        BY <1>1, <1>2, <1>3
      <4>2. Len(events') # 0
        BY <4>1, <2>2
      <4>3. Len(<<>>) = 0
        OBVIOUS
      <4> QED  BY <4>2, <4>3
    <3> QED  BY <1>1, <1>3, <2>2, <3>1 DEF EngineFits
  <2> QED  BY <2>1, <2>2
<1>7. Applied(Head(events))
  <2> DEFINE event == Head(events)
             o == event.order
             fills == executed \cup {<<event.trade, o>>}
             Becomes(s) == status' = [status EXCEPT ![o] = s]
  <2>1. o \in Orders /\ event.kind \in {"accepted", "rejected", "canceled", "cancel_rejected",
                                        "filled"}
    BY <1>4 DEF Events
  <2>2. status \in [Orders -> Statuses] /\ named \subseteq Orders
    BY DEF TypeInv, TypeOK
  <2>3. CASE event.kind = "filled"
           \* a fill
    <3>1. /\ executed' = fills /\ named' = named \cup {o}
          /\ \/ /\ Complete(o, {t \in Trades : <<t, o>> \in fills}) /\ Becomes("FILLED")
             \/ UNCHANGED status
             \/ ~is_closed(o) /\ Becomes("OPEN")
      BY <2>3 DEF Apply
    <3> QED  BY <2>1, <2>2, <2>3, <3>1 DEF Applied, Statuses
  <2>4. CASE event.kind # "filled"
    <3>1. \/ /\ UNCHANGED executed
             /\ named' = named \/ named' = named \cup {o}
             /\ \/ event.kind = "accepted" /\ Becomes("OPEN")
                      /\ status[o] \in {"SUBMITTED", "PENDING_CANCEL"}
                \/ event.kind = "rejected" /\ Becomes("REJECTED") /\ ~is_closed(o)
                \/ event.kind = "canceled" /\ Becomes("CANCELED")
                \/ event.kind = "cancel_rejected" /\ Becomes("OPEN")
                      /\ status[o] = "PENDING_CANCEL"
          \/ UNCHANGED <<status, named, executed>>
      BY <2>4 DEF Apply, engine
    <3> QED  BY <2>1, <2>2, <2>4, <3>1 DEF Applied, Statuses, is_closed
  <2> QED  BY <2>3, <2>4
<1> QED  BY <1>2, <1>4, <1>5, <1>6, <1>7

LEMMA ApplyTypes ==
    ASSUME TypeInv, EngineKnows, Apply
    PROVE  TypeInv'
<1>1. /\ Head(events) \in Events /\ events' \in Seq(Events)
      /\ ToSet(events) = {Head(events)} \cup ToSet(events')
      /\ ready' \in Seq(Runnable) /\ EngineFits(ready', events')
      /\ Running(ready') = Running(ready) /\ Applied(Head(events))
  BY ApplyDoes
<1>2. executed' \subseteq Fills
  <2>1. Head(events).kind = "filled" => <<Head(events).trade, Head(events).order>> \in filled
    BY <1>1 DEF EngineKnows
  <2> QED  BY <1>1, <2>1 DEF Applied, TypeInv, TypeOK
<1>3. UNCHANGED <<known, posts, cancels, waiting, filled, open, final, market, wire, history>>
  BY DEF Apply
<1>4. TypeOK'
  BY <1>1, <1>2, <1>3 DEF TypeInv, TypeOK, Runnable, Applied, market, history
<1>5. EngineFits(ready, events)' /\ NamesItsOrder(ready)' /\ NamesItsOrder(waiting)'
  BY <1>1, <1>3 DEF TypeInv, NamesItsOrder, Running, EngineFits, EngineOnce
<1> QED  BY <1>4, <1>5 DEF TypeInv

(* Every step keeps the types.                                             *)
LEMMA StepTypes ==
    ASSUME TypeInv, EngineKnows, [Next]_vars
    PROVE  TypeInv'
<1>1. CASE UNCHANGED vars
  BY <1>1 DEF vars, engine, market, history, TypeInv, TypeOK, EngineFits, EngineOnce,
              NamesItsOrder, Running
<1>2. CASE RunTask
  BY <1>2, RunTaskDoes, HandlesTypes, BeginsToWaitTypes
<1> QED
  BY <1>1, <1>2, OutsideTypes, AnswerTypes, CancelAnswerTypes, ReceiveTypes, TimeOutTypes,
     ApplyTypes
  DEF Next, Strategy, Client, Venue

LEMMA InitTypes == Init => TypeInv
<1> SUFFICES ASSUME Init PROVE TypeInv
  OBVIOUS
<1>1. TypeOK
  BY ExecutionAssumption DEF Init, TypeOK, Statuses
<1>2. ToSet(<<>>) = {} /\ DOMAIN <<>> = {}
  BY DEF ToSet
<1>3. EngineFits(ready, events) /\ NamesItsOrder(ready) /\ NamesItsOrder(waiting)
  BY <1>2 DEF Init, EngineFits, EngineOnce, NamesItsOrder, Running
<1> QED  BY <1>1, <1>3 DEF TypeInv

LEMMA EngineKeeps ==
    ASSUME EngineKnows, filled \subseteq filled', UNCHANGED <<executed, fillsOf>>,
           \A o \in Orders : status'[o] = "FILLED" => status[o] = "FILLED",
           \A e \in ToSet(events') \ ToSet(events) :
               e.kind = "filled" => <<e.trade, e.order>> \in filled'
    PROVE  EngineKnows'
<1>1. \A o : TradesOf(o)' = TradesOf(o)
  BY DEF TradesOf
<1>2. \A e \in ToSet(events') : e.kind = "filled" => <<e.trade, e.order>> \in filled'
  BY DEF EngineKnows
<1> QED  BY <1>1, <1>2 DEF EngineKnows

(* What a step adds to the queue, by kind; Apply takes one off.            *)
LEMMA QueueGrows ==
    ASSUME TypeInv, [Next]_vars, ~Apply
    PROVE  /\ filled \subseteq filled' /\ UNCHANGED <<executed, fillsOf, named>>
           /\ ToSet(events) \subseteq ToSet(events')
           /\ \A e \in ToSet(events') \ ToSet(events) :
                 /\ e.kind = "filled" => <<e.trade, e.order>> \in filled'
                 /\ e.kind = "rejected" => Answer
                 /\ e.kind = "canceled" =>
                       e.order \in known /\ (Handles \/ TimeOut)
           /\ ~(Submit \/ RequestCancel) => UNCHANGED status
<1>1. CASE UNCHANGED vars
  BY <1>1 DEF vars, engine, market
<1>2. CASE \/ Submit \/ RequestCancel \/ SendCancel \/ Place \/ Match \/ Settle
           \/ Withdraw \/ Repeat \/ Update
  <2>1. UNCHANGED <<events, filled, executed, fillsOf, named>>
    BY <1>2 DEF Submit, RequestCancel, SendCancel, Place, Match, Settle, Withdraw, Repeat, Update,
                client, engine, market
  <2>2. ~(Submit \/ RequestCancel) => UNCHANGED status
    BY <1>2 DEF SendCancel, Place, Match, Settle, Withdraw, Repeat, Update, client, engine
  <2> QED  BY <2>1, <2>2
<1>3. CASE Answer
  <2>1. PICK list \in posts : \E success \in SUBSET list : Answered(list, success)
    BY <1>3, AnswerDoes
  <2>2. PICK success \in SUBSET list : Answered(list, success)
    BY <2>1
  <2>3. UNCHANGED <<filled, executed, fillsOf, named, status>>
    BY <1>3 DEF Answer, engine, market
  <2> QED  BY <1>3, <2>2, <2>3 DEF Answered
<1>4. CASE CancelAnswer
  <2>1. UNCHANGED <<filled, executed, fillsOf, named, status>>
    BY <1>4 DEF CancelAnswer, engine, market
  <2> QED  BY <1>4, <2>1, CancelAnswerTypes
<1>5. CASE Receive
  BY <1>5 DEF Receive, engine, market
<1>6. CASE Handles
  <2>1. /\ Head(ready) \in Tasks /\ Tail(ready) \in Seq(Runnable)
        /\ EngineFits(Tail(ready), events)
        /\ IsOrderTask(Head(ready)) => Head(ready).message.order = Head(ready).order
    BY <1>6, NextTask DEF Handles
  <2>2. Handle(Head(ready), Tail(ready)) /\ UNCHANGED <<executed, fillsOf, named, status>>
    BY <1>6 DEF Handles, engine, market
  <2>3. /\ ToSet(events) \subseteq ToSet(events') /\ filled \subseteq filled'
        /\ \A e \in ToSet(events') \ ToSet(events) :
              /\ e.order = Head(ready).order /\ Head(ready).order \in known
              /\ \/ e.kind = "accepted" \/ e.kind = "canceled"
                 \/ e.kind = "filled" /\ <<e.trade, e.order>> \in filled'
    BY <2>1, <2>2, HandleDoes
  <2> QED  BY <1>6, <2>2, <2>3
<1>7. CASE BeginsToWait
  <2>1. UNCHANGED <<filled, executed, fillsOf, named, status, events>>
    BY <1>7, BeginsToWaitTypes DEF BeginsToWait, engine, market
  <2> QED  BY <2>1
<1>8. CASE TimeOut
  <2>1. /\ Head(waiting) \in Tasks
        /\ IsOrderTask(Head(waiting)) => Head(waiting).message.order = Head(waiting).order
    BY <1>8, LongestWait DEF TimeOut
  <2>2. ready \in Seq(Runnable) /\ EngineFits(ready, events)
    BY ClientTasks DEF TypeInv
  <2>3. Handle(Head(waiting), ready) /\ UNCHANGED <<executed, fillsOf, named, status>>
    BY <1>8 DEF TimeOut, engine, market
  <2>4. /\ ToSet(events) \subseteq ToSet(events') /\ filled \subseteq filled'
        /\ \A e \in ToSet(events') \ ToSet(events) :
              /\ e.order = Head(waiting).order /\ Head(waiting).order \in known
              /\ \/ e.kind = "accepted" \/ e.kind = "canceled"
                 \/ e.kind = "filled" /\ <<e.trade, e.order>> \in filled'
    BY <2>1, <2>2, <2>3, HandleDoes
  <2> QED  BY <1>8, <2>3, <2>4
<1> QED
  BY <1>1, <1>2, <1>3, <1>4, <1>5, <1>6, <1>7, <1>8, RunTaskDoes
  DEF Next, Strategy, Client, Venue

LEMMA StepEngine ==
    ASSUME TypeInv, EngineKnows, [Next]_vars
    PROVE  EngineKnows'
<1>1. CASE ~Apply
  <2>1. \A o \in Orders : status'[o] = "FILLED" => status[o] = "FILLED"
    <3>1. CASE Submit
      <4>1. \E list \in SUBSET Orders :
              status' = [o \in Orders |-> IF o \in list THEN "SUBMITTED" ELSE status[o]]
        BY <3>1 DEF Submit
      <4> QED  BY <4>1
    <3>2. CASE RequestCancel
      <4>1. \E o \in Cancelable : status' = [status EXCEPT ![o] = "PENDING_CANCEL"]
        BY <3>2 DEF RequestCancel
      <4> QED  BY <4>1 DEF TypeInv, TypeOK
    <3>3. CASE ~(Submit \/ RequestCancel)
      BY <1>1, <3>3, QueueGrows
    <3> QED  BY <3>1, <3>2, <3>3
  <2> QED  BY <1>1, <2>1, QueueGrows, EngineKeeps
<1>2. CASE Apply
  <2> DEFINE event == Head(events)
  <2>1. ToSet(events) = {event} \cup ToSet(events') /\ Applied(event) /\ event \in Events
    BY <1>2, ApplyDoes
  <2>2. UNCHANGED <<filled, fillsOf>>
    BY <1>2 DEF Apply, market
  <2> HIDE DEF event
  <2>3. executed' \subseteq filled' /\ executed \subseteq executed'
    BY <2>1, <2>2 DEF EngineKnows, Applied
  <2>4. \A e \in ToSet(events') : e.kind = "filled" => <<e.trade, e.order>> \in filled'
    BY <2>1, <2>2 DEF EngineKnows
  <2>5. ASSUME NEW o \in Orders, status'[o] = "FILLED"
        PROVE  TradesOf(o)' \X {o} \subseteq executed'
    <3>1. TradesOf(o)' = TradesOf(o) /\ TradesOf(o) \subseteq Trades
      BY <2>2 DEF TradesOf
    <3>2. CASE status[o] = "FILLED"
      BY <2>3, <3>1, <3>2 DEF EngineKnows
    <3>3. CASE status[o] # "FILLED"
      <4>1. o = event.order /\ Complete(o, {t \in Trades : <<t, o>> \in executed'})
        BY <2>1, <2>5, <3>3 DEF Applied
      <4> QED  BY <3>1, <4>1 DEF Complete
    <3> QED  BY <3>2, <3>3
  <2> QED  BY <2>3, <2>4, <2>5 DEF EngineKnows
<1> QED  BY <1>1, <1>2

(* An order is submitted once, and answered once: as a success or not.     *)
InPost(o) == \E list \in posts : o \in list
Refused(o) ==
    status[o] = "REJECTED" \/ \E e \in ToSet(events) : e.kind = "rejected" /\ e.order = o

SubmitFits ==
    /\ \A a, b \in posts, o \in Orders : o \in a /\ o \in b => a = b
    /\ \A o \in Orders :
          /\ InPost(o) \/ o \in known \/ Refused(o) \/ venue[o] # "none"
                => status[o] # "INITIALIZED"
          /\ ~(InPost(o) /\ o \in known)
          /\ ~(InPost(o) /\ Refused(o))
          /\ ~(o \in known /\ Refused(o))

LEMMA StepSubmits ==
    ASSUME TypeInv, SubmitFits, [Next]_vars
    PROVE  SubmitFits'
<1>1. CASE Submit
  <2>1. PICK list \in SUBSET Orders :
          /\ \A o \in list : status[o] = "INITIALIZED"
          /\ status' = [o \in Orders |-> IF o \in list THEN "SUBMITTED" ELSE status[o]]
          /\ venue' = [o \in Orders |-> IF o \in list THEN "asked" ELSE venue[o]]
          /\ posts' = posts \cup {list}
    BY <1>1 DEF Submit
  <2>2. UNCHANGED <<events, known>>
    BY <1>1 DEF Submit
  <2>3. \A o \in list : ~InPost(o) /\ o \notin known /\ ~Refused(o)
    BY <2>1 DEF SubmitFits
  <2>4. \A o \in Orders : Refused(o)' <=> o \notin list /\ Refused(o)
    BY <2>1, <2>2, <2>3 DEF Refused
  <2>5. \A o \in Orders : InPost(o)' <=> o \in list \/ InPost(o)
    BY <2>1 DEF InPost
  <2>6. \A a, b \in posts', o \in Orders : o \in a /\ o \in b => a = b
    BY <2>1, <2>3 DEF SubmitFits, InPost
  <2> QED  BY <2>1, <2>2, <2>3, <2>4, <2>5, <2>6 DEF SubmitFits
<1>2. CASE Answer
  <2>1. PICK list \in posts : \E success \in SUBSET list : Answered(list, success)
    BY <1>2, AnswerDoes
  <2>2. PICK success \in SUBSET list : Answered(list, success)
    BY <2>1
  <2>3. UNCHANGED <<status, venue>>
    BY <1>2 DEF Answer, engine, market
  <2>4. posts' = posts \ {list} /\ known' = known \cup success
        /\ \A e \in ToSet(events') \ ToSet(events) : e.order \in list \ success
    BY <2>2 DEF Answered
  <2>5. \A o \in Orders : Refused(o)' => Refused(o) \/ o \in list \ success
    BY <2>3, <2>4 DEF Refused
  <2>6. \A o \in Orders : InPost(o)' => InPost(o) /\ o \notin list
    BY <2>4 DEF InPost, SubmitFits
  <2>7. \A o \in list : InPost(o)
    BY DEF InPost
  <2>8. \A a, b \in posts', o \in Orders : o \in a /\ o \in b => a = b
    BY <2>4 DEF SubmitFits
  <2> QED  BY <2>3, <2>4, <2>5, <2>6, <2>7, <2>8 DEF SubmitFits
<1>3. CASE Apply
  <2> DEFINE event == Head(events)
  <2>1. ToSet(events) = {event} \cup ToSet(events') /\ Applied(event)
    BY <1>3, ApplyDoes
  <2>2. UNCHANGED <<posts, known, venue>>
    BY <1>3 DEF Apply, market
  <2> HIDE DEF event
  <2>3. \A o \in Orders : Refused(o)' => Refused(o)
    BY <2>1 DEF Applied, Refused
  <2>4. \A o \in Orders : status'[o] = "INITIALIZED" => status[o] = "INITIALIZED"
    BY <2>1 DEF Applied
  <2>5. \A o \in Orders : InPost(o)' <=> InPost(o)
    BY <2>2 DEF InPost
  <2> QED  BY <2>2, <2>3, <2>4, <2>5 DEF SubmitFits
<1>4. CASE ~(Submit \/ Answer \/ Apply)
  <2>1. UNCHANGED <<posts, known>>
    BY <1>4 DEF Next, Strategy, Client, Venue, RequestCancel, SendCancel, CancelAnswer, Receive,
                RunTask, TimeOut, Place, Match, Settle, Withdraw, Repeat, Update, client, vars
  <2>2. \A e \in ToSet(events') \ ToSet(events) : e.kind # "rejected"
    BY <1>4, QueueGrows
  <2>3. \A o \in Orders : /\ status'[o] = "INITIALIZED" => status[o] = "INITIALIZED"
                          /\ status'[o] = "REJECTED" => status[o] = "REJECTED"
    <3>1. CASE RequestCancel
      <4>1. \E o \in Cancelable : status' = [status EXCEPT ![o] = "PENDING_CANCEL"]
        BY <3>1 DEF RequestCancel
      <4> QED  BY <4>1 DEF TypeInv, TypeOK
    <3>2. CASE ~RequestCancel
      BY <1>4, <3>2, QueueGrows
    <3> QED  BY <3>1, <3>2
  <2>4. \A o \in Orders : venue'[o] # "none" => venue[o] # "none"
    <3>1. CASE Place \/ Withdraw
      <4>1. \E o \in Orders : \E s \in {"refused", "live", "done", venue[o]} :
               /\ venue[o] # "none" \/ s = venue[o]
               /\ venue' = [venue EXCEPT ![o] = s]
        <5>1. CASE Place
          BY <5>1 DEF Place
        <5>2. CASE Withdraw
          BY <5>2 DEF Withdraw, TypeInv, TypeOK
        <5> QED  BY <3>1, <5>1, <5>2
      <4> QED  BY <4>1 DEF TypeInv, TypeOK
    <3>2. CASE Match
      <4>1. PICK t \in Trades :
               /\ \A o \in fillsOf[t] : venue[o] = "live"
               /\ venue' = [o \in Orders |->
                    IF o \in fillsOf[t] /\ Complete(o, {u \in Trades : trade'[u] # "none"})
                    THEN "done" ELSE venue[o]]
        BY <3>2 DEF Match
      <4> QED  BY <4>1
    <3>3. CASE ~(Place \/ Withdraw \/ Match)
      BY <1>4, <3>3 DEF Next, Strategy, Client, Venue, RequestCancel, SendCancel, CancelAnswer,
         Receive, RunTask, TimeOut, Settle, Repeat, Update, market, vars
    <3> QED  BY <3>1, <3>2, <3>3
  <2>5. \A o \in Orders : Refused(o)' => Refused(o)
    BY <2>2, <2>3 DEF Refused
  <2>6. \A o \in Orders : InPost(o)' <=> InPost(o)
    BY <2>1 DEF InPost
  <2> QED  BY <2>1, <2>3, <2>4, <2>5, <2>6 DEF SubmitFits
<1> QED  BY <1>1, <1>2, <1>3, <1>4
-----------------------------------------------------------------------------
(* The trades and the channel *)

Waiting == Running(ready) \cup ToSet(waiting)

Seen(t) == {t} \X fillsOf[t] \subseteq seen

(* The trade has been received, or is on the wire before this place.       *)
Before(t, n) ==
    Seen(t) \/ \E j \in 1 .. n - 1 : /\ j \in DOMAIN wire
                                     /\ wire[j].kind = "trade" /\ wire[j].trade = t

(* The channel tells of every trade, and what is done with a trade that    *)
(* was received is done for all its orders.                                *)
TradeFits ==
    /\ \A f \in seen : trade[f[1]] # "none" /\ f[2] \in fillsOf[f[1]]
    /\ \A t \in open \cup final : Seen(t)
    /\ \A i \in DOMAIN wire : wire[i].kind = "trade" => trade[wire[i].trade] # "none"
    /\ \A task \in Waiting : task.message.kind = "trade" =>
          Seen(task.message.trade) /\ task.order \in fillsOf[task.message.trade]
    /\ \A t \in Trades : trade[t] # "none" => Before(t, Len(wire) + 1)

(* What takes no message from the channel and sends none.                  *)
Quiet ==
    /\ UNCHANGED <<wire, trade, fillsOf, seen>>
    /\ \A task \in Waiting' : \E v \in Waiting :
          task.message = v.message /\ task.order = v.order
    /\ \A t \in open' \cup final' :
          \/ t \in open \cup final
          \/ \E v \in Waiting : v.message.kind = "trade" /\ v.message.trade = t

LoopStep == Quiet /\ UNCHANGED venue

LEMMA HandleRecords ==
    ASSUME NEW task \in Tasks, NEW tasks, Handle(task, tasks)
    PROVE  \A t \in open' \cup final' :
              \/ t \in open \cup final
              \/ task.message.kind = "trade" /\ task.message.trade = t
<1>1. ~IsOrderTask(task) => task.message.kind = "trade"
  BY TaskFields DEF IsOrderTask
<1>2. CASE UNCHANGED <<open, final>>
  BY <1>2
<1>3. CASE ~IsOrderTask(task) /\ RecordTrade(task.message)
  BY <1>1, <1>3 DEF RecordTrade
<1> QED  BY <1>2, <1>3 DEF Handle, HandleOrder, HandleFill

LEMMA LoopDoes ==
    ASSUME TypeInv, Answer \/ CancelAnswer \/ Handles \/ BeginsToWait \/ TimeOut \/ Apply
    PROVE  LoopStep
<1>1. CASE Answer
  <2>1. PICK list \in posts : \E success \in SUBSET list : Answered(list, success)
    BY <1>1, AnswerDoes
  <2>2. PICK success \in SUBSET list : Answered(list, success)
    BY <2>1
  <2>3. UNCHANGED <<wire, trade, venue, fillsOf, seen, open, final>>
    BY <1>1 DEF Answer, market, history
  <2>4. Waiting' \subseteq Waiting
    BY <2>2 DEF Answered, Waiting, WokenBy, Running
  <2> QED  BY <2>3, <2>4 DEF LoopStep, Quiet
<1>2. CASE CancelAnswer
  <2>1. UNCHANGED <<wire, trade, venue, fillsOf, seen, open, final, waiting>>
    BY <1>2 DEF CancelAnswer, market, history
  <2>2. Waiting' \subseteq Waiting
    BY <1>2, <2>1, CancelAnswerTypes DEF Waiting, Running
  <2> QED  BY <2>1, <2>2 DEF LoopStep, Quiet
<1>3. CASE Handles
  <2>1. /\ Head(ready) \in Tasks /\ Tail(ready) \in Seq(Runnable)
        /\ EngineFits(Tail(ready), events)
        /\ Running(ready) = {Head(ready)} \cup Running(Tail(ready))
        /\ IsOrderTask(Head(ready)) => Head(ready).message.order = Head(ready).order
    BY <1>3, NextTask DEF Handles
  <2>2. Handle(Head(ready), Tail(ready))
        /\ UNCHANGED <<wire, trade, venue, fillsOf, seen, waiting>>
    BY <1>3 DEF Handles, market
  <2>3. Running(ready') = Running(Tail(ready))
    BY <2>1, <2>2, HandleDoes
  <2>4. Waiting' \subseteq Waiting /\ Head(ready) \in Waiting
    BY <2>1, <2>2, <2>3 DEF Waiting, Running
  <2>5. \A t \in open' \cup final' :
              \/ t \in open \cup final
              \/ Head(ready).message.kind = "trade" /\ Head(ready).message.trade = t
    BY <2>1, <2>2, HandleRecords
  <2> QED  BY <2>2, <2>4, <2>5 DEF LoopStep, Quiet
<1>4. CASE BeginsToWait
  <2>1. /\ Running(ready') = Running(Tail(ready))
        /\ ToSet(waiting') = ToSet(waiting) \cup {Head(ready)}
    BY <1>4, BeginsToWaitTypes
  <2>2. Running(ready) = {Head(ready)} \cup Running(Tail(ready))
    BY <1>4, NextTask DEF BeginsToWait
  <2>3. UNCHANGED <<wire, trade, venue, fillsOf, seen, open, final>>
    BY <1>4 DEF BeginsToWait, market
  <2>4. Waiting' \subseteq Waiting
    BY <2>1, <2>2 DEF Waiting, Running
  <2> QED  BY <2>3, <2>4 DEF LoopStep, Quiet
<1>5. CASE TimeOut
  <2>1. /\ Head(waiting) \in Tasks
        /\ ToSet(waiting) = {Head(waiting)} \cup ToSet(Tail(waiting))
    BY <1>5, LongestWait DEF TimeOut
  <2>2. Handle(Head(waiting), ready) /\ UNCHANGED <<wire, trade, venue, fillsOf, seen>>
    BY <1>5 DEF TimeOut, market
  <2>3. StillWait /\ Running(ready') = {}
    BY <1>5, TimeOutWaits, TimeOutTypes
  <2>4. \A task \in Waiting' : \E v \in Waiting :
            task.message = v.message /\ task.order = v.order
    BY <2>1, <2>3 DEF StillWait, Waiting, Running
  <2>5. \A t \in open' \cup final' :
              \/ t \in open \cup final
              \/ Head(waiting).message.kind = "trade" /\ Head(waiting).message.trade = t
    BY <2>1, <2>2, HandleRecords
  <2>6. Head(waiting) \in Waiting
    BY <2>1 DEF Waiting
  <2> QED  BY <2>2, <2>4, <2>5, <2>6 DEF LoopStep, Quiet
<1>6. CASE Apply
  <2>1. UNCHANGED <<wire, trade, venue, fillsOf, seen, open, final, waiting>>
    BY <1>6 DEF Apply, market, history
  <2>2. Waiting' \subseteq Waiting
    BY <1>6, <2>1, ApplyDoes DEF Waiting, Running
  <2> QED  BY <2>1, <2>2 DEF LoopStep, Quiet
<1> QED  BY <1>1, <1>2, <1>3, <1>4, <1>5, <1>6

LEMMA QuietKeepsTrades ==
    ASSUME TradeFits, Quiet
    PROVE  TradeFits'
<1>1. \A t : Seen(t)' = Seen(t)
  BY DEF Quiet, Seen
<1>2. \A t, n : Before(t, n)' = Before(t, n)
  BY <1>1 DEF Quiet, Before
<1>3. \A f \in seen' : trade'[f[1]] # "none" /\ f[2] \in fillsOf'[f[1]]
  BY DEF Quiet, TradeFits
<1>4. \A t \in open' \cup final' : Seen(t)'
  BY <1>1 DEF Quiet, TradeFits
<1>5. \A i \in DOMAIN wire' : wire'[i].kind = "trade" => trade'[wire'[i].trade] # "none"
  BY DEF Quiet, TradeFits
<1>6. \A task \in Waiting' : task.message.kind = "trade" =>
          Seen(task.message.trade)' /\ task.order \in fillsOf'[task.message.trade]
  BY <1>1 DEF Quiet, TradeFits
<1>7. \A t \in Trades : trade'[t] # "none" => Before(t, Len(wire) + 1)'
  BY <1>2 DEF Quiet, TradeFits
<1> QED  BY <1>3, <1>4, <1>5, <1>6, <1>7 DEF TradeFits, Quiet

(* What the venue and the strategy do is announced on the channel.         *)
Announces(m) ==
    /\ UNCHANGED <<seen, fillsOf, open, final, ready, waiting>>
    /\ m \in Messages /\ wire' = Append(wire, m)

LEMMA WireGrows ==
    ASSUME TypeInv, NEW m, Announces(m)
    PROVE  /\ Len(wire) \in Nat /\ Len(wire') = Len(wire) + 1
           /\ DOMAIN wire = 1 .. Len(wire) /\ DOMAIN wire' = 1 .. Len(wire) + 1
           /\ \A i \in DOMAIN wire : wire'[i] = wire[i]
           /\ wire'[Len(wire) + 1] = m
           /\ \A t, n : Before(t, n) => Before(t, n)'
           /\ \A t : Before(t, Len(wire) + 1) => Before(t, Len(wire) + 1)'
           /\ m.kind = "trade" => Before(m.trade, Len(wire) + 1)'
<1>1. wire \in Seq(Messages) /\ wire' = Append(wire, m) /\ m \in Messages
  BY DEF TypeInv, TypeOK, Announces
<1>2. /\ Len(wire) \in Nat /\ Len(wire') = Len(wire) + 1
      /\ DOMAIN wire = 1 .. Len(wire) /\ DOMAIN wire' = 1 .. Len(wire) + 1
      /\ \A i \in DOMAIN wire : wire'[i] = wire[i]
      /\ wire'[Len(wire) + 1] = m
  BY <1>1
<1>3. \A t : Seen(t)' = Seen(t)
  BY DEF Announces, Seen
<1>4. ASSUME NEW t, NEW n, Before(t, n)
      PROVE  Before(t, n)'
  BY <1>2, <1>3, <1>4 DEF Before
<1>5. ASSUME NEW t, Before(t, Len(wire) + 1)
      PROVE  Before(t, Len(wire) + 1)'
  <2>1. CASE Seen(t)
    BY <1>3, <2>1 DEF Before
  <2>2. ASSUME NEW j \in 1 .. Len(wire) + 1 - 1, j \in DOMAIN wire, wire[j].kind = "trade",
               wire[j].trade = t
        PROVE  Before(t, Len(wire) + 1)'
    <3>1. j \in 1 .. Len(wire') + 1 - 1 /\ j \in DOMAIN wire' /\ wire'[j] = wire[j]
      BY <1>2, <2>2
    <3> QED  BY <2>2, <3>1 DEF Before
  <2> QED  BY <1>5, <2>1, <2>2 DEF Before
<1>6. ASSUME m.kind = "trade"
      PROVE  Before(m.trade, Len(wire) + 1)'
  <2>1. Len(wire) + 1 \in 1 .. Len(wire') + 1 - 1 /\ Len(wire) + 1 \in DOMAIN wire'
    BY <1>2
  <2> QED  BY <1>2, <1>6, <2>1 DEF Before
<1> QED  BY <1>2, <1>4, <1>5, <1>6

LEMMA AnnounceKeepsTrades ==
    ASSUME TypeInv, TradeFits, NEW m, Announces(m),
           \A t \in Trades : trade[t] # "none" => trade'[t] # "none",
           \A t \in Trades : trade'[t] # "none" =>
               trade[t] # "none" \/ (m.kind = "trade" /\ m.trade = t),
           m.kind = "trade" => trade'[m.trade] # "none"
    PROVE  TradeFits'
<1>1. /\ Len(wire) \in Nat /\ Len(wire') = Len(wire) + 1
      /\ DOMAIN wire = 1 .. Len(wire) /\ DOMAIN wire' = 1 .. Len(wire) + 1
      /\ \A i \in DOMAIN wire : wire'[i] = wire[i]
      /\ wire'[Len(wire) + 1] = m
      /\ \A t : Before(t, Len(wire) + 1) => Before(t, Len(wire) + 1)'
      /\ m.kind = "trade" => Before(m.trade, Len(wire) + 1)'
  BY WireGrows
<1>2. UNCHANGED <<seen, fillsOf, open, final, ready, waiting>>
  BY DEF Announces
<1>3. Waiting' = Waiting /\ \A t : Seen(t)' = Seen(t)
  BY <1>2 DEF Waiting, Running, Seen
<1>4. /\ seen \subseteq Fills /\ \A f \in Fills : f[1] \in Trades
      /\ \A i \in DOMAIN wire : wire[i] \in Messages
  BY DEF TypeInv, TypeOK, Fills
<1>5. \A f \in seen' : trade'[f[1]] # "none" /\ f[2] \in fillsOf'[f[1]]
  BY <1>2, <1>4 DEF TradeFits
<1>6. \A t \in open' \cup final' : Seen(t)'
  BY <1>2, <1>3 DEF TradeFits
<1>7. ASSUME NEW i \in DOMAIN wire', wire'[i].kind = "trade"
      PROVE  trade'[wire'[i].trade] # "none"
  <2>1. CASE i \in DOMAIN wire
    <3>1. wire'[i] = wire[i] /\ wire[i] \in Messages
      BY <1>1, <1>4, <2>1
    <3>2. wire[i].trade \in Trades
      BY <1>7, <3>1, MessageKinds
    <3> QED  BY <1>7, <2>1, <3>1, <3>2 DEF TradeFits
  <2>2. CASE i \notin DOMAIN wire
    <3>1. wire'[i] = m
      BY <1>1, <2>2
    <3> QED  BY <1>7, <3>1
  <2> QED  BY <2>1, <2>2
<1>8. \A task \in Waiting' : task.message.kind = "trade" =>
          Seen(task.message.trade)' /\ task.order \in fillsOf'[task.message.trade]
  BY <1>2, <1>3 DEF TradeFits
<1>9. \A t \in Trades : trade'[t] # "none" => Before(t, Len(wire) + 1)'
  BY <1>1 DEF TradeFits
<1> QED  BY <1>5, <1>6, <1>7, <1>8, <1>9 DEF TradeFits

(* A message is taken from the channel: who was before another message is  *)
(* still, or has been received.                                            *)
LEMMA WireShrinks ==
    ASSUME TypeInv, wire # <<>>, wire' = Tail(wire), UNCHANGED fillsOf, seen \subseteq seen',
           NEW m, m = Head(wire), m.kind = "trade" => Seen(m.trade)'
    PROVE  /\ Len(wire) \in Nat /\ Len(wire') = Len(wire) - 1
           /\ DOMAIN wire = 1 .. Len(wire) /\ DOMAIN wire' = 1 .. Len(wire) - 1
           /\ \A i \in DOMAIN wire' : wire'[i] = wire[i + 1]
           /\ \A t : Seen(t) => Seen(t)'
           /\ \A t : \A n \in Nat : Before(t, n + 1) => Before(t, n)'
<1>1. wire \in Seq(Messages)
  BY DEF TypeInv, TypeOK
<1>2. /\ Len(wire) \in Nat /\ Len(wire') = Len(wire) - 1
      /\ DOMAIN wire = 1 .. Len(wire) /\ DOMAIN wire' = 1 .. Len(wire) - 1
      /\ m = wire[1]
      /\ \A i \in DOMAIN wire' : wire'[i] = wire[i + 1]
  BY <1>1
<1>3. \A t : Seen(t) => Seen(t)'
  BY DEF Seen
<1>4. ASSUME NEW t, NEW n \in Nat, Before(t, n + 1)
      PROVE  Before(t, n)'
  <2>1. CASE Seen(t)
    BY <1>3, <2>1 DEF Before
  <2>2. ASSUME NEW j \in 1 .. n + 1 - 1, j \in DOMAIN wire, wire[j].kind = "trade",
               wire[j].trade = t
        PROVE  Before(t, n)'
    <3>1. CASE j = 1
      <4>1. m.kind = "trade" /\ m.trade = t
        BY <1>2, <2>2, <3>1
      <4>2. Seen(t)'
        BY <4>1
      <4> QED  BY <4>2 DEF Before
    <3>2. CASE j # 1
      <4>1. j - 1 \in 1 .. n - 1 /\ j - 1 \in DOMAIN wire' /\ j - 1 + 1 = j
        BY <1>2, <2>2, <3>2
      <4>2. wire'[j - 1] = wire[j]
        BY <1>2, <4>1
      <4>3. \E i \in 1 .. n - 1 : /\ i \in DOMAIN wire'
                                  /\ wire'[i].kind = "trade" /\ wire'[i].trade = t
        BY <2>2, <4>1, <4>2
      <4> QED  BY <4>3 DEF Before
    <3> QED  BY <3>1, <3>2
  <2> QED  BY <1>4, <2>1, <2>2 DEF Before
<1> QED  BY <1>2, <1>3, <1>4

LEMMA ReceiveKeepsTrades ==
    ASSUME TypeInv, TradeFits, Receive
    PROVE  TradeFits'
<1>1. PICK m \in Messages :
        /\ wire # <<>> /\ wire' = Tail(wire) /\ m = Head(wire)
        /\ \E new \in SUBSET Tasks : Received(m, new)
  BY ReceiveDoes
<1>2. PICK new \in SUBSET Tasks : Received(m, new)
  BY <1>1
<1>3. UNCHANGED <<fillsOf, trade, waiting>>
  BY DEF Receive, market
<1>4. /\ seen \subseteq Fills /\ fillsOf \in [Trades -> SUBSET Orders]
      /\ wire \in Seq(Messages)
  BY DEF TypeInv, TypeOK
<1>5. 1 \in DOMAIN wire /\ m = wire[1]
  BY <1>1, <1>4
<1>6. m.kind = "order" \/ (m.kind = "trade" /\ m.trade \in Trades /\ trade[m.trade] # "none")
  BY <1>1, <1>5, MessageKinds DEF TradeFits
<1>7. m.kind = "trade" => Seen(m.trade)'
  <2>1. ASSUME m.kind = "trade", seen' = seen \cup {m.trade} \X fillsOf[m.trade]
        PROVE  Seen(m.trade)'
    BY <1>3, <2>1 DEF Seen
  <2>2. ASSUME UNCHANGED seen, Seen(m.trade)
        PROVE  Seen(m.trade)'
    BY <1>3, <2>2 DEF Seen
  <2> QED  BY <1>2, <2>1, <2>2 DEF Received, TradeFits
<1>8. seen \subseteq seen'
  BY <1>2, <1>6 DEF Received
<1>9. /\ Len(wire) \in Nat /\ Len(wire') = Len(wire) - 1
      /\ DOMAIN wire = 1 .. Len(wire) /\ DOMAIN wire' = 1 .. Len(wire) - 1
      /\ \A i \in DOMAIN wire' : wire'[i] = wire[i + 1]
      /\ \A t : Seen(t) => Seen(t)'
      /\ \A t : \A n \in Nat : Before(t, n + 1) => Before(t, n)'
  BY <1>1, <1>3, <1>7, <1>8, WireShrinks
<1>10. \A f \in seen' : trade'[f[1]] # "none" /\ f[2] \in fillsOf'[f[1]]
  <2>1. \A f \in seen' : f \in seen \/ (m.kind = "trade" /\ f \in {m.trade} \X fillsOf[m.trade])
    BY <1>2, <1>6 DEF Received
  <2>2. \A f \in {m.trade} \X fillsOf[m.trade] : f[1] = m.trade /\ f[2] \in fillsOf[m.trade]
    OBVIOUS
  <2> QED  BY <1>3, <1>6, <2>1, <2>2 DEF TradeFits
<1>11. \A t \in open' \cup final' : Seen(t)'
  <2>1. \A t \in open' \cup final' : t \in open \cup final
    BY <1>2, <1>6 DEF Received
  <2> QED  BY <1>9, <2>1 DEF TradeFits
<1>12. \A i \in DOMAIN wire' : wire'[i].kind = "trade" => trade'[wire'[i].trade] # "none"
  <2>1. \A i \in DOMAIN wire' : i + 1 \in DOMAIN wire
    BY <1>9
  <2> QED  BY <1>3, <1>9, <2>1 DEF TradeFits
<1>13. ASSUME NEW task \in Waiting', task.message.kind = "trade"
       PROVE  Seen(task.message.trade)' /\ task.order \in fillsOf'[task.message.trade]
  <2>1. task \in Waiting \/ task \in new
    BY <1>2, <1>3 DEF Received, Waiting, Running
  <2>2. CASE task \in Waiting
    BY <1>3, <1>9, <1>13, <2>2 DEF TradeFits
  <2>3. CASE task \in new
    BY <1>2, <1>3, <1>7, <1>13, <2>3 DEF Received
  <2> QED  BY <2>1, <2>2, <2>3
<1>14. ASSUME NEW t \in Trades, trade'[t] # "none"
       PROVE  Before(t, Len(wire) + 1)'
  <2>1. PICK n \in Nat : n = Len(wire)
    BY <1>9
  <2>2. Before(t, n + 1)
    BY <1>3, <1>14, <2>1 DEF TradeFits
  <2>3. Before(t, n)'
    BY <1>9, <2>2
  <2>4. n = Len(wire)' + 1
    BY <1>9, <2>1
  <2> QED  BY <2>3, <2>4
<1> QED  BY <1>10, <1>11, <1>12, <1>13, <1>14 DEF TradeFits

IsCancel(m) == m.kind = "order" /\ m.type = "CANCELLATION"

Announced(m) ==
    /\ Announces(m)
    /\ \A t \in Trades : trade[t] # "none" => trade'[t] # "none"
    /\ \A t \in Trades : trade'[t] # "none" =>
           trade[t] # "none" \/ (m.kind = "trade" /\ m.trade = t)
    /\ m.kind = "trade" => trade'[m.trade] # "none"
    /\ IsCancel(m) => venue'[m.order] = "done"

Unnoticed == UNCHANGED <<wire, trade, fillsOf, seen, open, final, ready, waiting>>

LEMMA MessageFields ==
    /\ \A o \in Orders : \A type \in {"PLACEMENT", "UPDATE", "CANCELLATION"} :
          /\ OrderMessage(type, o) \in Messages
          /\ OrderMessage(type, o).kind = "order" /\ OrderMessage(type, o).order = o
          /\ IsCancel(OrderMessage(type, o)) <=> type = "CANCELLATION"
    /\ \A t \in Trades : \A type \in {"MATCHED", "MINED"} :
          /\ TradeMessage(type, t) \in Messages
          /\ TradeMessage(type, t).kind = "trade" /\ TradeMessage(type, t).trade = t
          /\ ~IsCancel(TradeMessage(type, t))
  BY DEF OrderMessage, TradeMessage, Messages, IsCancel

LEMMA VenueDoes ==
    ASSUME TypeInv, Venue
    PROVE  Unnoticed \/ \E m : Announced(m)
<1>1. /\ trade \in [Trades -> {"none", "MATCHED", "MINED"}]
      /\ venue \in [Orders -> {"none", "asked", "live", "refused", "done"}]
  BY DEF TypeInv, TypeOK
<1>2. CASE Place
  <2>1. UNCHANGED <<trade, fillsOf, seen, open, final, ready, waiting>>
    BY <1>2 DEF Place, client, history
  <2>2. PICK o \in Orders : UNCHANGED wire \/ wire' = Append(wire, OrderMessage("PLACEMENT", o))
    BY <1>2 DEF Place
  <2>3. CASE UNCHANGED wire
    BY <2>1, <2>3 DEF Unnoticed
  <2>4. CASE wire' = Append(wire, OrderMessage("PLACEMENT", o))
    <3>1. Announced(OrderMessage("PLACEMENT", o))
      BY <2>1, <2>4, MessageFields DEF Announced, Announces
    <3> QED  BY <3>1
  <2> QED  BY <2>2, <2>3, <2>4
<1>3. CASE Match
  <2>1. PICK t \in Trades : /\ trade' = [trade EXCEPT ![t] = "MATCHED"]
                            /\ wire' = Append(wire, TradeMessage("MATCHED", t))
    BY <1>3 DEF Match
  <2>2. UNCHANGED <<fillsOf, seen, open, final, ready, waiting>>
    BY <1>3 DEF Match, client, history
  <2>3. Announced(TradeMessage("MATCHED", t))
    BY <1>1, <2>1, <2>2, MessageFields DEF Announced, Announces
  <2> QED  BY <2>3
<1>4. CASE Settle
  <2>1. PICK t \in Trades : /\ trade' = [trade EXCEPT ![t] = "MINED"] /\ trade[t] = "MATCHED"
                            /\ wire' = Append(wire, TradeMessage("MINED", t))
    BY <1>4 DEF Settle
  <2>2. UNCHANGED <<fillsOf, seen, open, final, ready, waiting>>
    BY <1>4 DEF Settle, client, history
  <2>3. Announced(TradeMessage("MINED", t))
    BY <1>1, <2>1, <2>2, MessageFields DEF Announced, Announces
  <2> QED  BY <2>3
<1>5. CASE Withdraw
  <2>1. UNCHANGED <<trade, fillsOf, seen, open, final, ready, waiting>>
    BY <1>5 DEF Withdraw, client, history
  <2>2. PICK o \in Orders :
          \/ UNCHANGED wire
          \/ /\ wire' = Append(wire, OrderMessage("CANCELLATION", o))
             /\ venue' = [venue EXCEPT ![o] = "done"]
    BY <1>5 DEF Withdraw
  <2>3. CASE UNCHANGED wire
    BY <2>1, <2>3 DEF Unnoticed
  <2>4. CASE /\ wire' = Append(wire, OrderMessage("CANCELLATION", o))
             /\ venue' = [venue EXCEPT ![o] = "done"]
    <3>1. Announced(OrderMessage("CANCELLATION", o))
      BY <1>1, <2>1, <2>4, MessageFields DEF Announced, Announces
    <3> QED  BY <3>1
  <2> QED  BY <2>2, <2>3, <2>4
<1>6. CASE Repeat
  <2>1. PICK t \in Repeated : trade[t] # "none" /\ wire' = Append(wire, TradeMessage(trade[t], t))
    BY <1>6 DEF Repeat
  <2>2. UNCHANGED <<trade, fillsOf, seen, open, final, ready, waiting>>
    BY <1>6 DEF Repeat, client, market
  <2>3. t \in Trades /\ trade[t] \in {"MATCHED", "MINED"}
    BY <1>1, <2>1, ExecutionAssumption
  <2>4. Announced(TradeMessage(trade[t], t))
    BY <2>1, <2>2, <2>3, MessageFields DEF Announced, Announces
  <2> QED  BY <2>4
<1>7. CASE Update
  <2>1. PICK t \in Repeated :
           \E o \in fillsOf[t] : wire' = Append(wire, OrderMessage("UPDATE", o))
    BY <1>7 DEF Update
  <2>2. PICK o \in fillsOf[t] : wire' = Append(wire, OrderMessage("UPDATE", o))
    BY <2>1
  <2>3. o \in Orders
    BY ExecutionAssumption DEF TypeInv, TypeOK
  <2>4. UNCHANGED <<trade, fillsOf, seen, open, final, ready, waiting>>
    BY <1>7 DEF Update, client, market
  <2>5. Announced(OrderMessage("UPDATE", o))
    BY <2>2, <2>3, <2>4, MessageFields DEF Announced, Announces
  <2> QED  BY <2>5
<1> QED  BY <1>2, <1>3, <1>4, <1>5, <1>6, <1>7 DEF Venue

(* Every step is one of the client's loop, takes or sends a message, or    *)
(* does not concern the trades.                                            *)
LEMMA StepDoes ==
    ASSUME TypeInv, [Next]_vars
    PROVE  \/ Submit \/ RequestCancel \/ SendCancel \/ UNCHANGED vars
           \/ Answer \/ CancelAnswer \/ Handles \/ BeginsToWait \/ TimeOut \/ Apply
           \/ Receive \/ Venue
  BY RunTaskDoes DEF Next, Strategy, Client

LEMMA StepTrades ==
    ASSUME TypeInv, TradeFits, [Next]_vars
    PROVE  TradeFits'
<1>1. ASSUME Unnoticed
      PROVE  TradeFits'
  <2>1. Waiting' = Waiting
    BY <1>1 DEF Unnoticed, Waiting, Running
  <2>2. Quiet
    BY <1>1, <2>1 DEF Unnoticed, Quiet
  <2> QED  BY <2>2, QuietKeepsTrades
<1>2. CASE Submit \/ RequestCancel \/ SendCancel \/ UNCHANGED vars
  <2>1. Unnoticed
    BY <1>2 DEF Unnoticed, Submit, RequestCancel, SendCancel, vars, market, history
  <2> QED  BY <1>1, <2>1
<1>3. CASE Venue
  BY <1>1, <1>3, VenueDoes, AnnounceKeepsTrades DEF Announced
<1>4. CASE Answer \/ CancelAnswer \/ Handles \/ BeginsToWait \/ TimeOut \/ Apply
  BY <1>4, LoopDoes, QuietKeepsTrades DEF LoopStep
<1> QED  BY <1>2, <1>3, <1>4, StepDoes, ReceiveKeepsTrades

(* An order the venue is done with stays so and gets no trades.            *)
DoneStays(o) ==
    venue[o] = "done" =>
        /\ venue'[o] = "done"
        /\ \A t \in TradesOf(o) : trade'[t] # "none" => trade[t] # "none"

LEMMA DoneIsDone ==
    ASSUME TypeInv, SubmitFits, [Next]_vars
    PROVE  /\ UNCHANGED fillsOf
           /\ \A o \in Orders : TradesOf(o)' = TradesOf(o) /\ TradesOf(o) \subseteq Trades
           /\ \A o \in Orders : DoneStays(o)
<1>1. UNCHANGED fillsOf
  <2>1. CASE Apply
    BY <2>1 DEF Apply, market
  <2> QED  BY <2>1, QueueGrows
<1>2. /\ trade \in [Trades -> {"none", "MATCHED", "MINED"}]
      /\ venue \in [Orders -> {"none", "asked", "live", "refused", "done"}]
  BY DEF TypeInv, TypeOK
<1>3. \A o : TradesOf(o)' = TradesOf(o) /\ TradesOf(o) \subseteq Trades
  BY <1>1 DEF TradesOf
<1>4. SUFFICES ASSUME NEW o \in Orders, venue[o] = "done"
               PROVE  /\ venue'[o] = "done"
                      /\ \A t \in TradesOf(o) : trade'[t] # "none" => trade[t] # "none"
  BY <1>1, <1>3 DEF DoneStays
<1>5. CASE Submit
  <2>1. \E list \in SUBSET Orders :
          /\ \A p \in list : status[p] = "INITIALIZED"
          /\ venue' = [p \in Orders |-> IF p \in list THEN "asked" ELSE venue[p]]
    BY <1>5 DEF Submit
  <2>2. status[o] # "INITIALIZED"
    BY <1>4 DEF SubmitFits
  <2> QED  BY <1>4, <1>5, <2>1, <2>2 DEF Submit
<1>6. CASE Match
  <2>1. PICK u \in Trades :
          /\ \A p \in fillsOf[u] : venue[p] = "live"
          /\ trade' = [trade EXCEPT ![u] = "MATCHED"]
          /\ venue' = [p \in Orders |->
                IF p \in fillsOf[u] /\ Complete(p, {w \in Trades : trade'[w] # "none"})
                THEN "done" ELSE venue[p]]
    BY <1>6 DEF Match
  <2>2. u \notin TradesOf(o)
    BY <1>4, <2>1 DEF TradesOf
  <2>3. venue'[o] = "done"
    BY <1>4, <2>1
  <2> QED  BY <1>2, <2>1, <2>2, <2>3
<1>7. CASE Settle
  <2>1. UNCHANGED venue
    BY <1>7 DEF Settle
  <2>2. \E u \in Trades : trade[u] = "MATCHED" /\ trade' = [trade EXCEPT ![u] = "MINED"]
    BY <1>7 DEF Settle
  <2> QED  BY <1>2, <1>4, <2>1, <2>2
<1>8. CASE Place
  <2>1. UNCHANGED trade
    BY <1>8 DEF Place
  <2>2. \E p \in Orders : \E s : venue[p] = "asked" /\ venue' = [venue EXCEPT ![p] = s]
    BY <1>8 DEF Place
  <2> QED  BY <1>2, <1>4, <2>1, <2>2
<1>9. CASE Withdraw
  <2>1. UNCHANGED trade
    BY <1>9 DEF Withdraw
  <2>2. UNCHANGED venue \/ \E p \in Orders : venue' = [venue EXCEPT ![p] = "done"]
    BY <1>9 DEF Withdraw
  <2> QED  BY <1>2, <1>4, <2>1, <2>2
<1>10. CASE ~(Submit \/ Match \/ Settle \/ Place \/ Withdraw)
  <2>1. UNCHANGED <<venue, trade>>
    BY <1>10 DEF Next, Strategy, Client, Venue, RequestCancel, Answer, SendCancel, CancelAnswer,
                 Receive, RunTask, TimeOut, Apply, Repeat, Update, market, vars
  <2> QED  BY <1>4, <2>1
<1> QED  BY <1>5, <1>6, <1>7, <1>8, <1>9, <1>10
-----------------------------------------------------------------------------
(* Waits and fills *)

(* Who still waits although the answer has come waits in vain; a fill that *)
(* waits so is an overtaken one.                                           *)
WaitFits ==
    /\ \A task \in Running(ready) : task.linked
    /\ \A task \in ToSet(waiting) : task.order \in known => ~task.linked
    /\ \A task \in ToSet(waiting) :
          ~task.linked /\ ~IsOrderTask(task)
              => <<task.message.trade, task.order>> \in overtaken

LEMMA WaitsKept ==
    ASSUME WaitFits, \A task \in Running(ready') : task \in Running(ready),
           UNCHANGED <<waiting, known>>, overtaken \subseteq overtaken'
    PROVE  WaitFits'
  BY DEF WaitFits

LEMMA StepWaits ==
    ASSUME TypeInv, WaitFits, [Next]_vars
    PROVE  WaitFits'
<1>1. CASE Submit \/ RequestCancel \/ SendCancel \/ Venue \/ UNCHANGED vars
  <2>1. UNCHANGED <<ready, waiting, known, overtaken>>
    BY <1>1 DEF Submit, RequestCancel, SendCancel, Venue, Place, Match, Settle, Withdraw,
                Repeat, Update, client, vars, history
  <2> QED  BY <2>1, WaitsKept DEF Running
<1>2. CASE Apply
  <2>1. UNCHANGED <<waiting, known, overtaken>>
    BY <1>2 DEF Apply, history
  <2> QED  BY <1>2, <2>1, ApplyDoes, WaitsKept
<1>3. CASE CancelAnswer
  <2>1. UNCHANGED <<waiting, known, overtaken>>
    BY <1>3 DEF CancelAnswer, history
  <2> QED  BY <1>3, <2>1, CancelAnswerTypes, WaitsKept DEF Running
<1>4. CASE Answer
  <2>1. PICK list \in posts : \E success \in SUBSET list : Answered(list, success)
    BY <1>4, AnswerDoes
  <2>2. PICK success \in SUBSET list : Answered(list, success)
    BY <2>1
  <2>3. UNCHANGED overtaken
    BY <1>4 DEF Answer, history
  <2>4. /\ Running(ready') = Running(ready) \cup WokenBy(success)
        /\ ToSet(waiting') = ToSet(waiting) \ WokenBy(success)
        /\ known' = known \cup success
    BY <2>2 DEF Answered
  <2>5. \A task \in WokenBy(success) : task.linked
    BY DEF WokenBy, Wakes
  <2>6. ASSUME NEW task \in ToSet(waiting'), task.order \in known'
        PROVE  ~task.linked
    <3>1. CASE task.order \in known
      BY <2>4, <2>6, <3>1 DEF WaitFits
    <3>2. CASE task.order \in success
      BY <2>4, <2>6, <3>2 DEF WokenBy, Wakes
    <3> QED  BY <2>4, <2>6, <3>1, <3>2
  <2> QED  BY <2>3, <2>4, <2>5, <2>6 DEF WaitFits
<1>5. CASE Receive
  <2>1. PICK new \in SUBSET Tasks : Received(Head(wire), new)
    BY <1>5, ReceiveDoes
  <2>2. UNCHANGED <<waiting, known, overtaken>>
    BY <1>5 DEF Receive
  <2>3. \A task \in Running(ready') : task.linked
    BY <2>1 DEF Received, WaitFits
  <2> QED  BY <2>2, <2>3 DEF WaitFits
<1>6. CASE Handles
  <2>1. Running(ready) = {Head(ready)} \cup Running(Tail(ready))
    BY <1>6, NextTask DEF Handles
  <2>2. /\ Head(ready) \in Tasks /\ Tail(ready) \in Seq(Runnable)
        /\ EngineFits(Tail(ready), events) /\ Handle(Head(ready), Tail(ready))
        /\ IsOrderTask(Head(ready)) => Head(ready).message.order = Head(ready).order
    BY <1>6, NextTask DEF Handles
  <2>3. Running(ready') = Running(Tail(ready))
    BY <2>2, HandleDoes
  <2>4. UNCHANGED <<waiting, known>> /\ overtaken \subseteq overtaken'
    BY <1>6 DEF Handles
  <2> QED  BY <2>1, <2>3, <2>4, WaitsKept
<1>7. CASE BeginsToWait
  <2>1. /\ Running(ready) = {Head(ready)} \cup Running(Tail(ready))
        /\ Running(ready') = Running(Tail(ready))
        /\ ToSet(waiting') = ToSet(waiting) \cup {Head(ready)}
    BY <1>7, NextTask, BeginsToWaitTypes DEF BeginsToWait
  <2>2. UNCHANGED <<known, overtaken>> /\ Head(ready).order \notin known
    BY <1>7 DEF BeginsToWait
  <2> QED  BY <2>1, <2>2 DEF WaitFits
<1>8. CASE TimeOut
  <2> DEFINE task == Head(waiting)
             rest == Tail(waiting)
  <2>1. /\ task \in Tasks /\ rest \in Seq(Tasks)
        /\ ToSet(waiting) = {task} \cup ToSet(rest) /\ ToSet(waiting) \subseteq Tasks
    BY <1>8, LongestWait, ClientTasks DEF TimeOut
  <2>2. StillWait /\ Running(ready') = {}
    BY <1>8, TimeOutWaits, TimeOutTypes
  <2>3. UNCHANGED known
    BY <1>8 DEF TimeOut
  <2>4. overtaken' = IF IsOrderTask(task) THEN overtaken
                     ELSE overtaken \cup FillsIn(rest, task.order)
    BY <1>8 DEF TimeOut
  <2>5. StillWait => \A w \in ToSet(waiting') : \E v \in ToSet(rest) :
          /\ w.message = v.message /\ w.order = v.order
          /\ ~w.linked => ~v.linked \/ SharesEvent(task, v)
          /\ w.linked => v.linked
    BY DEF StillWait
  <2> HIDE DEF task, rest
  <2>6. ASSUME NEW w \in ToSet(waiting')
        PROVE  /\ w.order \in known' => ~w.linked
               /\ ~w.linked /\ ~IsOrderTask(w)
                      => <<w.message.trade, w.order>> \in overtaken'
    <3>1. PICK v \in ToSet(rest) :
            /\ w.message = v.message /\ w.order = v.order
            /\ ~w.linked => ~v.linked \/ SharesEvent(task, v)
            /\ w.linked => v.linked
      BY <2>2, <2>5
    <3>2. v \in ToSet(waiting) /\ v \in Tasks /\ v # EngineTask
      BY <2>1, TaskFields
    <3>3. w.order \in known' => ~w.linked
      BY <2>3, <3>1, <3>2 DEF WaitFits
    <3>4. ASSUME ~w.linked, ~IsOrderTask(w)
          PROVE  <<w.message.trade, w.order>> \in overtaken'
      <4>1. ~IsOrderTask(v)
        BY <3>1, <3>4 DEF IsOrderTask
      <4>2. CASE ~v.linked
        BY <2>4, <3>1, <3>2, <4>1, <4>2 DEF WaitFits
      <4>3. CASE SharesEvent(task, v)
        <5>1. ~IsOrderTask(task) /\ v.order = task.order
          BY <4>1, <4>3 DEF SharesEvent
        <5>2. <<v.message.trade, task.order>> \in FillsIn(rest, task.order)
          BY <3>2, <4>1, <5>1 DEF FillsIn
        <5> QED  BY <2>4, <3>1, <5>1, <5>2
      <4> QED  BY <3>1, <3>4, <4>2, <4>3
    <3> QED  BY <3>3, <3>4
  <2> QED  BY <2>2, <2>6 DEF WaitFits
<1> QED  BY <1>1, <1>2, <1>3, <1>4, <1>5, <1>6, <1>7, <1>8, StepDoes
-----------------------------------------------------------------------------
(* Cancellations *)

(* The engine is told, or will be, that the order is cancelled.            *)
Cancels(o) ==
    \/ status[o] = "CANCELED"
    \/ \E e \in ToSet(events) : e.kind = "canceled" /\ e.order = o

(* A cancellation comes after every trade of its order, on the channel and *)
(* through the tasks: the fills of the order it closes were told, or       *)
(* overtaken.                                                              *)
EndFits ==
    /\ \A i \in DOMAIN wire : IsCancel(wire[i]) =>
          /\ venue[wire[i].order] = "done"
          /\ \A t \in TradesOf(wire[i].order) : trade[t] # "none" => Before(t, i)
    /\ \A task \in Waiting : IsCancel(task.message) =>
          /\ venue[task.order] = "done"
          /\ \A t \in TradesOf(task.order) : trade[t] # "none" => Seen(t)
    /\ \A o \in Orders : Cancels(o) =>
          /\ venue[o] = "done"
          /\ \A t \in TradesOf(o) : trade[t] # "none" => <<t, o>> \in filled \cup overtaken

(* A task waits to tell of the fill.                                       *)
InTask(f) ==
    \E task \in Waiting : /\ task.message.kind = "trade"
                          /\ task.message.trade = f[1] /\ task.order = f[2]

FillFits == \A f \in seen : f \in filled \/ f \in overtaken \/ InTask(f)

ClientInv ==
    TypeInv /\ EngineKnows /\ SubmitFits /\ TradeFits /\ WaitFits /\ EndFits /\ FillFits

LEMMA HistoryGrows ==
    ASSUME TypeInv, [Next]_vars
    PROVE  filled \subseteq filled' /\ overtaken \subseteq overtaken'
<1>1. filled \subseteq filled'
  <2>1. CASE Apply
    BY <2>1 DEF Apply
  <2> QED  BY <2>1, QueueGrows
<1>2. overtaken \subseteq overtaken'
  BY DEF Next, Strategy, Client, Venue, Submit, RequestCancel, Answer, SendCancel, CancelAnswer,
         Receive, RunTask, TimeOut, Apply, Place, Match, Settle, Withdraw, Repeat, Update, history, vars
<1> QED  BY <1>1, <1>2

(* A cancellation is news only when the task with its message is handled.  *)
LEMMA NewCancels ==
    ASSUME TypeInv, [Next]_vars, NEW o \in Orders, Cancels(o)', ~Cancels(o)
    PROVE  /\ o \in known
           /\ \/ /\ Handles /\ IsCancel(Head(ready).message) /\ Head(ready).order = o
              \/ /\ TimeOut /\ IsCancel(Head(waiting).message) /\ Head(waiting).order = o
<1>1. status[o] # "CANCELED" /\ ~\E e \in ToSet(events) : e.kind = "canceled" /\ e.order = o
  BY DEF Cancels
<1>2. CASE Apply
  <2>1. ToSet(events) = {Head(events)} \cup ToSet(events') /\ Applied(Head(events))
    BY <1>2, ApplyDoes
  <2>2. status'[o] # "CANCELED"
    BY <1>1, <2>1 DEF Applied
  <2> QED  BY <1>1, <2>1, <2>2 DEF Cancels
<1>3. CASE ~Apply
  <2>1. status'[o] # "CANCELED"
    <3>1. CASE Submit
      <4>1. \E list \in SUBSET Orders :
              status' = [p \in Orders |-> IF p \in list THEN "SUBMITTED" ELSE status[p]]
        BY <3>1 DEF Submit
      <4> QED  BY <1>1, <4>1
    <3>2. CASE RequestCancel
      <4>1. \E p \in Cancelable : status' = [status EXCEPT ![p] = "PENDING_CANCEL"]
        BY <3>2 DEF RequestCancel
      <4> QED  BY <1>1, <4>1 DEF TypeInv, TypeOK
    <3>3. CASE ~(Submit \/ RequestCancel)
      BY <1>1, <1>3, <3>3, QueueGrows
    <3> QED  BY <3>1, <3>2, <3>3
  <2>2. PICK e \in ToSet(events') \ ToSet(events) : e.kind = "canceled" /\ e.order = o
    BY <1>1, <2>1 DEF Cancels
  <2>3. o \in known /\ (Handles \/ TimeOut)
    BY <1>3, <2>2, QueueGrows
  <2>4. CASE Handles
    <3>1. /\ Head(ready) \in Tasks /\ Tail(ready) \in Seq(Runnable)
          /\ EngineFits(Tail(ready), events) /\ Handle(Head(ready), Tail(ready))
          /\ IsOrderTask(Head(ready)) => Head(ready).message.order = Head(ready).order
      BY <2>4, NextTask DEF Handles
    <3>2. /\ e.order = Head(ready).order /\ IsOrderTask(Head(ready))
          /\ Head(ready).message.type = "CANCELLATION"
      BY <2>2, <3>1, HandleDoes
    <3> QED  BY <2>2, <2>3, <2>4, <3>2 DEF IsCancel, IsOrderTask
  <2>5. CASE TimeOut
    <3>1. /\ Head(waiting) \in Tasks /\ ready \in Seq(Runnable)
          /\ EngineFits(ready, events) /\ Handle(Head(waiting), ready)
          /\ IsOrderTask(Head(waiting)) => Head(waiting).message.order = Head(waiting).order
      BY <2>5, LongestWait, ClientTasks DEF TimeOut, TypeInv
    <3>2. /\ e.order = Head(waiting).order /\ IsOrderTask(Head(waiting))
          /\ Head(waiting).message.type = "CANCELLATION"
      BY <2>2, <3>1, HandleDoes
    <3> QED  BY <2>2, <2>3, <2>5, <3>2 DEF IsCancel, IsOrderTask
  <2> QED  BY <2>3, <2>4, <2>5
<1> QED  BY <1>2, <1>3

(* What the cancellation of a known order finds: every fill of the order   *)
(* is told or overtaken, now that the tasks behind it are.                 *)
LEMMA CancelFindsFills ==
    ASSUME ClientInv, [Next]_vars, NEW o \in Orders, o \in known, NEW t \in TradesOf(o),
           trade[t] # "none",
           \/ /\ Handles /\ IsCancel(Head(ready).message) /\ Head(ready).order = o
           \/ /\ TimeOut /\ IsCancel(Head(waiting).message) /\ Head(waiting).order = o
    PROVE  venue[o] = "done" /\ <<t, o>> \in filled' \cup overtaken'
<1>1. TypeInv /\ TradeFits /\ WaitFits /\ EndFits /\ FillFits
  BY DEF ClientInv
<1>2. filled \subseteq filled' /\ overtaken \subseteq overtaken'
  BY <1>1, HistoryGrows
<1>3. Handles => /\ Head(ready) \in Waiting /\ Head(ready) \in Tasks
                 /\ Running(ready) = {Head(ready)} \cup Running(Tail(ready))
  BY <1>1, NextTask DEF Handles, Waiting
<1>4. TimeOut => /\ Head(waiting) \in Waiting /\ Head(waiting) \in Tasks
                 /\ Running(ready) = {}
  BY <1>1, LongestWait, TimeOutTypes DEF TimeOut, Waiting
<1>5. venue[o] = "done" /\ Seen(t)
  BY <1>1, <1>3, <1>4 DEF EndFits
<1>6. <<t, o>> \in seen
  BY <1>5 DEF Seen, TradesOf
<1>7. \/ <<t, o>> \in filled \cup overtaken
      \/ \E task \in Waiting : /\ task.message.kind = "trade"
                               /\ task.message.trade = t /\ task.order = o
  BY <1>1, <1>6 DEF FillFits, InTask
<1>8. ASSUME NEW task \in Waiting, task.message.kind = "trade", task.message.trade = t,
             task.order = o
      PROVE  <<t, o>> \in overtaken'
  <2>1. ~IsOrderTask(task)
    BY <1>8 DEF IsOrderTask
  <2>2. CASE task \in ToSet(waiting)
    BY <1>1, <1>2, <1>8, <2>1, <2>2 DEF WaitFits
  <2>3. CASE task \in Running(ready)
    <3>1. Handles /\ IsCancel(Head(ready).message) /\ Head(ready).order = o
      BY <1>4, <2>3
    <3>2. task \in Running(Tail(ready))
      BY <1>3, <1>8, <2>3, <3>1 DEF IsCancel
    <3>3. <<t, o>> \in FillsIn(Tail(ready), o)
      BY <1>8, <2>1, <3>2 DEF FillsIn, Running
    <3> QED  BY <3>1, <3>3 DEF Handles, IsCancel
  <2> QED  BY <2>2, <2>3 DEF Waiting
<1> QED  BY <1>2, <1>5, <1>7, <1>8

(* The first part of EndFits, on the channel, and the second, in the       *)
(* tasks.                                                                  *)
WireEnds ==
    \A i \in DOMAIN wire : IsCancel(wire[i]) =>
        /\ venue[wire[i].order] = "done"
        /\ \A t \in TradesOf(wire[i].order) : trade[t] # "none" => Before(t, i)

TasksEnd ==
    \A task \in Waiting : IsCancel(task.message) =>
        /\ venue[task.order] = "done"
        /\ \A t \in TradesOf(task.order) : trade[t] # "none" => Seen(t)

LEMMA WireOrders ==
    ASSUME TypeInv
    PROVE  /\ wire \in Seq(Messages)
           /\ \A i \in DOMAIN wire : IsCancel(wire[i]) => wire[i].order \in Orders
           /\ \A task \in Waiting : task \in Tasks /\ task.order \in Orders
           /\ \A task \in Tasks : IsCancel(task.message) => IsOrderTask(task)
<1>1. wire \in Seq(Messages) /\ \A i \in DOMAIN wire : wire[i] \in Messages
  BY DEF TypeInv, TypeOK
<1>2. \A m \in Messages : IsCancel(m) => m.order \in Orders
  BY MessageKinds DEF IsCancel
<1>3. Waiting \subseteq Tasks
  BY ClientTasks DEF Waiting
<1>4. \A task \in Waiting : task.order \in Orders
  BY <1>3, TaskFields
<1> QED  BY <1>1, <1>2, <1>3, <1>4 DEF IsCancel, IsOrderTask

(* Nothing is sent or taken, and no task made.                             *)
LEMMA QuietKeepsEnds ==
    ASSUME TypeInv, WireEnds, TasksEnd, UNCHANGED <<wire, seen, fillsOf>>,
           \A o \in Orders : TradesOf(o)' = TradesOf(o) /\ TradesOf(o) \subseteq Trades,
           \A o \in Orders : DoneStays(o),
           \A task \in Waiting' : \E v \in Waiting :
               task.message = v.message /\ task.order = v.order
    PROVE  WireEnds' /\ TasksEnd'
<1>1. \A t : Seen(t)' = Seen(t)
  BY DEF Seen
<1>2. \A t, n : Before(t, n)' = Before(t, n)
  BY <1>1 DEF Before
<1>3. ASSUME NEW i \in DOMAIN wire', IsCancel(wire'[i])
      PROVE  /\ venue'[wire'[i].order] = "done"
             /\ \A t \in TradesOf(wire[i].order)' : trade'[t] # "none" => Before(t, i)'
  <2>1. i \in DOMAIN wire /\ wire'[i] = wire[i] /\ IsCancel(wire[i])
    BY <1>3
  <2>2. PICK o \in Orders : o = wire[i].order
    BY <2>1, WireOrders
  <2>3. venue[o] = "done" /\ \A t \in TradesOf(o) : trade[t] # "none" => Before(t, i)
    BY <2>1, <2>2 DEF WireEnds
  <2>4. venue'[o] = "done" /\ \A t \in TradesOf(o)' : trade'[t] # "none" => Before(t, i)'
    BY <1>2, <2>2, <2>3 DEF DoneStays
  <2> QED  BY <2>1, <2>2, <2>4 DEF TradesOf
<1>4. ASSUME NEW task \in Waiting', IsCancel(task.message)
      PROVE  /\ venue'[task.order] = "done"
             /\ \A t \in TradesOf(task.order)' : trade'[t] # "none" => Seen(t)'
  <2>1. PICK v \in Waiting : task.message = v.message /\ task.order = v.order
    OBVIOUS
  <2>2. PICK o \in Orders : o = task.order
    BY <2>1, WireOrders
  <2>3. venue[o] = "done" /\ \A t \in TradesOf(o) : trade[t] # "none" => Seen(t)
    BY <1>4, <2>1, <2>2 DEF TasksEnd
  <2>4. venue'[o] = "done" /\ \A t \in TradesOf(o)' : trade'[t] # "none" => Seen(t)'
    BY <1>1, <2>2, <2>3 DEF DoneStays
  <2> QED  BY <2>2, <2>4
<1> QED  BY <1>3, <1>4 DEF WireEnds, TasksEnd

LEMMA AnnounceKeepsEnds ==
    ASSUME TypeInv, TradeFits, WireEnds, TasksEnd, NEW m, Announced(m),
           \A o \in Orders : TradesOf(o)' = TradesOf(o) /\ TradesOf(o) \subseteq Trades,
           \A o \in Orders : DoneStays(o)
    PROVE  WireEnds' /\ TasksEnd'
<1>1. /\ Len(wire) \in Nat /\ DOMAIN wire = 1 .. Len(wire)
      /\ DOMAIN wire' = 1 .. Len(wire) + 1
      /\ \A i \in DOMAIN wire : wire'[i] = wire[i]
      /\ wire'[Len(wire) + 1] = m
      /\ \A t, n : Before(t, n) => Before(t, n)'
  BY WireGrows DEF Announced
<1>2. UNCHANGED <<seen, fillsOf, open, final, ready, waiting>> /\ m \in Messages
  BY DEF Announced, Announces
<1>3. Waiting' = Waiting /\ \A t : Seen(t)' = Seen(t)
  BY <1>2 DEF Waiting, Running, Seen
<1>4. ASSUME NEW i \in DOMAIN wire', IsCancel(wire'[i]), NEW o \in Orders,
             o = wire'[i].order
      PROVE  /\ venue'[o] = "done"
             /\ \A t \in TradesOf(o) : trade'[t] # "none" => Before(t, i)'
  <2>1. CASE i \in DOMAIN wire
    <3>1. IsCancel(wire[i]) /\ o = wire[i].order
      BY <1>1, <1>4, <2>1
    <3>2. venue[o] = "done" /\ \A t \in TradesOf(o) : trade[t] # "none" => Before(t, i)
      BY <2>1, <3>1 DEF WireEnds
    <3> QED  BY <1>1, <3>2 DEF DoneStays
  <2>2. CASE i \notin DOMAIN wire
    <3>1. i = Len(wire) + 1 /\ IsCancel(m) /\ o = m.order
      BY <1>1, <1>4, <2>2
    <3>2. venue'[o] = "done" /\ m.kind # "trade"
      BY <3>1 DEF Announced, IsCancel
    <3>3. ASSUME NEW t \in TradesOf(o), trade'[t] # "none"
          PROVE  Before(t, i)'
      <4>1. t \in Trades /\ trade[t] # "none"
        BY <3>2, <3>3 DEF Announced
      <4>2. Before(t, i)
        BY <3>1, <4>1 DEF TradeFits
      <4> QED  BY <1>1, <4>2
    <3> QED  BY <3>2, <3>3
  <2> QED  BY <2>1, <2>2
<1>5. ASSUME NEW i \in DOMAIN wire', IsCancel(wire'[i])
      PROVE  /\ venue'[wire'[i].order] = "done"
             /\ \A t \in TradesOf(wire[i].order)' : trade'[t] # "none" => Before(t, i)'
  <2>1. wire'[i] \in Messages
    BY <1>1, <1>2, WireOrders
  <2>2. PICK o \in Orders : o = wire'[i].order
    BY <1>5, <2>1, MessageKinds DEF IsCancel
  <2>3. venue'[o] = "done" /\ \A t \in TradesOf(o) : trade'[t] # "none" => Before(t, i)'
    BY <1>4, <1>5, <2>2
  <2> QED  BY <1>2, <2>2, <2>3 DEF TradesOf
<1>6. ASSUME NEW task \in Waiting', IsCancel(task.message)
      PROVE  /\ venue'[task.order] = "done"
             /\ \A t \in TradesOf(task.order)' : trade'[t] # "none" => Seen(t)'
  <2>1. PICK o \in Orders : o = task.order
    BY <1>3, WireOrders
  <2>2. venue[o] = "done" /\ \A t \in TradesOf(o) : trade[t] # "none" => Seen(t)
    BY <1>3, <1>6, <2>1 DEF TasksEnd
  <2> QED  BY <1>3, <2>1, <2>2 DEF DoneStays
<1> QED  BY <1>5, <1>6 DEF WireEnds, TasksEnd

LEMMA ReceiveKeepsEnds ==
    ASSUME TypeInv, TradeFits, WireEnds, TasksEnd, Receive,
           \A o \in Orders : TradesOf(o)' = TradesOf(o) /\ TradesOf(o) \subseteq Trades
    PROVE  WireEnds' /\ TasksEnd'
<1>1. PICK m \in Messages :
        /\ wire # <<>> /\ wire' = Tail(wire) /\ m = Head(wire)
        /\ \E new \in SUBSET Tasks : Received(m, new)
  BY ReceiveDoes
<1>2. PICK new \in SUBSET Tasks : Received(m, new)
  BY <1>1
<1>3. UNCHANGED <<fillsOf, trade, venue, waiting>>
  BY DEF Receive, market
<1>4. m.kind = "trade" => m.trade \in Trades
  BY MessageKinds
<1>5. seen \subseteq seen'
  BY <1>2, MessageKinds DEF Received
<1>6. m.kind = "trade" => Seen(m.trade)'
  <2>1. ASSUME m.kind = "trade", seen' = seen \cup {m.trade} \X fillsOf[m.trade]
        PROVE  Seen(m.trade)'
    BY <1>3, <2>1 DEF Seen
  <2>2. ASSUME UNCHANGED seen, Seen(m.trade)
        PROVE  Seen(m.trade)'
    BY <1>3, <2>2 DEF Seen
  <2> QED  BY <1>2, <2>1, <2>2 DEF Received, TradeFits
<1>7. /\ Len(wire) \in Nat /\ Len(wire') = Len(wire) - 1
      /\ DOMAIN wire = 1 .. Len(wire) /\ DOMAIN wire' = 1 .. Len(wire) - 1
      /\ m = wire[1]
      /\ \A i \in DOMAIN wire' : wire'[i] = wire[i + 1]
      /\ \A t : Seen(t) => Seen(t)'
      /\ \A t : \A n \in Nat : Before(t, n + 1) => Before(t, n)'
  BY <1>1, <1>3, <1>5, <1>6, WireShrinks
<1>8. 1 \in DOMAIN wire
  BY <1>1, WireOrders
<1>9. ASSUME NEW i \in DOMAIN wire', IsCancel(wire'[i])
      PROVE  /\ venue'[wire'[i].order] = "done"
             /\ \A t \in TradesOf(wire[i].order)' : trade'[t] # "none" => Before(t, i)'
  <2>1. i + 1 \in DOMAIN wire /\ wire'[i] = wire[i + 1] /\ i \in Nat
    BY <1>7
  <2>2. PICK o \in Orders : o = wire[i + 1].order
    BY <1>9, <2>1, WireOrders
  <2>3. venue[o] = "done" /\ \A t \in TradesOf(o) : trade[t] # "none" => Before(t, i + 1)
    BY <1>9, <2>1, <2>2 DEF WireEnds
  <2>4. venue'[o] = "done" /\ \A t \in TradesOf(o) : trade'[t] # "none" => Before(t, i)'
    BY <1>3, <1>7, <2>1, <2>3
  <2>5. wire'[i].order = o
    BY <2>1, <2>2
  <2> QED  BY <1>3, <2>4, <2>5 DEF TradesOf
<1>10. ASSUME NEW task \in Waiting', IsCancel(task.message)
       PROVE  /\ venue'[task.order] = "done"
              /\ \A t \in TradesOf(task.order)' : trade'[t] # "none" => Seen(t)'
  <2>1. task \in Waiting \/ task \in new
    BY <1>2, <1>3 DEF Received, Waiting, Running
  <2>2. CASE task \in Waiting
    <3>1. PICK o \in Orders : o = task.order
      BY <2>2, WireOrders
    <3>2. venue[o] = "done" /\ \A t \in TradesOf(o) : trade[t] # "none" => Seen(t)
      BY <1>10, <2>2, <3>1 DEF TasksEnd
    <3> QED  BY <1>3, <1>7, <3>1, <3>2
  <2>3. CASE task \in new
    <3>1. task.message = m /\ IsCancel(m)
      BY <1>2, <1>10, <2>3 DEF Received
    <3>2. task.order = m.order /\ m.order \in Orders
      BY <1>2, <2>3, <3>1, MessageKinds DEF Received, IsCancel
    <3>3. PICK o \in Orders : o = m.order
      BY <3>2
    <3>4. venue[o] = "done" /\ \A t \in TradesOf(o) : trade[t] # "none" => Before(t, 1)
      BY <1>7, <1>8, <3>1, <3>3 DEF WireEnds
    <3>5. \A t : Before(t, 1) => Seen(t)
      BY DEF Before
    <3> QED  BY <1>3, <1>7, <3>2, <3>3, <3>4, <3>5
  <2> QED  BY <2>1, <2>2, <2>3
<1> QED  BY <1>9, <1>10 DEF WireEnds, TasksEnd

LEMMA StepEnds ==
    ASSUME ClientInv, [Next]_vars
    PROVE  EndFits'
<1>1. TypeInv /\ SubmitFits /\ TradeFits /\ EndFits /\ WireEnds /\ TasksEnd
  BY DEF ClientInv, EndFits, WireEnds, TasksEnd
<1>2. /\ UNCHANGED fillsOf
      /\ \A o \in Orders : TradesOf(o)' = TradesOf(o) /\ TradesOf(o) \subseteq Trades
      /\ \A o \in Orders : DoneStays(o)
  BY <1>1, DoneIsDone
<1>3. WireEnds' /\ TasksEnd'
  <2>1. ASSUME Unnoticed
        PROVE  WireEnds' /\ TasksEnd'
    <3>1. Waiting' = Waiting /\ UNCHANGED <<wire, seen, fillsOf>>
      BY <2>1 DEF Unnoticed, Waiting, Running
    <3> QED  BY <1>1, <1>2, <3>1, QuietKeepsEnds
  <2>2. CASE Submit \/ RequestCancel \/ SendCancel \/ UNCHANGED vars
    <3>1. Unnoticed
      BY <2>2 DEF Unnoticed, Submit, RequestCancel, SendCancel, vars, market, history
    <3> QED  BY <2>1, <3>1
  <2>3. CASE Venue
    BY <1>1, <1>2, <2>1, <2>3, VenueDoes, AnnounceKeepsEnds
  <2>4. CASE Answer \/ CancelAnswer \/ Handles \/ BeginsToWait \/ TimeOut \/ Apply
    <3>1. LoopStep
      BY <1>1, <2>4, LoopDoes
    <3>2. /\ UNCHANGED <<wire, seen, fillsOf>>
          /\ \A task \in Waiting' : \E v \in Waiting :
                task.message = v.message /\ task.order = v.order
      BY <3>1 DEF LoopStep, Quiet
    <3> QED  BY <1>1, <1>2, <3>2, QuietKeepsEnds
  <2>5. CASE Receive
    BY <1>1, <1>2, <2>5, ReceiveKeepsEnds
  <2> QED  BY <1>1, <2>2, <2>3, <2>4, <2>5, StepDoes
<1>4. ASSUME NEW o \in Orders, Cancels(o)'
      PROVE  /\ venue'[o] = "done"
             /\ \A t \in TradesOf(o) : trade'[t] # "none" => <<t, o>> \in filled' \cup overtaken'
  <2>1. filled \subseteq filled' /\ overtaken \subseteq overtaken'
    BY <1>1, HistoryGrows
  <2>2. CASE Cancels(o)
    <3>1. venue[o] = "done"
          /\ \A t \in TradesOf(o) : trade[t] # "none" => <<t, o>> \in filled \cup overtaken
      BY <1>1, <2>2 DEF EndFits
    <3> QED  BY <1>2, <2>1, <3>1 DEF DoneStays
  <2>3. CASE ~Cancels(o)
    <3>1. /\ o \in known
          /\ \/ /\ Handles /\ IsCancel(Head(ready).message) /\ Head(ready).order = o
             \/ /\ TimeOut /\ IsCancel(Head(waiting).message) /\ Head(waiting).order = o
      BY <1>1, <1>4, <2>3, NewCancels
    <3>2. venue[o] = "done"
      <4>1. CASE Handles /\ IsCancel(Head(ready).message) /\ Head(ready).order = o
        <5>1. Head(ready) \in Waiting
          BY <1>1, <4>1, NextTask DEF Handles, Waiting
        <5> QED  BY <1>1, <4>1, <5>1 DEF EndFits
      <4>2. CASE TimeOut /\ IsCancel(Head(waiting).message) /\ Head(waiting).order = o
        <5>1. Head(waiting) \in Waiting
          BY <1>1, <4>2, LongestWait DEF TimeOut, Waiting
        <5> QED  BY <1>1, <4>2, <5>1 DEF EndFits
      <4> QED  BY <3>1, <4>1, <4>2
    <3>3. \A t \in TradesOf(o) : trade[t] # "none" => <<t, o>> \in filled' \cup overtaken'
      BY <3>1, CancelFindsFills
    <3> QED  BY <1>2, <3>2, <3>3 DEF DoneStays
  <2> QED  BY <2>2, <2>3
<1>5. \A o \in Orders : Cancels(o)' =>
          /\ venue'[o] = "done"
          /\ \A t \in TradesOf(o)' : trade'[t] # "none" => <<t, o>> \in filled' \cup overtaken'
  BY <1>2, <1>4
<1> QED  BY <1>3, <1>5 DEF EndFits, WireEnds, TasksEnd

(* A known order that is closed has no fill left to tell: a filled order   *)
(* has them all, a cancelled one those that traded before; a rejected one  *)
(* is not known.                                                           *)
LEMMA ClosedKnowsFills ==
    ASSUME ClientInv, NEW o \in Orders, o \in known, is_closed(o), NEW t \in Trades,
           <<t, o>> \in seen
    PROVE  <<t, o>> \in filled \cup overtaken
<1>1. EngineKnows /\ SubmitFits /\ TradeFits /\ EndFits
  BY DEF ClientInv
<1>2. t \in TradesOf(o) /\ trade[t] # "none"
  <2>1. <<t, o>>[1] = t /\ <<t, o>>[2] = o
    OBVIOUS
  <2> QED  BY <1>1, <2>1 DEF TradeFits, TradesOf
<1>3. CASE status[o] = "REJECTED"
  BY <1>1, <1>3 DEF SubmitFits, Refused
<1>4. CASE status[o] = "CANCELED"
  BY <1>1, <1>2, <1>4 DEF EndFits, Cancels
<1>5. CASE status[o] = "FILLED"
  BY <1>1, <1>2, <1>5 DEF EngineKnows
<1> QED  BY <1>3, <1>4, <1>5 DEF is_closed

(* The task that handles a fill leaves it told or overtaken.               *)
LEMMA HandledIsKept ==
    ASSUME ClientInv, NEW task \in Waiting, NEW tasks, Handle(task, tasks),
           task.message.kind = "trade"
    PROVE  <<task.message.trade, task.order>> \in filled' \cup overtaken
<1> DEFINE f == <<task.message.trade, task.order>>
<1>1. /\ TypeInv /\ EngineKnows /\ TradeFits
      /\ task \in Tasks /\ task.order \in Orders
  BY WireOrders DEF ClientInv
<1>2. task.message.trade \in Trades
  BY <1>1, TaskFields, MessageKinds
<1>3. f \in seen
  BY <1>1 DEF TradeFits, Seen
<1>4. HandleFill(task.message, task.order, tasks)
  BY DEF Handle, IsOrderTask
<1>5. \/ filled' = filled /\ f \in filled
      \/ filled' = filled /\ task.order \in known /\ f \in executed
      \/ filled' = filled /\ task.order \in known /\ is_closed(task.order)
      \/ f \in filled'
  BY <1>4 DEF HandleFill, Processed
<1> HIDE DEF f
<1>6. task.order \in known /\ is_closed(task.order) => f \in filled \cup overtaken
  BY <1>1, <1>2, <1>3, ClosedKnowsFills DEF f
<1> QED  BY <1>1, <1>5, <1>6 DEF EngineKnows, f

LEMMA FillsKept ==
    ASSUME FillFits, filled \subseteq filled', overtaken \subseteq overtaken',
           UNCHANGED seen,
           \A v \in Waiting : v.message.kind = "trade" =>
               \/ <<v.message.trade, v.order>> \in filled' \cup overtaken'
               \/ \E w \in Waiting' : w.message = v.message /\ w.order = v.order,
           seen \subseteq Fills
    PROVE  FillFits'
<1>1. ASSUME NEW f \in seen, InTask(f)
      PROVE  f \in filled' \cup overtaken' \/ InTask(f)'
  <2>1. PICK v \in Waiting : /\ v.message.kind = "trade"
                             /\ v.message.trade = f[1] /\ v.order = f[2]
    BY <1>1 DEF InTask
  <2>2. f = <<v.message.trade, v.order>>
    BY <2>1 DEF Fills
  <2>3. CASE \E w \in Waiting' : w.message = v.message /\ w.order = v.order
    BY <2>1, <2>3 DEF InTask
  <2> QED  BY <2>1, <2>2, <2>3
<1> QED  BY <1>1 DEF FillFits

LEMMA StepFills ==
    ASSUME ClientInv, [Next]_vars
    PROVE  FillFits'
<1>1. TypeInv /\ TradeFits /\ FillFits /\ filled \subseteq filled' /\ overtaken \subseteq overtaken'
      /\ seen \subseteq Fills
  BY HistoryGrows DEF ClientInv, TypeInv, TypeOK
<1>2. ASSUME UNCHANGED seen, Waiting \subseteq Waiting'
      PROVE  FillFits'
  BY <1>1, <1>2, FillsKept
<1>3. CASE Submit \/ RequestCancel \/ SendCancel \/ Venue \/ UNCHANGED vars
  <2>1. UNCHANGED <<ready, waiting, seen>>
    BY <1>3 DEF Submit, RequestCancel, SendCancel, Venue, Place, Match, Settle, Withdraw,
                Repeat, Update, client, vars, history
  <2> QED  BY <1>2, <2>1 DEF Waiting, Running
<1>4. CASE Apply
  <2>1. UNCHANGED <<waiting, seen>>
    BY <1>4 DEF Apply, history
  <2> QED  BY <1>1, <1>2, <1>4, <2>1, ApplyDoes DEF Waiting
<1>5. CASE CancelAnswer
  <2>1. UNCHANGED <<waiting, seen>>
    BY <1>5 DEF CancelAnswer, history
  <2> QED  BY <1>1, <1>2, <1>5, <2>1, CancelAnswerTypes DEF Waiting, Running
<1>6. CASE Answer
  <2>1. PICK list \in posts : \E success \in SUBSET list : Answered(list, success)
    BY <1>1, <1>6, AnswerDoes
  <2>2. PICK success \in SUBSET list : Answered(list, success)
    BY <2>1
  <2>3. UNCHANGED seen
    BY <1>6 DEF Answer, history
  <2>4. Waiting \subseteq Waiting'
    BY <2>2 DEF Answered, Waiting
  <2> QED  BY <1>2, <2>3, <2>4
<1>7. CASE Receive
  <2>1. PICK m \in Messages :
          /\ m = Head(wire)
          /\ \E new \in SUBSET Tasks : Received(m, new)
    BY <1>1, <1>7, ReceiveDoes
  <2>2. PICK new \in SUBSET Tasks : Received(m, new)
    BY <2>1
  <2>3. UNCHANGED <<waiting, fillsOf>>
    BY <1>7 DEF Receive, market
  <2>4. Waiting' = Waiting \cup new
    BY <2>2, <2>3 DEF Received, Waiting
  <2>5. \A f \in seen : InTask(f) => InTask(f)'
    BY <2>4 DEF InTask
  <2>6. ASSUME NEW f \in seen', f \notin seen
        PROVE  InTask(f)'
    <3>1. /\ m.kind = "trade" /\ f \in {m.trade} \X fillsOf[m.trade]
          /\ \A o \in fillsOf[m.trade] : \E task \in new : task.order = o
          /\ \A task \in new : task.message = m
      BY <2>2, <2>6, MessageKinds DEF Received
    <3>2. f[1] = m.trade /\ f[2] \in fillsOf[m.trade]
      BY <3>1
    <3>3. PICK task \in new : task.order = f[2] /\ task.message = m
      BY <3>1, <3>2
    <3> QED  BY <2>4, <3>1, <3>2, <3>3 DEF InTask
  <2> QED  BY <1>1, <2>5, <2>6 DEF FillFits
<1>8. CASE Handles
  <2>1. /\ Head(ready) \in Tasks /\ Tail(ready) \in Seq(Runnable)
        /\ EngineFits(Tail(ready), events) /\ Handle(Head(ready), Tail(ready))
        /\ IsOrderTask(Head(ready)) => Head(ready).message.order = Head(ready).order
        /\ Running(ready) = {Head(ready)} \cup Running(Tail(ready))
    BY <1>1, <1>8, NextTask DEF Handles
  <2>2. Running(ready') = Running(Tail(ready))
    BY <1>1, <2>1, HandleDoes
  <2>3. UNCHANGED <<waiting, seen>>
    BY <1>8 DEF Handles
  <2>4. Head(ready) \in Waiting /\ \A v \in Waiting : v = Head(ready) \/ v \in Waiting'
    BY <2>1, <2>2, <2>3 DEF Waiting
  <2>5. Head(ready).message.kind = "trade" =>
            <<Head(ready).message.trade, Head(ready).order>> \in filled' \cup overtaken
    BY <2>1, <2>4, HandledIsKept
  <2> QED  BY <1>1, <2>3, <2>4, <2>5, FillsKept
<1>9. CASE BeginsToWait
  <2>1. /\ Running(ready) = {Head(ready)} \cup Running(Tail(ready))
        /\ Running(ready') = Running(Tail(ready))
        /\ ToSet(waiting') = ToSet(waiting) \cup {Head(ready)}
    BY <1>1, <1>9, NextTask, BeginsToWaitTypes DEF BeginsToWait
  <2>2. UNCHANGED seen
    BY <1>9 DEF BeginsToWait
  <2> QED  BY <1>2, <2>1, <2>2 DEF Waiting
<1>10. CASE TimeOut
  <2>1. /\ Head(waiting) \in Tasks /\ Handle(Head(waiting), ready)
        /\ ToSet(waiting) = {Head(waiting)} \cup ToSet(Tail(waiting))
    BY <1>1, <1>10, LongestWait DEF TimeOut
  <2>2. StillWait /\ Running(ready) = {}
    BY <1>1, <1>10, TimeOutWaits, TimeOutTypes
  <2>3. UNCHANGED seen
    BY <1>10 DEF TimeOut
  <2>4. Head(waiting) \in Waiting
        /\ \A v \in Waiting : v = Head(waiting) \/ v \in ToSet(Tail(waiting))
    BY <2>1, <2>2 DEF Waiting
  <2>5. \A v \in ToSet(Tail(waiting)) : \E w \in Waiting' :
            w.message = v.message /\ w.order = v.order
    BY <2>2 DEF StillWait, Waiting
  <2>6. Head(waiting).message.kind = "trade" =>
            <<Head(waiting).message.trade, Head(waiting).order>> \in filled' \cup overtaken
    BY <2>1, <2>4, HandledIsKept
  <2> QED  BY <1>1, <2>3, <2>4, <2>5, <2>6, FillsKept
<1> QED  BY <1>1, <1>3, <1>4, <1>5, <1>6, <1>7, <1>8, <1>9, <1>10, StepDoes

LEMMA StepClient ==
    ASSUME ClientInv, [Next]_vars
    PROVE  ClientInv'
<1>1. TypeInv' /\ EngineKnows' /\ SubmitFits' /\ TradeFits' /\ WaitFits'
  BY StepTypes, StepEngine, StepSubmits, StepTrades, StepWaits DEF ClientInv
<1>2. EndFits' /\ FillFits'
  BY StepEnds, StepFills
<1> QED  BY <1>1, <1>2 DEF ClientInv

LEMMA InitClient == Init => ClientInv
<1> SUFFICES ASSUME Init PROVE ClientInv
  OBVIOUS
<1>1. TypeInv
  BY InitTypes
<1>2. /\ status = [o \in Orders |-> "INITIALIZED"] /\ venue = [o \in Orders |-> "none"]
      /\ trade = [t \in Trades |-> "none"]
      /\ executed = {} /\ events = <<>> /\ known = {} /\ posts = {} /\ ready = <<>>
      /\ waiting = <<>> /\ filled = {} /\ open = {} /\ final = {} /\ wire = <<>> /\ seen = {}
  BY DEF Init
<1>3. ToSet(<<>>) = {} /\ DOMAIN <<>> = {}
  BY DEF ToSet
<1>4. Waiting = {} /\ Running(ready) = {} /\ ToSet(waiting) = {} /\ ToSet(events) = {}
      /\ DOMAIN wire = {}
  BY <1>2, <1>3 DEF Waiting, Running
<1>5. EngineKnows
  BY <1>2, <1>4 DEF EngineKnows
<1>6. SubmitFits
  BY <1>2, <1>4 DEF SubmitFits, InPost, Refused
<1>7. TradeFits /\ WaitFits /\ FillFits
  BY <1>2, <1>4 DEF TradeFits, WaitFits, FillFits
<1>8. EndFits
  BY <1>2, <1>4 DEF EndFits, Cancels
<1> QED  BY <1>1, <1>5, <1>6, <1>7, <1>8 DEF ClientInv

LEMMA InvariantHolds == Spec => []ClientInv
<1>1. Init => ClientInv
  BY InitClient
<1>2. ClientInv /\ [Next]_vars => ClientInv'
  BY StepClient
<1> QED  BY <1>1, <1>2, PTL DEF Spec

(* The type invariant, for every value of the constants: the queue of the  *)
(* engine, the tasks and the channel hold what the handlers expect.        *)
THEOREM ClientTypes == Spec => []TypeOK
<1>1. ClientInv => TypeOK
  BY DEF ClientInv, TypeInv
<1> QED  BY <1>1, InvariantHolds, PTL
-----------------------------------------------------------------------------
(* What the engine is told *)

(* _processed_fills is exactly the fills the engine was told of.  Only the *)
(* handler of a fill touches either, for a fill that is not processed.     *)
ProcessedIsTold ==
    /\ told \in [Fills -> 0 .. 2]
    /\ \A f \in Fills : told[f] = IF f \in filled THEN 1 ELSE 0

(* _handle_user_trade_in_ws_trade_msg skips a processed fill and records   *)
(* every other one it tells.                                               *)
LEMMA HandleFillKeeps ==
    ASSUME NEW message, NEW o, NEW tasks, ProcessedIsTold,
           HandleFill(message, o, tasks)
    PROVE  ProcessedIsTold'
<1> DEFINE f == <<message.trade, o>>
<1>1. CASE UNCHANGED <<filled, told>>
  BY <1>1 DEF ProcessedIsTold
<1>2. CASE /\ ~(f \in filled)
           /\ told' = [told EXCEPT ![f] = IF @ = 2 THEN 2 ELSE @ + 1]
           /\ filled' = filled \cup {f}
  <2>1. told' \in [Fills -> 0 .. 2]
    <3>1. ASSUME f \in Fills
          PROVE  (IF told[f] = 2 THEN 2 ELSE told[f] + 1) \in 0 .. 2
      BY <3>1 DEF ProcessedIsTold
    <3> QED  BY <1>2, <3>1 DEF ProcessedIsTold
  <2>2. ASSUME NEW g \in Fills
        PROVE  told'[g] = IF g \in filled' THEN 1 ELSE 0
    <3>1. CASE g = f
      BY <1>2, <3>1 DEF ProcessedIsTold
    <3>2. CASE g # f
      BY <1>2, <3>2 DEF ProcessedIsTold
    <3> QED  BY <3>1, <3>2
  <2> QED  BY <2>1, <2>2 DEF ProcessedIsTold
<1> QED  BY <1>1, <1>2 DEF HandleFill, Processed

(* A message of an order is no fill.                                       *)
LEMMA HandleKeeps ==
    ASSUME NEW task, NEW tasks, ProcessedIsTold, Handle(task, tasks)
    PROVE  ProcessedIsTold'
<1>1. CASE IsOrderTask(task)
  BY <1>1 DEF Handle, HandleOrder, ProcessedIsTold
<1>2. CASE ~IsOrderTask(task)
  BY <1>2, HandleFillKeeps DEF Handle
<1> QED  BY <1>1, <1>2

(* Every step keeps the processed fills the told ones.                     *)
LEMMA StepKeeps ==
    ASSUME ProcessedIsTold, [Next]_vars
    PROVE  ProcessedIsTold'
<1>1. CASE RunTask
  <2>1. CASE Handle(Head(ready), Tail(ready))
    BY <2>1, HandleKeeps
  <2>2. CASE UNCHANGED <<filled, told>>
    BY <2>2 DEF ProcessedIsTold
  <2> QED  BY <1>1, <2>1, <2>2 DEF RunTask
<1>2. CASE TimeOut
  <2>1. Handle(Head(waiting), ready)
    BY <1>2 DEF TimeOut
  <2> QED  BY <2>1, HandleKeeps
<1>3. CASE Submit \/ RequestCancel
  BY <1>3 DEF Submit, RequestCancel, ProcessedIsTold, history
<1>4. CASE Answer \/ SendCancel \/ CancelAnswer
  BY <1>4 DEF Answer, SendCancel, CancelAnswer, ProcessedIsTold, history
<1>5. CASE Receive \/ Apply
  BY <1>5 DEF Receive, Apply, ProcessedIsTold, history
<1>6. CASE Venue
  BY <1>6 DEF Venue, Place, Match, Settle, Withdraw, Repeat, Update, client, history,
              ProcessedIsTold
<1>7. CASE UNCHANGED vars
  BY <1>7 DEF vars, history, ProcessedIsTold
<1> QED  BY <1>1, <1>2, <1>3, <1>4, <1>5, <1>6, <1>7 DEF Next, Strategy, Client

LEMMA ToldHolds == Spec => []ProcessedIsTold
<1>1. Init => ProcessedIsTold
  BY DEF Init, ProcessedIsTold
<1>2. ProcessedIsTold /\ [Next]_vars => ProcessedIsTold'
  BY StepKeeps
<1> QED  BY <1>1, <1>2, PTL DEF Spec

(* FillToldOnce for every value of the constants: _processed_fills keeps   *)
(* the engine from being told of the fill of an order by a trade twice.    *)
THEOREM EveryFillToldOnce == Spec => []FillToldOnce
<1>1. ProcessedIsTold => FillToldOnce
  BY DEF ProcessedIsTold, FillToldOnce
<1> QED  BY <1>1, ToldHolds, PTL

(* ReceivedFillIsTold for every value of the constants: no cancellation,   *)
(* answer or timeout makes _handle_user_trade_in_ws_trade_msg drop a fill  *)
(* that was received, but for those a cancellation overtakes.              *)
THEOREM ReceivedFillsAreTold == Spec => []ReceivedFillIsTold
<1>1. ClientInv /\ ProcessedIsTold => ReceivedFillIsTold
  <2>1. SUFFICES ASSUME ClientInv, ProcessedIsTold, NEW f \in seen, f \notin overtaken
                 PROVE  told[f] > 0 \/ Pending(f)
    BY DEF ReceivedFillIsTold
  <2>2. f \in Fills /\ (f \in filled \/ InTask(f))
    BY <2>1 DEF ClientInv, FillFits, TypeInv, TypeOK
  <2>3. CASE f \in filled
    BY <2>1, <2>2, <2>3 DEF ProcessedIsTold
  <2>4. CASE InTask(f)
    <3>1. PICK task \in Waiting : /\ task.message.kind = "trade"
                                  /\ task.message.trade = f[1] /\ task.order = f[2]
      BY <2>4 DEF InTask
    <3>2. \/ \E i \in DOMAIN ready : ready[i] = task
          \/ \E i \in DOMAIN waiting : waiting[i] = task
      BY DEF Waiting, Running, ToSet
    <3> QED  BY <3>1, <3>2 DEF Pending
  <2> QED  BY <2>2, <2>3, <2>4
<1> QED  BY <1>1, InvariantHolds, ToldHolds, PTL
===============================================================================
