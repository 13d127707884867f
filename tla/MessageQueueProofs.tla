------------------------- MODULE MessageQueueProofs -------------------------
(***************************************************************************)
(* What holds of one queue for every capacity, retry limit, lock time,     *)
(* batch size and set of consumers.                                        *)
(***************************************************************************)
EXTENDS MessageQueue, TLAPS, FiniteSetTheorems

-----------------------------------------------------------------------------
(* Sequences *)

\* A function on 1..n is a sequence of length n.
LEMMA FunctionIsSeq ==
    ASSUME NEW S, NEW n \in Nat, NEW f \in [1..n -> S]
    PROVE  f \in Seq(S) /\ Len(f) = n
  OBVIOUS

\* A sequence is a function on its positions.
LEMMA SeqIsFunction ==
    ASSUME NEW S, NEW s \in Seq(S)
    PROVE  Len(s) \in Nat /\ s \in [1..Len(s) -> S] /\ DOMAIN s = 1..Len(s)
  OBVIOUS

\* Removing one position of a sequence.
LEMMA RemoveAtPosType ==
    ASSUME NEW S, NEW s \in Seq(S), NEW k \in 1..Len(s)
    PROVE  RemoveAtPos(s, k) \in Seq(S) /\ Len(RemoveAtPos(s, k)) = Len(s) - 1
  <1>1. Len(s) - 1 \in Nat
    BY SeqIsFunction
  <1>2. RemoveAtPos(s, k) \in [1..(Len(s) - 1) -> S]
    BY SeqIsFunction DEF RemoveAtPos
  <1> QED
    BY <1>1, <1>2, FunctionIsSeq

\* The first n positions of a sequence.
LEMMA PrefixType ==
    ASSUME NEW S, NEW s \in Seq(S), NEW n \in 0..Len(s)
    PROVE  Prefix(s, n) \in Seq(S) /\ Len(Prefix(s, n)) = n
  <1>1. Prefix(s, n) \in [1..n -> S]
    BY SeqIsFunction DEF Prefix
  <1> QED
    BY <1>1, FunctionIsSeq

\* There are n positions in 1..n.
LEMMA IntervalCount ==
    ASSUME NEW n \in Nat
    PROVE  IsFiniteSet(1..n) /\ Cardinality(1..n) = n
  <1>1. 1 \in Int /\ n \in Int
    OBVIOUS
  <1>2. IsFiniteSet(1..n) /\ Cardinality(1..n) = IF 1 > n THEN 0 ELSE n - 1 + 1
    BY ONLY <1>1, FS_Interval
  <1> QED
    BY <1>2

\* Two disjoint finite sets.
LEMMA DisjointCount ==
    ASSUME NEW S, NEW T, IsFiniteSet(S), IsFiniteSet(T), S \cap T = {}
    PROVE  Cardinality(S \cup T) = Cardinality(S) + Cardinality(T)
  <1>1. Cardinality(S \cup T) = Cardinality(S) + Cardinality(T) - Cardinality(S \cap T)
    BY FS_Union
  <1>2. Cardinality(S \cap T) = 0
    BY FS_EmptySet
  <1>3. Cardinality(S) \in Nat /\ Cardinality(T) \in Nat
    BY FS_CardinalityType
  <1> QED
    BY <1>1, <1>2, <1>3

-----------------------------------------------------------------------------
(* The effects the actions are made of *)

\* Unlinking a node keeps the shape of the state and shortens the chain.
LEMMA UnlinkEffect ==
    ASSUME TypeOK, Len(msgs) <= amount, NEW k \in Positions, Unlink(k)
    PROVE  /\ msgs' \in Seq(Message)
           /\ tail' \in 0..Len(msgs')
           /\ amount' \in Nat
           /\ Len(msgs') < Len(msgs)
           /\ amount' = amount - 1
           /\ tail' <= tail
           /\ tail = Len(msgs) => Len(msgs') = Len(msgs) - 1 /\ tail' = Len(msgs')
  <1> USE SeqIsFunction DEF TypeOK, Positions
  <1>1. CASE k = tail
    <2>1. k - 1 \in 0..Len(msgs)
      OBVIOUS
    <2>2. msgs' = Prefix(msgs, k - 1) /\ tail' = k - 1 /\ amount' = amount - 1
      BY <1>1 DEF Unlink
    <2>3. msgs' \in Seq(Message) /\ Len(msgs') = k - 1
      BY <2>1, <2>2, PrefixType
    <2> QED
      BY <1>1, <2>2, <2>3
  <1>2. CASE k # tail
    <2>1. msgs' = RemoveAtPos(msgs, k) /\ amount' = amount - 1
      BY <1>2 DEF Unlink
    <2>2. msgs' \in Seq(Message) /\ Len(msgs') = Len(msgs) - 1
      BY <2>1, RemoveAtPosType
    <2>3. tail' = IF k <= tail THEN tail - 1 ELSE tail
      BY DEF Unlink
    <2> QED
      BY <1>2, <2>1, <2>2, <2>3
  <1> QED
    BY <1>1, <1>2

\* Linking new nodes keeps the shape of the state; the chain grows by no more
\* than Amount does.
LEMMA LinkEffect ==
    ASSUME QueueAssumption, TypeOK, NEW ids \in Seq(Ids), Len(ids) >= 1, Link(ids)
    PROVE  /\ msgs' \in Seq(Message)
           /\ tail' \in 0..Len(msgs')
           /\ amount' = amount + Len(ids)
           /\ Len(msgs') <= Len(msgs) + Len(ids)
           /\ tail' = Len(msgs') \/ (msgs' = msgs /\ tail' = tail)
           /\ tail = Len(msgs) => Len(msgs') = Len(msgs) + Len(ids) /\ tail' = Len(msgs')
  <1> USE SeqIsFunction DEF TypeOK
  <1>1. amount' = amount + Len(ids)
    BY DEF Link
  <1>2. CASE msgs # <<>> /\ tail = 0
    <2>1. msgs' = msgs /\ tail' = tail
      BY <1>2 DEF Link
    <2>2. tail # Len(msgs)
      BY <1>2
    <2> QED
      BY <1>1, <2>1, <2>2
  <1>3. CASE ~(msgs # <<>> /\ tail = 0)
    <2>1. /\ msgs' = [i \in 1..(tail + Len(ids)) |->
                        IF i <= tail THEN msgs[i] ELSE Fresh(ids[i - tail])]
          /\ tail' = tail + Len(ids)
      BY <1>3 DEF Link
    <2>2. \A i \in 1..(tail + Len(ids)) :
            (IF i <= tail THEN msgs[i] ELSE Fresh(ids[i - tail])) \in Message
      <3> SUFFICES ASSUME NEW i \in 1..(tail + Len(ids))
                   PROVE  (IF i <= tail THEN msgs[i] ELSE Fresh(ids[i - tail])) \in Message
        OBVIOUS
      <3>1. CASE i <= tail
        BY <3>1
      <3>2. CASE ~(i <= tail)
        <4>1. ids[i - tail] \in Ids
          BY <3>2
        <4> QED
          BY <3>2, <4>1 DEF Fresh, Message
      <3> QED
        BY <3>1, <3>2
    <2>3. msgs' \in [1..(tail + Len(ids)) -> Message]
      BY <2>1, <2>2
    <2>4. Len(msgs) \in Nat /\ Len(ids) \in Nat /\ tail + Len(ids) \in Nat
      OBVIOUS
    <2>5. msgs' \in Seq(Message) /\ Len(msgs') = tail + Len(ids)
      BY <2>3, <2>4, FunctionIsSeq
    <2>6. tail' = Len(msgs')
      BY <2>1, <2>5
    <2>7. Len(msgs') <= Len(msgs) + Len(ids)
      BY <2>4, <2>5
    <2>8. tail = Len(msgs) => Len(msgs') = Len(msgs) + Len(ids)
      BY <2>5
    <2>9. tail' \in 0..Len(msgs')
      BY <2>4, <2>5, <2>6
    <2> QED
      BY <1>1, <2>5, <2>6, <2>7, <2>8, <2>9
  <1> QED
    BY <1>2, <1>3

-----------------------------------------------------------------------------
(* Batch acknowledgement *)

\* The walk takes positions of the chain.
LEMMA TakenType ==
    ASSUME NEW c, NEW ids
    PROVE  TakenBy(c, ids) \in SUBSET Positions
  <1> DEFINE mine == {k \in Positions : msgs[k].owner = c /\ \E i \in DOMAIN ids : ids[i] = msgs[k].id}
             some == IF tail \in mine \ {1} THEN {k \in mine : k <= tail} ELSE mine
  <1>1. some \in SUBSET Positions
    OBVIOUS
  <1>2. Smallest(some, Len(ids)) \in SUBSET some
    BY DEF Smallest
  <1>3. TakenBy(c, ids) = Smallest(some, Len(ids))
    BY DEF TakenBy
  <1> QED
    BY <1>1, <1>2, <1>3

\* How many positions are taken and kept, and where that leaves Tail.
LEMMA KeptCount ==
    ASSUME TypeOK, NEW taken \in SUBSET Positions
    PROVE  /\ IsFiniteSet(taken) /\ Cardinality(taken) \in Nat
           /\ KeptBy(taken) \in SUBSET Positions
           /\ IsFiniteSet(KeptBy(taken)) /\ Cardinality(KeptBy(taken)) \in Nat
           /\ Cardinality(KeptBy(taken)) + Cardinality(taken) <= Len(msgs)
           /\ ~TookTail(taken) => KeptBy(taken) = Positions \ taken
           /\ TookTail(taken) => Cardinality(KeptBy(taken)) <= tail - 1
  <1> USE SeqIsFunction DEF TypeOK, Positions
  <1>1. IsFiniteSet(1..Len(msgs)) /\ Cardinality(1..Len(msgs)) = Len(msgs)
    BY IntervalCount
  <1>2. IsFiniteSet(taken) /\ Cardinality(taken) \in Nat
    BY <1>1, FS_Subset, FS_CardinalityType
  <1>3. KeptBy(taken) \in SUBSET ((1..Len(msgs)) \ taken)
    BY DEF KeptBy, TookTail
  <1>4. IsFiniteSet(KeptBy(taken)) /\ Cardinality(KeptBy(taken)) \in Nat
    BY <1>1, <1>3, FS_Subset, FS_CardinalityType
  <1>5. KeptBy(taken) \cap taken = {} /\ (KeptBy(taken) \cup taken) \in SUBSET (1..Len(msgs))
    BY <1>3
  <1>6. Cardinality(KeptBy(taken) \cup taken) = Cardinality(KeptBy(taken)) + Cardinality(taken)
    BY <1>2, <1>4, <1>5, DisjointCount
  <1>7. Cardinality(KeptBy(taken) \cup taken) <= Len(msgs)
    BY <1>1, <1>5, FS_Subset
  <1>8. ASSUME TookTail(taken) PROVE Cardinality(KeptBy(taken)) <= tail - 1
    <2>1. tail \in 1..Len(msgs) /\ KeptBy(taken) \in SUBSET (1..(tail - 1))
      BY <1>8 DEF KeptBy, TookTail
    <2>2. IsFiniteSet(1..(tail - 1)) /\ Cardinality(1..(tail - 1)) = tail - 1
      <3>1. tail - 1 \in Nat
        BY <2>1
      <3> QED
        BY <3>1, IntervalCount
    <2> QED
      BY <2>1, <2>2, FS_Subset
  <1>9. ~TookTail(taken) => KeptBy(taken) = (1..Len(msgs)) \ taken
    BY DEF KeptBy
  <1> QED
    BY <1>2, <1>3, <1>4, <1>6, <1>7, <1>8, <1>9

\* The position of Tail among the nodes kept.
LEMMA TailAmongRange ==
    ASSUME TypeOK, NEW taken \in SUBSET Positions
    PROVE  LET kept == KeptBy(taken)
               at == TailAmong(kept, taken)
           IN  /\ at \in 0..Cardinality(kept)
               /\ at <= tail
               /\ TookTail(taken) => at = Cardinality(kept)
               /\ tail = Len(msgs) /\ tail \notin taken => at = Cardinality(kept)
  <1> DEFINE kept == KeptBy(taken)
             upTo == {k \in kept : k <= tail}
  <1>1. /\ kept \in SUBSET (1..Len(msgs)) /\ IsFiniteSet(kept) /\ Cardinality(kept) \in Nat
        /\ TookTail(taken) => Cardinality(kept) <= tail - 1
    BY KeptCount DEF Positions
  <1>2. Len(msgs) \in Nat /\ tail \in 0..Len(msgs)
    BY SeqIsFunction DEF TypeOK
  <1>3. CASE TookTail(taken)
    <2>1. TailAmong(kept, taken) = Cardinality(kept) /\ tail \in taken
      BY <1>3 DEF TailAmong, TookTail
    <2>2. Cardinality(kept) \in 0..Cardinality(kept) /\ Cardinality(kept) <= tail
      BY <1>1, <1>2, <1>3
    <2> QED
      BY <2>1, <2>2
  <1>4. CASE ~TookTail(taken) /\ tail \in taken
    <2>1. TailAmong(kept, taken) = 0
      BY <1>4 DEF TailAmong
    <2> QED
      BY <1>1, <1>2, <1>4, <2>1
  <1>5. CASE tail \notin taken
    <2>1. TailAmong(kept, taken) = Cardinality(upTo) /\ ~TookTail(taken)
      BY <1>5 DEF TailAmong, TookTail
    <2>2. IsFiniteSet(upTo) /\ Cardinality(upTo) <= Cardinality(kept) /\ Cardinality(upTo) \in Nat
      BY <1>1, FS_Subset, FS_CardinalityType
    <2>3. IsFiniteSet(1..tail) /\ Cardinality(1..tail) = tail
      BY <1>2, IntervalCount
    <2>4. upTo \in SUBSET (1..tail)
      BY <1>1, <1>2
    <2>5. Cardinality(upTo) <= tail
      BY <2>3, <2>4, FS_Subset
    <2>6. tail = Len(msgs) => upTo = kept
      BY <1>1, <1>2
    <2>7. tail = Len(msgs) => Cardinality(upTo) = Cardinality(kept)
      BY <2>6
    <2>8. Cardinality(upTo) \in 0..Cardinality(kept)
      BY <1>1, <2>2
    <2> HIDE DEF upTo
    <2> QED
      BY <2>1, <2>5, <2>7, <2>8
  <1> QED
    BY <1>3, <1>4, <1>5

\* Acknowledging a whole batch.
LEMMA BatchSettledEffect ==
    ASSUME TypeOK, NEW taken \in SUBSET Positions, BatchSettled(taken)
    PROVE  /\ msgs' \in Seq(Message)
           /\ Len(msgs') = Cardinality(KeptBy(taken))
           /\ tail' = TailAmong(KeptBy(taken), taken)
           /\ amount' = amount /\ dlq' = dlq /\ failed' = FALSE /\ status' = status
  <1> DEFINE kept == KeptBy(taken)
  <1>1. kept \in SUBSET (1..Len(msgs)) /\ Cardinality(kept) \in Nat
    BY KeptCount DEF Positions
  <1>2. PICK f \in InOrder(kept) : msgs' = [i \in 1..Cardinality(kept) |-> msgs[f[i]]]
    BY DEF BatchSettled
  <1>3. f \in [1..Cardinality(kept) -> 1..Len(msgs)]
    BY <1>1 DEF InOrder
  <1>4. msgs' \in [1..Cardinality(kept) -> Message]
    BY <1>2, <1>3, SeqIsFunction DEF TypeOK
  <1>5. msgs' \in Seq(Message) /\ Len(msgs') = Cardinality(kept)
    BY <1>1, <1>4, FunctionIsSeq
  <1>6. /\ tail' = TailAmong(kept, taken)
        /\ amount' = amount /\ dlq' = dlq /\ failed' = FALSE /\ status' = status
    BY DEF BatchSettled, Returns
  <1> QED
    BY <1>5, <1>6

\* Linking the nodes of an incomplete batch back.
LEMMA BatchRestoredEffect ==
    ASSUME TypeOK, NEW taken \in SUBSET Positions, Cardinality(taken) > 0, KeptBy(taken) # {},
           BatchRestored(taken)
    PROVE  LET kept == KeptBy(taken)
               at == TailAmong(kept, taken)
               n == Cardinality(taken)
           IN  /\ msgs' \in Seq(Message)
               /\ Len(msgs') = Cardinality(kept) + n
               /\ Cardinality(kept) >= 1
               /\ tail' = IF tail \in taken /\ ~TookTail(taken) THEN 2
                          ELSE IF at > 1 THEN at + n ELSE at
               /\ amount' = amount /\ dlq' = dlq /\ failed' = TRUE /\ status' = status
  <1> DEFINE kept == KeptBy(taken)
             n == Cardinality(taken)
             m == Cardinality(kept)
             pick(f, g, i) == IF i = 1 THEN msgs[f[1]]
                              ELSE IF i <= n + 1 THEN msgs[g[i - 1]] ELSE msgs[f[i - n]]
  <1>1. /\ kept \in SUBSET (1..Len(msgs)) /\ m \in Nat /\ n \in Nat /\ n > 0
        /\ taken \in SUBSET (1..Len(msgs)) /\ IsFiniteSet(kept)
    BY KeptCount DEF Positions
  <1>2. m >= 1
    BY <1>1, FS_EmptySet
  <1>3. PICK f \in InOrder(kept), g \in InOrder(taken) :
          msgs' = [i \in 1..(m + n) |-> pick(f, g, i)]
    BY DEF BatchRestored
  <1>4. f \in [1..m -> 1..Len(msgs)] /\ g \in [1..n -> 1..Len(msgs)]
    BY <1>1 DEF InOrder
  <1>5. ASSUME NEW i \in 1..(m + n) PROVE pick(f, g, i) \in Message
    <2>1. msgs \in [1..Len(msgs) -> Message]
      BY SeqIsFunction DEF TypeOK
    <2>2. CASE i = 1
      BY <1>2, <1>1, <1>4, <2>1, <2>2
    <2>3. CASE i # 1 /\ i <= n + 1
      <3>1. i - 1 \in 1..n
        BY <1>1, <2>3
      <3> QED
        BY <1>4, <2>1, <2>3, <3>1
    <2>4. CASE i # 1 /\ ~(i <= n + 1)
      <3>1. i - n \in 1..m
        BY <1>1, <2>4
      <3> QED
        BY <1>4, <2>1, <2>4, <3>1
    <2> QED
      BY <2>2, <2>3, <2>4
  <1>6. msgs' \in [1..(m + n) -> Message]
    BY <1>3, <1>5
  <1>7. msgs' \in Seq(Message) /\ Len(msgs') = m + n
    BY <1>1, <1>6, FunctionIsSeq
  <1>8. tail' = IF tail \in taken /\ ~TookTail(taken) THEN 2
                ELSE IF TailAmong(kept, taken) > 1 THEN TailAmong(kept, taken) + n
                     ELSE TailAmong(kept, taken)
    BY DEF BatchRestored
  <1>9. amount' = amount /\ dlq' = dlq /\ failed' = TRUE /\ status' = status
    BY DEF BatchRestored, Returns
  <1> QED
    BY <1>2, <1>7, <1>8, <1>9

-----------------------------------------------------------------------------
(* The inductive invariant *)

\* TypeOK is not inductive: that Amount stays a natural number needs Amount to
\* cover the chain, since every removal decrements it.
IInv == TypeOK /\ AmountCoversChain /\ TailShape

\* A new queue is empty.
LEMMA InitIInv == Init => IInv
  <1> SUFFICES ASSUME Init PROVE IInv
    OBVIOUS
  <1>1. Len(<<>>) = 0 /\ <<>> \in Seq(Message) /\ <<>> \in Seq(Ids)
    OBVIOUS
  <1>2. Cap \in Nat /\ MaxBatch \in Nat /\ 0 <= Cap /\ 0 < Cap + MaxBatch
    BY QueueAssumption
  <1>3. TypeOK
    <2>1. msgs \in Seq(Message) /\ tail \in 0..Len(msgs) /\ amount \in Nat
      BY <1>1 DEF Init
    <2>2. dlq \in Seq(Ids) /\ Len(dlq) <= Cap
      BY <1>1, <1>2 DEF Init
    <2>3. failed \in BOOLEAN /\ status \in {"up", "panic"}
      BY DEF Init
    <2> QED
      BY <2>1, <2>2, <2>3 DEF TypeOK
  <1>4. AmountCoversChain /\ TailShape
    BY <1>1, <1>2 DEF Init, AmountCoversChain, TailShape
  <1> QED
    BY <1>3, <1>4 DEF IInv

\* Only the result changes.
LEMMA RefusesIInv ==
    ASSUME IInv, NEW err \in BOOLEAN, Refuses(err)
    PROVE  IInv'
  BY DEF IInv, TypeOK, AmountCoversChain, TailShape, Refuses, Returns

\* A nil dereference leaves the queue as it was.
LEMMA PanicsIInv ==
    ASSUME IInv, Panics
    PROVE  IInv'
  BY DEF IInv, TypeOK, AmountCoversChain, TailShape, Panics

\* Linking a batch behind Tail, within the bound on Amount.
LEMMA LinkIInv ==
    ASSUME IInv, NEW ids \in Seq(Ids), Len(ids) \in 1..MaxBatch, ~IsFull,
           Link(ids), Returns(FALSE)
    PROVE  IInv'
  <1>1. /\ msgs' \in Seq(Message) /\ tail' \in 0..Len(msgs')
        /\ amount' = amount + Len(ids)
        /\ Len(msgs') <= Len(msgs) + Len(ids)
        /\ tail' = Len(msgs') \/ (msgs' = msgs /\ tail' = tail)
    BY QueueAssumption, LinkEffect DEF IInv
  <1>2. dlq' = dlq /\ failed' = FALSE /\ status' = status
    BY DEF Link, Returns
  <1>3. TypeOK'
    <2>1. amount' \in Nat
      BY <1>1 DEF IInv, TypeOK
    <2> QED
      BY <1>1, <1>2, <2>1 DEF IInv, TypeOK
  <1>4. AmountCoversChain'
    <2>1. Len(msgs) \in Nat /\ Len(msgs') \in Nat /\ amount \in Nat /\ Len(ids) \in Nat
      BY <1>1, SeqIsFunction DEF IInv, TypeOK
    <2>2. Len(msgs) <= amount /\ amount < Cap /\ Cap \in Nat /\ MaxBatch \in Nat
      BY <2>1, QueueAssumption DEF IInv, AmountCoversChain, IsFull
    <2> QED
      BY <1>1, <2>1, <2>2 DEF AmountCoversChain
  <1>5. TailShape'
    BY <1>1 DEF IInv, TailShape
  <1> QED
    BY <1>3, <1>4, <1>5 DEF IInv

\* Unlinking any node, whether Tail is accurate or stale.
LEMMA UnlinkIInv ==
    ASSUME IInv, NEW k \in Positions, Unlink(k), Returns(FALSE),
           dlq' \in Seq(Ids), Len(dlq') <= Cap
    PROVE  IInv'
  <1>1. Len(msgs) <= amount /\ amount < Cap + MaxBatch /\ amount \in Nat /\ Len(msgs) \in Nat
        /\ Cap \in Nat /\ MaxBatch \in Nat
    BY QueueAssumption, SeqIsFunction DEF IInv, AmountCoversChain, TypeOK
  <1>2. /\ msgs' \in Seq(Message) /\ tail' \in 0..Len(msgs') /\ amount' \in Nat
        /\ Len(msgs') < Len(msgs) /\ amount' = amount - 1 /\ tail' <= tail
        /\ tail = Len(msgs) => tail' = Len(msgs')
    BY <1>1, UnlinkEffect DEF IInv
  <1>3. failed' = FALSE /\ status' = status
    BY DEF Returns
  <1>4. Len(msgs') \in Nat /\ tail \in Nat /\ tail' \in Nat
    BY <1>1, <1>2, SeqIsFunction DEF IInv, TypeOK
  <1>5. TypeOK'
    BY <1>2, <1>3 DEF IInv, TypeOK
  <1>6. AmountCoversChain'
    BY <1>1, <1>2, <1>4 DEF AmountCoversChain
  <1>7. TailShape'
    BY <1>1, <1>2, <1>4 DEF IInv, TailShape
  <1> QED
    BY <1>5, <1>6, <1>7 DEF IInv

\* Acknowledging one message.
LEMMA UnlockAndEmptyOneIInv ==
    ASSUME IInv, NEW c \in Consumers, NEW id \in Ids, UnlockAndEmptyOne(c, id)
    PROVE  IInv'
  <1>1. CASE Refuses(TRUE)
    BY <1>1, RefusesIInv
  <1>2. CASE \E k \in HeldBy(c, id) :
               IsFirst(k, HeldBy(c, id)) /\ Unlink(k) /\ Returns(FALSE) /\ UNCHANGED dlq
    <2>1. PICK k \in Positions : Unlink(k) /\ Returns(FALSE) /\ dlq' = dlq
      BY <1>2 DEF HeldBy
    <2> QED
      BY <2>1, UnlinkIInv DEF IInv, TypeOK
  <1> QED
    BY <1>1, <1>2 DEF UnlockAndEmptyOne

\* A message given back to the queue, and one handed to a consumer.
LEMMA NackedType ==
    ASSUME NEW m \in Message
    PROVE  [m EXCEPT !.owner = None, !.fetched = @ + 1] \in Message
  <1>1. m.fetched + 1 \in Nat /\ None \in Consumers \cup {None}
    BY DEF Message
  <1>2. \A n \in Nat, o \in Consumers \cup {None} :
          [m EXCEPT !.owner = o, !.fetched = n] \in Message
    BY DEF Message
  <1> QED
    BY <1>1, <1>2

\* Stamping a message with its consumer and the time of the fetch.
LEMMA FetchedType ==
    ASSUME NEW m \in Message, NEW c \in Consumers, NEW t \in Nat
    PROVE  [m EXCEPT !.owner = c, !.time = t] \in Message
  BY DEF Message

\* Rejecting a message: given back, or expired and moved away.
LEMMA UnlockIInv ==
    ASSUME IInv, NEW c \in Consumers, NEW id \in Ids, Unlock(c, id)
    PROVE  IInv'
  <1>1. CASE Refuses(TRUE)
    BY <1>1, RefusesIInv
  <1>2. ASSUME NEW k \in Positions, Exhausted(k), HandleThresholdExpire(k)
        PROVE  IInv'
    <2>1. CASE Panics
      BY <2>1, PanicsIInv
    <2>2. CASE DeadLetterEnqueue(msgs[k].id) /\ Unlink(k) /\ Returns(FALSE)
      <3>0. msgs[k] \in Message
        BY SeqIsFunction DEF IInv, TypeOK, Positions
      <3>1. msgs[k].id \in Ids /\ dlq \in Seq(Ids) /\ Len(dlq) <= Cap /\ Cap \in Nat
        BY <3>0, QueueAssumption DEF IInv, TypeOK, Message
      <3>2. dlq' = dlq \/ (Len(dlq) < Cap /\ dlq' = Append(dlq, msgs[k].id))
        BY <2>2 DEF DeadLetterEnqueue
      <3>3. dlq' \in Seq(Ids) /\ Len(dlq') <= Cap
        BY <3>1, <3>2
      <3> QED
        BY <2>2, <3>3, UnlinkIInv
    <2> QED
      BY <1>2, <2>1, <2>2 DEF HandleThresholdExpire
  <1>3. ASSUME NEW k \in Positions,
               msgs' = [msgs EXCEPT ![k].owner = None, ![k].fetched = @ + 1],
               Returns(FALSE), UNCHANGED <<tail, amount, dlq>>
        PROVE  IInv'
    <2>1. msgs \in [1..Len(msgs) -> Message] /\ Len(msgs) \in Nat
      BY SeqIsFunction DEF IInv, TypeOK
    <2>0. msgs[k] \in Message
      BY <2>1 DEF Positions
    <2>2. [msgs[k] EXCEPT !.owner = None, !.fetched = @ + 1] \in Message
      BY <2>0, NackedType
    <2>3. msgs' = [msgs EXCEPT ![k] = [msgs[k] EXCEPT !.owner = None, !.fetched = @ + 1]]
      BY <1>3, <2>1 DEF Positions
    <2>4. msgs' \in [1..Len(msgs) -> Message]
      BY <2>1, <2>2, <2>3 DEF Positions
    <2>5. msgs' \in Seq(Message) /\ Len(msgs') = Len(msgs)
      BY <2>1, <2>4, FunctionIsSeq
    <2> QED
      BY <1>3, <2>5 DEF IInv, TypeOK, AmountCoversChain, TailShape, Returns
  <1> QED
    BY <1>1, <1>2, <1>3 DEF Unlock

\* A fetch changes owners and times only.
LEMMA DequeueIInv ==
    ASSUME IInv, NEW want \in Nat, NEW c \in Consumers, NEW t \in Times, Dequeue(want, c, t)
    PROVE  IInv' /\ Len(msgs') = Len(msgs)
  <1>1. msgs \in [1..Len(msgs) -> Message] /\ Len(msgs) \in Nat /\ t \in Nat
    BY QueueAssumption, SeqIsFunction DEF IInv, TypeOK
  <1>2. msgs' = [k \in 1..Len(msgs) |->
                   IF k \in Fetched(want, c, t)
                   THEN [msgs[k] EXCEPT !.owner = c, !.time = t] ELSE msgs[k]]
    BY DEF Dequeue, Positions
  <1>3. \A k \in 1..Len(msgs) : [msgs[k] EXCEPT !.owner = c, !.time = t] \in Message
    BY <1>1, FetchedType
  <1>4. msgs' \in [1..Len(msgs) -> Message]
    BY <1>1, <1>2, <1>3
  <1>5. msgs' \in Seq(Message) /\ Len(msgs') = Len(msgs)
    BY <1>1, <1>4, FunctionIsSeq
  <1>6. tail' = tail /\ amount' = amount /\ dlq' = dlq /\ failed' = FALSE /\ status' = status
    BY DEF Dequeue, Returns
  <1> QED
    BY <1>5, <1>6 DEF IInv, TypeOK, AmountCoversChain, TailShape

\* The dead-letter queue gets shorter.
LEMMA SettleDeadLetterIInv ==
    ASSUME IInv, NEW k \in DOMAIN dlq, SettleDeadLetter(k)
    PROVE  IInv'
  <1>1. dlq \in Seq(Ids) /\ k \in 1..Len(dlq) /\ Len(dlq) <= Cap /\ Len(dlq) \in Nat /\ Cap \in Nat
    BY QueueAssumption, SeqIsFunction DEF IInv, TypeOK
  <1>2. dlq' = RemoveAtPos(dlq, k) /\ failed' = FALSE
    BY DEF SettleDeadLetter
  <1>3. dlq' \in Seq(Ids) /\ Len(dlq') <= Cap
    BY <1>1, <1>2, RemoveAtPosType
  <1>4. UNCHANGED <<msgs, tail, amount, status>>
    BY DEF SettleDeadLetter
  <1> QED
    BY <1>2, <1>3, <1>4 DEF IInv, TypeOK, AmountCoversChain, TailShape

\* A batch acknowledged in full, after which Tail may be stale.
LEMMA BatchSettledIInv ==
    ASSUME IInv, NEW taken \in SUBSET Positions, BatchSettled(taken)
    PROVE  IInv'
  <1> DEFINE m == Cardinality(KeptBy(taken))
             at == TailAmong(KeptBy(taken), taken)
  <1>1. /\ msgs' \in Seq(Message) /\ Len(msgs') = m /\ tail' = at
        /\ amount' = amount /\ dlq' = dlq /\ failed' = FALSE /\ status' = status
    BY BatchSettledEffect DEF IInv
  <1>2. m \in Nat /\ m <= Len(msgs)
    BY KeptCount, SeqIsFunction DEF IInv, TypeOK
  <1>3. /\ at \in 0..m /\ at <= tail
        /\ TookTail(taken) => at = m
        /\ tail = Len(msgs) /\ tail \notin taken => at = m
    BY TailAmongRange DEF IInv
  <1>4. tail \in taken /\ ~TookTail(taken) => at = 0
    BY DEF TailAmong
  <1>5. Len(msgs) \in Nat /\ tail \in 0..Len(msgs) /\ amount \in Nat
    BY SeqIsFunction DEF IInv, TypeOK
  <1> HIDE DEF m, at
  <1>6. TypeOK'
    BY <1>1, <1>3 DEF IInv, TypeOK
  <1>7. AmountCoversChain'
    BY <1>1, <1>2, <1>5 DEF IInv, AmountCoversChain
  <1>8. TailShape'
    BY <1>1, <1>2, <1>3, <1>4, <1>5 DEF IInv, TailShape
  <1> QED
    BY <1>6, <1>7, <1>8 DEF IInv

\* A batch linked back behind the head, after which Tail may be stale.
LEMMA BatchRestoredIInv ==
    ASSUME IInv, NEW taken \in SUBSET Positions, Cardinality(taken) > 0, ~RestorePanics(taken),
           BatchRestored(taken)
    PROVE  IInv'
  <1> DEFINE m == Cardinality(KeptBy(taken))
             n == Cardinality(taken)
             at == TailAmong(KeptBy(taken), taken)
  <1>1. KeptBy(taken) # {} /\ (n = 2 => TookTail(taken)) /\ ~(n > 2)
    BY DEF RestorePanics
  <1>2. /\ msgs' \in Seq(Message) /\ Len(msgs') = m + n /\ m >= 1
        /\ tail' = IF tail \in taken /\ ~TookTail(taken) THEN 2
                   ELSE IF at > 1 THEN at + n ELSE at
        /\ amount' = amount /\ dlq' = dlq /\ failed' = TRUE /\ status' = status
    BY <1>1, BatchRestoredEffect DEF IInv
  <1>3. /\ m \in Nat /\ n \in Nat /\ m + n <= Len(msgs)
        /\ TookTail(taken) => m <= tail - 1
    BY KeptCount DEF IInv
  <1>4. /\ at \in 0..m /\ at <= tail
        /\ TookTail(taken) => at = m
        /\ tail = Len(msgs) /\ tail \notin taken => at = m
    BY TailAmongRange DEF IInv
  <1>5. Len(msgs) \in Nat /\ tail \in 0..Len(msgs) /\ amount \in Nat
    BY SeqIsFunction DEF IInv, TypeOK
  <1>6. tail \in taken /\ ~TookTail(taken) => tail = 1
    BY DEF TookTail
  <1>7. n \in {1, 2}
    BY <1>1, <1>3
  <1> HIDE DEF m, n, at
  <1>8. tail' \in 0..Len(msgs')
    BY <1>2, <1>3, <1>4, <1>5, <1>7
  <1>9. TypeOK'
    BY <1>2, <1>8 DEF IInv, TypeOK
  <1>10. AmountCoversChain'
    BY <1>2, <1>3, <1>5 DEF IInv, AmountCoversChain
  <1>11. TailShape'
    <2>1. CASE tail \in taken /\ ~TookTail(taken)
      <3>1. tail' = 2 /\ tail = 1 /\ Len(msgs) # 1
        <4>1. tail' = 2
          BY <1>2, <2>1
        <4>2. tail = 1
          BY <1>6, <2>1
        <4>3. m >= 1 /\ n >= 1
          BY <1>2, <1>7
        <4>4. m + n >= 2
          BY <1>3, <4>3
        <4>5. Len(msgs) # 1
          <5>1. \A a, b, l \in Nat : a + b >= 2 /\ a + b <= l => l # 1
            OBVIOUS
          <5>2. m \in Nat /\ n \in Nat /\ Len(msgs) \in Nat /\ m + n <= Len(msgs)
            BY <1>3, <1>5
          <5> QED
            BY <4>4, <5>1, <5>2
        <4> QED
          BY <4>1, <4>2, <4>5
      <3>2. Len(msgs) <= 3
        BY <1>5, <3>1 DEF IInv, TailShape
      <3> QED
        BY <1>2, <1>3, <1>5, <3>1, <3>2 DEF TailShape
    <2>2. CASE ~(tail \in taken /\ ~TookTail(taken)) /\ tail = Len(msgs)
      <3>1. at = m
        BY <1>4, <2>2
      <3>2. CASE m > 1
        BY <1>2, <1>3, <2>2, <3>1, <3>2 DEF TailShape
      <3>3. CASE m = 1
        BY <1>2, <1>7, <2>2, <3>1, <3>3 DEF TailShape
      <3> QED
        BY <1>2, <1>3, <3>2, <3>3
    <2>3. CASE ~(tail \in taken /\ ~TookTail(taken)) /\ tail # Len(msgs)
      <3>1. tail <= 2 /\ (tail = 0 \/ Len(msgs) <= 3)
        BY <1>5, <2>3 DEF IInv, TailShape
      <3>2. tail' = IF at > 1 THEN at + n ELSE at
        BY <1>2, <2>3
      <3>3. CASE at > 1
        <4>1. at = 2 /\ tail' = 2 + n
          BY <1>4, <1>5, <3>1, <3>2, <3>3
        <4>2. tail' = Len(msgs')
          BY <1>2, <1>3, <1>4, <1>5, <1>7, <1>8, <3>1, <4>1
        <4> QED
          BY <4>2 DEF TailShape
      <3>4. CASE ~(at > 1)
        <4>1. tail' = at /\ (at = 0 \/ Len(msgs') <= 3)
          BY <1>2, <1>3, <1>4, <1>5, <3>1, <3>2, <3>4
        <4>2. at \in {0, 1}
          BY <1>3, <1>4, <3>4
        <4> QED
          BY <4>1, <4>2 DEF TailShape
      <3> QED
        BY <3>3, <3>4
    <2> QED
      BY <2>1, <2>2, <2>3
  <1> QED
    BY <1>9, <1>10, <1>11 DEF IInv

\* The batches of ids a call may carry.
LEMMA BatchesType ==
    ASSUME NEW ids \in Batches
    PROVE  ids \in Seq(Ids) /\ Len(ids) \in 0..MaxBatch
  <1>1. PICK n \in 0..MaxBatch : ids \in [1..n -> Ids]
    BY DEF Batches
  <1>2. n \in Nat
    BY QueueAssumption
  <1> QED
    BY <1>1, <1>2, FunctionIsSeq

\* Acknowledging a batch, all outcomes.
LEMMA UnlockAndEmptyBatchIInv ==
    ASSUME IInv, NEW c \in Consumers, NEW ids \in Batches, UnlockAndEmptyBatch(c, ids)
    PROVE  IInv'
  <1> DEFINE taken == TakenBy(c, ids)
  <1>1. taken \in SUBSET Positions
    BY TakenType
  <1>2. CASE Refuses(TRUE)
    BY <1>2, RefusesIInv
  <1>3. CASE Len(ids) = 1 /\ UnlockAndEmptyOne(c, ids[1])
    <2>1. ids[1] \in Ids
      BY <1>3, BatchesType, SeqIsFunction
    <2> QED
      BY <1>3, <2>1, UnlockAndEmptyOneIInv
  <1>4. CASE BatchSettled(taken)
    BY <1>1, <1>4, BatchSettledIInv
  <1>5. CASE Panics
    BY <1>5, PanicsIInv
  <1>6. CASE Cardinality(taken) > 0 /\ ~RestorePanics(taken) /\ BatchRestored(taken)
    BY <1>1, <1>6, BatchRestoredIInv
  <1> QED
    BY <1>2, <1>3, <1>4, <1>5, <1>6 DEF UnlockAndEmptyBatch

\* Every call but batch acknowledgement.
LEMMA SingleNextIInv ==
    ASSUME IInv, SingleNext
    PROVE  IInv'
  <1>1. ASSUME NEW id \in Ids, Enqueue(id) PROVE IInv'
    <2>1. CASE Refuses(FALSE)
      BY <2>1, RefusesIInv
    <2>2. CASE ~IsFull /\ Link(<<id>>) /\ Returns(FALSE)
      <3>1. <<id>> \in Seq(Ids) /\ Len(<<id>>) \in 1..MaxBatch
        BY QueueAssumption
      <3> QED
        BY <2>2, <3>1, LinkIInv
    <2> QED
      BY <1>1, <2>1, <2>2 DEF Enqueue
  <1>2. ASSUME NEW ids \in Batches, BatchEnqueue(ids) PROVE IInv'
    <2>1. CASE Refuses(FALSE)
      BY <2>1, RefusesIInv
    <2>2. CASE Len(ids) > 0 /\ ~IsFull /\ Link(ids) /\ Returns(FALSE)
      <3>1. ids \in Seq(Ids) /\ Len(ids) \in 1..MaxBatch
        BY <2>2, BatchesType, QueueAssumption
      <3> QED
        BY <2>2, <3>1, LinkIInv
    <2> QED
      BY <1>2, <2>1, <2>2 DEF BatchEnqueue
  <1>3. ASSUME NEW want \in 0..MaxBatch, NEW c \in Consumers, NEW t \in Times, Dequeue(want, c, t)
        PROVE  IInv'
    <2>1. want \in Nat
      BY QueueAssumption
    <2> QED
      BY <1>3, <2>1, DequeueIInv
  <1>4. ASSUME NEW c \in Consumers, NEW id \in Ids, UnlockAndEmpty(c, id) PROVE IInv'
    BY <1>4, UnlockAndEmptyOneIInv DEF UnlockAndEmpty
  <1>5. ASSUME NEW c \in Consumers, NEW id \in Ids, Unlock(c, id) PROVE IInv'
    BY <1>5, UnlockIInv
  <1>6. ASSUME NEW k \in DOMAIN dlq, SettleDeadLetter(k) PROVE IInv'
    BY <1>6, SettleDeadLetterIInv
  <1> QED
    BY <1>1, <1>2, <1>3, <1>4, <1>5, <1>6 DEF SingleNext

\* Nothing changes.
LEMMA StutterIInv ==
    ASSUME IInv, UNCHANGED vars
    PROVE  IInv'
  BY DEF IInv, TypeOK, AmountCoversChain, TailShape, vars

\* Every call.
LEMMA NextIInv ==
    ASSUME IInv, [Next]_vars
    PROVE  IInv'
  <1>1. CASE SingleNext
    BY <1>1, SingleNextIInv
  <1>2. ASSUME NEW c \in Consumers, NEW ids \in Batches, UnlockAndEmptyBatch(c, ids) PROVE IInv'
    BY <1>2, UnlockAndEmptyBatchIInv
  <1>3. CASE UNCHANGED vars
    BY <1>3, StutterIInv
  <1> QED
    BY <1>1, <1>2, <1>3 DEF Next

\* The invariant of the induction holds of every behaviour.
LEMMA InductiveInvariant == Spec => []IInv
  <1>1. Init => IInv
    BY InitIInv
  <1>2. IInv /\ [Next]_vars => IInv'
    BY NextIInv
  <1> QED
    BY <1>1, <1>2, PTL DEF Spec

-----------------------------------------------------------------------------
(* Theorems *)

\* Every reachable state of a queue is well formed: LinkedList's Tail is nil or on
\* the chain or dropped from it, and the dead-letter queue respects its size.
THEOREM TypeCorrect == Spec => []TypeOK
  <1>1. IInv => TypeOK
    BY DEF IInv
  <1> QED
    BY <1>1, InductiveInvariant, PTL

\* Whatever clients do, batch acknowledgement included, Amount is at least the number
\* of messages LinkedList holds and less than the size plus one batch.
THEOREM CapacityBounded == Spec => []AmountCoversChain
  <1>1. IInv => AmountCoversChain
    BY DEF IInv
  <1> QED
    BY <1>1, InductiveInvariant, PTL

\* A Tail that UnlockAndEmptyBatch left inside the chain is one of the first two
\* of at most three nodes.
THEOREM StaleTailNearHead == Spec => []TailShape
  <1>1. IInv => TailShape
    BY DEF IInv
  <1> QED
    BY <1>1, InductiveInvariant, PTL

-----------------------------------------------------------------------------
(* Messages settled one at a time *)

\* Linking behind an accurate Tail.
LEMMA LinkIntact ==
    ASSUME IInv, ListIntact, NEW ids \in Seq(Ids), Len(ids) >= 1, Link(ids)
    PROVE  ListIntact'
  <1>1. /\ amount' = amount + Len(ids)
        /\ tail = Len(msgs) => Len(msgs') = Len(msgs) + Len(ids) /\ tail' = Len(msgs')
    BY QueueAssumption, LinkEffect DEF IInv
  <1> QED
    BY <1>1 DEF ListIntact

\* Unlinking a node while Tail is accurate.
LEMMA UnlinkIntact ==
    ASSUME IInv, ListIntact, NEW k \in Positions, Unlink(k)
    PROVE  ListIntact'
  <1>1. /\ amount' = amount - 1
        /\ tail = Len(msgs) => Len(msgs') = Len(msgs) - 1 /\ tail' = Len(msgs')
    BY UnlinkEffect DEF IInv, AmountCoversChain
  <1> QED
    BY <1>1 DEF ListIntact

\* Rejecting a message while Tail is accurate.
LEMMA UnlockIntact ==
    ASSUME IInv, ListIntact, NEW c \in Consumers, NEW id \in Ids, Unlock(c, id)
    PROVE  ListIntact'
  <1>1. CASE UNCHANGED <<msgs, tail, amount>>
    BY <1>1 DEF ListIntact
  <1>2. ASSUME NEW k \in Positions, Unlink(k) PROVE ListIntact'
    BY <1>2, UnlinkIntact
  <1>3. ASSUME NEW k \in Positions,
               msgs' = [msgs EXCEPT ![k].owner = None, ![k].fetched = @ + 1],
               UNCHANGED <<tail, amount, dlq>>
        PROVE  ListIntact'
    <2>1. Len(msgs') = Len(msgs)
      BY <1>3 DEF IInv, TypeOK
    <2> QED
      BY <1>3, <2>1 DEF ListIntact
  <1>4. ASSUME NEW k \in Positions, HandleThresholdExpire(k)
        PROVE  UNCHANGED <<msgs, tail, amount>> \/ Unlink(k)
    BY <1>4 DEF HandleThresholdExpire, Panics
  <1> QED
    BY <1>1, <1>2, <1>3, <1>4 DEF Unlock, Refuses

\* Settling messages one at a time keeps Tail and Amount accurate.
LEMMA SingleNextIntact ==
    ASSUME IInv, ListIntact, [SingleNext]_vars
    PROVE  ListIntact'
  <1>1. CASE UNCHANGED <<msgs, tail, amount>>
    BY <1>1 DEF ListIntact
  <1>2. ASSUME NEW id \in Ids, Enqueue(id) PROVE ListIntact'
    <2>1. <<id>> \in Seq(Ids) /\ Len(<<id>>) >= 1
      OBVIOUS
    <2>2. UNCHANGED <<msgs, tail, amount>> \/ Link(<<id>>)
      BY <1>2 DEF Enqueue, Refuses
    <2> QED
      BY <1>1, <2>1, <2>2, LinkIntact
  <1>3. ASSUME NEW ids \in Batches, BatchEnqueue(ids) PROVE ListIntact'
    <2>1. ids \in Seq(Ids) /\ Len(ids) \in Nat
      BY BatchesType, QueueAssumption
    <2>2. UNCHANGED <<msgs, tail, amount>> \/ (Len(ids) > 0 /\ Link(ids))
      BY <1>3 DEF BatchEnqueue, Refuses
    <2>3. Len(ids) > 0 => Len(ids) >= 1
      BY <2>1
    <2> QED
      BY <1>1, <2>1, <2>2, <2>3, LinkIntact
  <1>4. ASSUME NEW want \in 0..MaxBatch, NEW c \in Consumers, NEW t \in Times, Dequeue(want, c, t)
        PROVE  ListIntact'
    <2>1. want \in Nat
      BY QueueAssumption
    <2>2. Len(msgs') = Len(msgs)
      BY <1>4, <2>1, DequeueIInv
    <2>3. tail' = tail /\ amount' = amount
      BY <1>4 DEF Dequeue
    <2> QED
      BY <2>2, <2>3 DEF ListIntact
  <1>5. ASSUME NEW c \in Consumers, NEW id \in Ids, UnlockAndEmpty(c, id) PROVE ListIntact'
    <2>1. UNCHANGED <<msgs, tail, amount>> \/ \E k \in Positions : Unlink(k)
      BY <1>5 DEF UnlockAndEmpty, UnlockAndEmptyOne, Refuses, HeldBy
    <2> QED
      BY <1>1, <2>1, UnlinkIntact
  <1>6. ASSUME NEW c \in Consumers, NEW id \in Ids, Unlock(c, id) PROVE ListIntact'
    BY <1>6, UnlockIntact
  <1>7. ASSUME NEW k \in DOMAIN dlq, SettleDeadLetter(k) PROVE ListIntact'
    BY <1>1, <1>7 DEF SettleDeadLetter
  <1>8. CASE UNCHANGED vars
    BY <1>1, <1>8 DEF vars
  <1> QED
    BY <1>2, <1>3, <1>4, <1>5, <1>6, <1>7, <1>8 DEF SingleNext

\* Without batch acknowledgement LinkedList drops no accepted message: every
\* message counted by Amount is on the chain and Tail is its last node.
THEOREM NothingLost == SingleSpec => []ListIntact
  <1>1. Init => IInv /\ ListIntact
    <2>1. Init => ListIntact
      BY DEF Init, ListIntact
    <2> QED
      BY <2>1, InitIInv
  <1>2. (IInv /\ ListIntact) /\ [SingleNext]_vars => (IInv /\ ListIntact)'
    BY SingleNextIInv, StutterIInv, SingleNextIntact
  <1> QED
    BY <1>1, <1>2, PTL DEF SingleSpec

-----------------------------------------------------------------------------
(* What a call may do to the messages.                                      *)
(* A step carries messages over: a node of the new chain is one of the old  *)
(* chain as it was, or has no owner and retries left.                       *)

\* A message without an owner and with retries left.
Rested(m) == m.owner = None /\ (m.fetched = 0 \/ m.fetched < FetchLimit)

\* Every message of the new chain is rested or was on the old one.
Carried ==
    \A j \in DOMAIN msgs' : Rested(msgs'[j]) \/ \E i \in DOMAIN msgs : msgs'[j] = msgs[i]

\* The chain of a well-formed state is a function on its positions.
LEMMA ChainDomain ==
    ASSUME TypeOK
    PROVE  DOMAIN msgs = Positions /\ Len(msgs) \in Nat /\ msgs \in [Positions -> Message]
           /\ tail \in 0..Len(msgs)
  BY SeqIsFunction DEF TypeOK, Positions

\* New nodes are at rest, and those up to Tail stay.
LEMMA LinkCarries ==
    ASSUME TypeOK, NEW ids \in Seq(Ids), Link(ids)
    PROVE  Carried
  <1>1. CASE msgs' = msgs
    BY <1>1 DEF Carried
  <1>2. CASE msgs' = [i \in 1..(tail + Len(ids)) |->
                        IF i <= tail THEN msgs[i] ELSE Fresh(ids[i - tail])]
    <2> SUFFICES ASSUME NEW j \in DOMAIN msgs'
                 PROVE  Rested(msgs'[j]) \/ \E i \in DOMAIN msgs : msgs'[j] = msgs[i]
      BY DEF Carried
    <2>1. j \in 1..(tail + Len(ids)) /\ Len(ids) \in Nat
      BY <1>2, SeqIsFunction
    <2>2. CASE j <= tail
      <3>1. msgs'[j] = msgs[j] /\ j \in DOMAIN msgs
        BY <1>2, <2>1, <2>2, ChainDomain DEF Positions
      <3> QED
        BY <3>1
    <2>3. CASE ~(j <= tail)
      <3>1. msgs'[j] = Fresh(ids[j - tail])
        BY <1>2, <2>1, <2>3
      <3> QED
        BY <3>1 DEF Rested, Fresh
    <2> QED
      BY <2>2, <2>3
  <1> QED
    BY <1>1, <1>2 DEF Link

\* Unlinking moves nodes and changes none.
LEMMA UnlinkCarries ==
    ASSUME TypeOK, NEW k \in Positions, Unlink(k)
    PROVE  Carried
  <1> USE ChainDomain DEF Positions
  <1>1. CASE k = tail
    <2>1. msgs' = [i \in 1..(k - 1) |-> msgs[i]]
      BY <1>1 DEF Unlink, Prefix
    <2>2. \A j \in DOMAIN msgs' : j \in DOMAIN msgs /\ msgs'[j] = msgs[j]
      BY <2>1
    <2> QED
      BY <2>2 DEF Carried
  <1>2. CASE k # tail
    <2>1. msgs' = [i \in 1..(Len(msgs) - 1) |-> IF i < k THEN msgs[i] ELSE msgs[i + 1]]
      BY <1>2 DEF Unlink, RemoveAtPos
    <2>2. \A j \in DOMAIN msgs' :
            j \in DOMAIN msgs /\ j + 1 \in DOMAIN msgs /\ msgs'[j] \in {msgs[j], msgs[j + 1]}
      BY <2>1
    <2> QED
      BY <2>2 DEF Carried
  <1> QED
    BY <1>1, <1>2

\* A rejected message is given back with a retry left, or leaves.
LEMMA UnlockCarries ==
    ASSUME TypeOK, NEW c, NEW id, Unlock(c, id)
    PROVE  Carried
  <1>1. CASE msgs' = msgs
    BY <1>1 DEF Carried
  <1>2. ASSUME NEW k \in Positions, ~Exhausted(k),
               msgs' = [msgs EXCEPT ![k].owner = None, ![k].fetched = @ + 1]
        PROVE  Carried
    <2>1. DOMAIN msgs' = DOMAIN msgs /\ \A j \in DOMAIN msgs \ {k} : msgs'[j] = msgs[j]
      BY <1>2
    <2>2. k \in DOMAIN msgs /\ msgs[k] \in Message
      BY <1>2, ChainDomain
    <2>3. msgs'[k].owner = None /\ msgs'[k].fetched = msgs[k].fetched + 1
      BY <1>2, <2>2 DEF Message
    <2>4. msgs[k].fetched \in Nat /\ FetchLimit \in Nat
      BY <2>2, QueueAssumption DEF Message
    <2>5. msgs[k].fetched + 1 < FetchLimit
      BY <1>2, <2>4 DEF Exhausted
    <2>6. Rested(msgs'[k])
      BY <2>3, <2>5 DEF Rested
    <2> QED
      BY <2>1, <2>6 DEF Carried
  <1>3. ASSUME NEW k \in Positions, HandleThresholdExpire(k)
        PROVE  Carried
    BY <1>1, <1>3, UnlinkCarries DEF HandleThresholdExpire, Panics
  <1> QED
    BY <1>1, <1>2, <1>3 DEF Unlock, Refuses

\* Acknowledging one message removes it and changes no other.
LEMMA AckCarries ==
    ASSUME TypeOK, NEW c, NEW id, UnlockAndEmptyOne(c, id)
    PROVE  Carried
  <1>1. CASE msgs' = msgs
    BY <1>1 DEF Carried
  <1>2. ASSUME NEW k \in Positions, Unlink(k)
        PROVE  Carried
    BY <1>2, UnlinkCarries
  <1> QED
    BY <1>1, <1>2 DEF UnlockAndEmptyOne, Refuses, HeldBy

\* What a batch acknowledgement leaves are nodes of the chain, whether the batch is
\* settled or linked back.
LEMMA BatchSettledCarries ==
    ASSUME TypeOK, NEW taken \in SUBSET Positions, BatchSettled(taken)
    PROVE  Carried
  <1> DEFINE kept == KeptBy(taken)
  <1>1. kept \in SUBSET DOMAIN msgs
    BY KeptCount, ChainDomain
  <1>2. PICK f \in InOrder(kept) : msgs' = [i \in 1..Cardinality(kept) |-> msgs[f[i]]]
    BY DEF BatchSettled
  <1>3. f \in [1..Cardinality(kept) -> kept]
    BY <1>2 DEF InOrder
  <1> HIDE DEF kept
  <1>4. \A j \in DOMAIN msgs' : f[j] \in DOMAIN msgs /\ msgs'[j] = msgs[f[j]]
    BY <1>1, <1>2, <1>3
  <1> QED
    BY <1>4 DEF Carried

\* The same for a batch that is linked back.
LEMMA BatchRestoredCarries ==
    ASSUME TypeOK, NEW taken \in SUBSET Positions, Cardinality(taken) > 0, KeptBy(taken) # {},
           BatchRestored(taken)
    PROVE  Carried
  <1> DEFINE kept == KeptBy(taken)
             n == Cardinality(taken)
             m == Cardinality(kept)
  <1>1. /\ kept \in SUBSET DOMAIN msgs /\ taken \in SUBSET DOMAIN msgs
        /\ m \in Nat /\ n \in Nat /\ IsFiniteSet(kept)
    BY KeptCount, ChainDomain
  <1>2. m >= 1
    BY <1>1, FS_EmptySet
  <1>3. PICK f \in InOrder(kept), g \in InOrder(taken) :
          msgs' = [i \in 1..(m + n) |->
                     IF i = 1 THEN msgs[f[1]]
                     ELSE IF i <= n + 1 THEN msgs[g[i - 1]] ELSE msgs[f[i - n]]]
    BY DEF BatchRestored
  <1>4. f \in [1..m -> kept] /\ g \in [1..n -> taken]
    BY <1>3 DEF InOrder
  <1> HIDE DEF kept, n, m
  <1>5. \A x \in 1..m : f[x] \in DOMAIN msgs
    BY <1>1, <1>4
  <1>6. \A x \in 1..n : g[x] \in DOMAIN msgs
    BY <1>1, <1>4
  <1> SUFFICES ASSUME NEW j \in DOMAIN msgs'
               PROVE  \E i \in DOMAIN msgs : msgs'[j] = msgs[i]
    BY DEF Carried
  <1>7. j \in 1..(m + n)
    BY <1>3
  <1>8. CASE j = 1
    <2>1. msgs'[j] = msgs[f[1]] /\ 1 \in 1..m
      BY <1>1, <1>2, <1>3, <1>7, <1>8
    <2> QED
      BY <1>5, <2>1
  <1>9. CASE j # 1 /\ j <= n + 1
    <2>1. msgs'[j] = msgs[g[j - 1]] /\ j - 1 \in 1..n
      BY <1>1, <1>3, <1>7, <1>9
    <2> QED
      BY <1>6, <2>1
  <1>10. CASE j # 1 /\ ~(j <= n + 1)
    <2>1. msgs'[j] = msgs[f[j - n]] /\ j - n \in 1..m
      BY <1>1, <1>3, <1>7, <1>10
    <2> QED
      BY <1>5, <2>1
  <1> QED
    BY <1>8, <1>9, <1>10

\* Every call but a fetch carries the messages over.
LEMMA NextCarries ==
    ASSUME TypeOK, [Next]_vars
    PROVE  Carried \/ \E want \in 0..MaxBatch, c \in Consumers, t \in Times : Dequeue(want, c, t)
  <1>1. ASSUME msgs' = msgs PROVE Carried
    BY <1>1 DEF Carried
  <1>2. ASSUME NEW ids \in Seq(Ids), Link(ids) PROVE Carried
    BY <1>2, LinkCarries
  <1>3. ASSUME NEW id \in Ids, Enqueue(id) PROVE Carried
    <2>1. <<id>> \in Seq(Ids)
      OBVIOUS
    <2> QED
      BY <1>1, <1>2, <1>3, <2>1 DEF Enqueue, Refuses
  <1>4. ASSUME NEW ids \in Batches, BatchEnqueue(ids) PROVE Carried
    BY <1>1, <1>2, <1>4, BatchesType DEF BatchEnqueue, Refuses
  <1>5. ASSUME NEW c \in Consumers, NEW id \in Ids, UnlockAndEmpty(c, id) PROVE Carried
    BY <1>5, AckCarries DEF UnlockAndEmpty
  <1>6. ASSUME NEW c \in Consumers, NEW id \in Ids, Unlock(c, id) PROVE Carried
    BY <1>6, UnlockCarries
  <1>7. ASSUME NEW k \in DOMAIN dlq, SettleDeadLetter(k) PROVE Carried
    BY <1>1, <1>7 DEF SettleDeadLetter
  <1>8. ASSUME NEW c \in Consumers, NEW ids \in Batches, UnlockAndEmptyBatch(c, ids) PROVE Carried
    <2> DEFINE taken == TakenBy(c, ids)
    <2>1. taken \in SUBSET Positions
      BY TakenType
    <2> HIDE DEF taken
    <2>2. CASE UnlockAndEmptyOne(c, ids[1])
      BY <2>2, AckCarries
    <2>3. CASE BatchSettled(taken)
      BY <2>1, <2>3, BatchSettledCarries
    <2>4. CASE Cardinality(taken) > 0 /\ ~RestorePanics(taken) /\ BatchRestored(taken)
      BY <2>1, <2>4, BatchRestoredCarries DEF RestorePanics
    <2> QED
      BY <1>1, <1>8, <2>2, <2>3, <2>4 DEF UnlockAndEmptyBatch, Refuses, Panics, taken
  <1>9. CASE UNCHANGED vars
    BY <1>1, <1>9 DEF vars
  <1> QED
    BY <1>3, <1>4, <1>5, <1>6, <1>7, <1>8, <1>9 DEF Next, SingleNext

-----------------------------------------------------------------------------
(* Theorems *)

\* A fetch locks the messages it hands out and changes nothing else.
LEMMA DequeueEffect ==
    ASSUME TypeOK, NEW want, NEW c, NEW t, Dequeue(want, c, t)
    PROVE  /\ DOMAIN msgs' = DOMAIN msgs
           /\ \A j \in DOMAIN msgs :
                \/ msgs'[j] = msgs[j]
                \/ /\ Available(j, c, t)
                   /\ msgs'[j].id = msgs[j].id /\ msgs'[j].fetched = msgs[j].fetched
                   /\ msgs'[j].owner = c /\ msgs'[j].time = t
  <1>1. msgs' = [k \in Positions |-> IF k \in Fetched(want, c, t)
                                     THEN [msgs[k] EXCEPT !.owner = c, !.time = t] ELSE msgs[k]]
    BY DEF Dequeue
  <1>2. DOMAIN msgs = Positions /\ msgs \in [Positions -> Message]
    BY ChainDomain
  <1>3. \A k \in Fetched(want, c, t) : k \in Positions /\ Available(k, c, t)
    BY DEF Fetched, Smallest
  <1>4. ASSUME NEW j \in Positions, j \in Fetched(want, c, t)
        PROVE  /\ msgs'[j].id = msgs[j].id /\ msgs'[j].fetched = msgs[j].fetched
               /\ msgs'[j].owner = c /\ msgs'[j].time = t
    <2>1. msgs'[j] = [msgs[j] EXCEPT !.owner = c, !.time = t] /\ msgs[j] \in Message
      BY <1>1, <1>2, <1>4
    <2> QED
      BY <2>1 DEF Message
  <1> QED
    BY <1>1, <1>2, <1>3, <1>4

\* No message on the chain has used up its retries (LinkedList.Unlock), whatever
\* batches are acknowledged, settled or linked back in between.
THEOREM RetriesBounded == Spec => []RetryBound
  <1>1. Init => RetryBound
    BY DEF Init, RetryBound, Positions
  <1>2. ASSUME IInv, RetryBound, [Next]_vars
        PROVE  RetryBound'
    <2>1. TypeOK /\ TypeOK'
      BY <1>2, NextIInv DEF IInv
    <2>2. DOMAIN msgs = Positions
      BY <2>1, ChainDomain
    <2>3. (DOMAIN msgs = Positions)'
      BY <2>1, SeqIsFunction DEF TypeOK, Positions
    <2>4. CASE Carried
      BY <1>2, <2>2, <2>3, <2>4 DEF Carried, Rested, RetryBound
    <2>5. ASSUME NEW want, NEW c, NEW t, Dequeue(want, c, t)
          PROVE  RetryBound'
      <3>1. DOMAIN msgs' = DOMAIN msgs /\ \A j \in DOMAIN msgs : msgs'[j].fetched = msgs[j].fetched
        BY <2>1, <2>5, DequeueEffect
      <3> QED
        BY <1>2, <2>2, <2>3, <3>1 DEF RetryBound
    <2> QED
      BY <1>2, <2>1, <2>4, <2>5, NextCarries
  <1>3. RetryBound /\ IInv /\ [Next]_vars => RetryBound'
    BY <1>2
  <1> QED
    BY <1>1, <1>3, InductiveInvariant, PTL DEF Spec

\* A message passes from one consumer to another only when its lock has lapsed
\* (LinkedList.Dequeue), batch acknowledgement included.
THEOREM LocksHonoured == Spec => LockHonoured
  <1> DEFINE Moves(i, j) == /\ msgs[i].id = msgs'[j].id
                            /\ msgs[i].owner # None /\ msgs'[j].owner \notin {None, msgs[i].owner}
             Honours == Distinct(msgs) /\ Distinct(msgs') =>
                 \A i \in DOMAIN msgs, j \in DOMAIN msgs' :
                     Moves(i, j) => msgs'[j].time - msgs[i].time > NodeTTL
  <1>1. ASSUME IInv, [Next]_vars
        PROVE  Honours
    <2> SUFFICES ASSUME Distinct(msgs), NEW i \in DOMAIN msgs, NEW j \in DOMAIN msgs', Moves(i, j)
                 PROVE  msgs'[j].time - msgs[i].time > NodeTTL
      OBVIOUS
    <2>1. TypeOK
      BY <1>1 DEF IInv
    <2>2. ~Carried
      BY DEF Carried, Rested, Distinct
    <2>3. PICK want \in 0..MaxBatch, c \in Consumers, t \in Times : Dequeue(want, c, t)
      BY <1>1, <2>1, <2>2, NextCarries
    <2>4. /\ j \in DOMAIN msgs
          /\ \/ msgs'[j] = msgs[j]
             \/ /\ Available(j, c, t)
                /\ msgs'[j].id = msgs[j].id /\ msgs'[j].owner = c /\ msgs'[j].time = t
      BY <2>1, <2>3, DequeueEffect
    <2>5. msgs'[j].id = msgs[j].id
      BY <2>4
    <2>6. i = j
      BY <2>4, <2>5 DEF Distinct
    <2> QED
      BY <2>4, <2>6 DEF Available
  <1>2. IInv /\ [Next]_vars => [Honours]_vars
    BY <1>1
  <1> QED
    BY <1>2, InductiveInvariant, PTL DEF Spec, LockHonoured

-----------------------------------------------------------------------------
(* Messages settled one at a time: Tail is accurate (ListIntact), so that *)
(* unlinking a node and linking new ones leave every other node in place. *)

Kept(i) == \E j \in {i - 1, i} \cap DOMAIN msgs' : msgs'[j] = msgs[i]

\* Unlinking a node, with Tail at the end of the chain.
LEMMA UnlinkKeepsOthers ==
    ASSUME TypeOK, ListIntact, NEW k \in Positions, Unlink(k), NEW i \in DOMAIN msgs \ {k}
    PROVE  Kept(i)
  <1>1. DOMAIN msgs = 1..Len(msgs) /\ Len(msgs) \in Nat /\ tail = Len(msgs) /\ k \in 1..Len(msgs)
    BY ChainDomain DEF Positions, ListIntact
  <1>2. CASE k = tail
    <2>1. msgs' = [x \in 1..(k - 1) |-> msgs[x]]
      BY <1>2 DEF Unlink, Prefix
    <2>2. i \in DOMAIN msgs' /\ msgs'[i] = msgs[i]
      BY <1>1, <1>2, <2>1
    <2> QED
      BY <2>2 DEF Kept
  <1>3. CASE k # tail
    <2>1. msgs' = [x \in 1..(Len(msgs) - 1) |-> IF x < k THEN msgs[x] ELSE msgs[x + 1]]
      BY <1>3 DEF Unlink, RemoveAtPos
    <2>2. CASE i < k
      <3>1. i \in DOMAIN msgs' /\ msgs'[i] = msgs[i]
        BY <1>1, <2>1, <2>2
      <3> QED
        BY <3>1 DEF Kept
    <2>3. CASE ~(i < k)
      <3>1. i - 1 \in DOMAIN msgs' /\ msgs'[i - 1] = msgs[i]
        BY <1>1, <2>1, <2>3
      <3> QED
        BY <3>1 DEF Kept
    <2> QED
      BY <2>2, <2>3
  <1> QED
    BY <1>2, <1>3

\* A message that stays as it is.
LEMMA SameKept ==
    ASSUME NEW i, i \in DOMAIN msgs', msgs'[i] = msgs[i]
    PROVE  Kept(i)
  BY DEF Kept

\* An acknowledgement takes a message of its consumer.
LEMMA AckKeepsOthers ==
    ASSUME TypeOK, ListIntact, NEW c, NEW id, UnlockAndEmpty(c, id),
           NEW i \in DOMAIN msgs, msgs[i].owner # c
    PROVE  Kept(i)
  <1>1. CASE msgs' = msgs
    BY <1>1, SameKept
  <1>2. ASSUME NEW k \in Positions, msgs[k].owner = c, Unlink(k)
        PROVE  Kept(i)
    BY <1>2, UnlinkKeepsOthers
  <1> QED
    BY <1>1, <1>2 DEF UnlockAndEmpty, UnlockAndEmptyOne, Refuses, HeldBy

\* A rejection gives a message of its consumer back, or moves it away.
LEMMA NackKeepsOthers ==
    ASSUME TypeOK, ListIntact, NEW c, NEW id, Unlock(c, id),
           NEW i \in DOMAIN msgs, msgs[i].owner # c
    PROVE  Kept(i)
  <1>1. CASE msgs' = msgs
    BY <1>1, SameKept
  <1>2. ASSUME NEW k \in Positions, msgs[k].owner = c,
               msgs' = [msgs EXCEPT ![k].owner = None, ![k].fetched = @ + 1]
        PROVE  Kept(i)
    <2>1. i # k
      BY <1>2
    <2>2. i \in DOMAIN msgs' /\ msgs'[i] = msgs[i]
      BY <1>2, <2>1
    <2> QED
      BY <2>2, SameKept
  <1>3. ASSUME NEW k \in Positions, msgs[k].owner = c, HandleThresholdExpire(k)
        PROVE  Kept(i)
    BY <1>1, <1>3, UnlinkKeepsOthers DEF HandleThresholdExpire, Panics
  <1> QED
    BY <1>1, <1>2, <1>3 DEF Unlock, Refuses

\* New nodes come behind the last one.
LEMMA LinkKeepsAll ==
    ASSUME TypeOK, ListIntact, NEW ids \in Seq(Ids), Link(ids), NEW i \in DOMAIN msgs
    PROVE  Kept(i)
  <1>1. DOMAIN msgs = 1..Len(msgs) /\ Len(msgs) \in Nat /\ tail = Len(msgs) /\ Len(ids) \in Nat
    BY ChainDomain, SeqIsFunction DEF Positions, ListIntact
  <1>2. CASE msgs' = msgs
    BY <1>2, SameKept
  <1>3. CASE msgs' = [x \in 1..(tail + Len(ids)) |->
                        IF x <= tail THEN msgs[x] ELSE Fresh(ids[x - tail])]
    <2>1. i \in DOMAIN msgs' /\ msgs'[i] = msgs[i]
      BY <1>1, <1>3
    <2> QED
      BY <2>1, SameKept
  <1> QED
    BY <1>2, <1>3 DEF Link

\* Tail and Amount are accurate throughout.
LEMMA SingleInvariant == SingleSpec => [](IInv /\ ListIntact)
  <1>1. Init => IInv /\ ListIntact
    <2>1. Init => ListIntact
      BY DEF Init, ListIntact
    <2> QED
      BY <2>1, InitIInv
  <1>2. (IInv /\ ListIntact) /\ [SingleNext]_vars => (IInv /\ ListIntact)'
    BY SingleNextIInv, StutterIInv, SingleNextIntact
  <1> QED
    BY <1>1, <1>2, PTL DEF SingleSpec

\* LinkedList.Unlock and UnlockAndEmpty by one consumer leave every message that
\* another consumer holds as it is.
THEOREM OthersUntouched == SingleSpec => OthersKept
  <1> DEFINE Spares == \A c \in Consumers :
               (\E id \in Ids : UnlockAndEmpty(c, id) \/ Unlock(c, id)) =>
                   \A i \in DOMAIN msgs : msgs[i].owner \notin {c, None} =>
                       \E j \in {i - 1, i} \cap DOMAIN msgs' : msgs'[j] = msgs[i]
  <1>1. ASSUME IInv, ListIntact
        PROVE  Spares
    <2> SUFFICES ASSUME NEW c \in Consumers, NEW id \in Ids,
                        UnlockAndEmpty(c, id) \/ Unlock(c, id),
                        NEW i \in DOMAIN msgs, msgs[i].owner # c
                 PROVE  Kept(i)
      BY DEF Kept
    <2> QED
      BY <1>1, AckKeepsOthers, NackKeepsOthers DEF IInv
  <1>2. IInv /\ ListIntact /\ [SingleNext]_vars => [Spares]_vars
    BY <1>1
  <1> QED
    BY <1>2, SingleInvariant, PTL DEF SingleSpec, OthersKept

\* No call of LinkedList, whoever makes it, takes a message that nobody holds off
\* the chain or changes the order around it.
THEOREM UnheldKept == SingleSpec => UnheldStays
  <1> DEFINE Stays == \A i \in DOMAIN msgs : msgs[i].owner = None =>
               \E j \in {i - 1, i} \cap DOMAIN msgs' : msgs'[j].id = msgs[i].id
  <1>1. ASSUME IInv, ListIntact, [SingleNext]_vars, NEW i \in DOMAIN msgs, msgs[i].owner = None
        PROVE  \E j \in {i - 1, i} \cap DOMAIN msgs' : msgs'[j].id = msgs[i].id
    <2>1. ASSUME Kept(i)
          PROVE  \E j \in {i - 1, i} \cap DOMAIN msgs' : msgs'[j].id = msgs[i].id
      BY <2>1 DEF Kept
    <2>2. TypeOK
      BY <1>1 DEF IInv
    <2>3. CASE msgs' = msgs
      BY <1>1, <2>1, <2>3, SameKept
    <2>4. CASE \E ids \in Seq(Ids) : Link(ids)
      BY <1>1, <2>1, <2>2, <2>4, LinkKeepsAll
    <2>5. ASSUME NEW want, NEW c, NEW t, Dequeue(want, c, t)
          PROVE  \E j \in {i - 1, i} \cap DOMAIN msgs' : msgs'[j].id = msgs[i].id
      BY <1>1, <2>2, <2>5, DequeueEffect
    <2>6. ASSUME NEW c \in Consumers, NEW id \in Ids, UnlockAndEmpty(c, id) \/ Unlock(c, id)
          PROVE  \E j \in {i - 1, i} \cap DOMAIN msgs' : msgs'[j].id = msgs[i].id
      <3>1. msgs[i].owner # c
        BY <1>1, <2>6, QueueAssumption
      <3> QED
        BY <1>1, <2>1, <2>2, <2>6, <3>1, AckKeepsOthers, NackKeepsOthers
    <2>7. ASSUME NEW id \in Ids, Enqueue(id)
          PROVE  msgs' = msgs \/ \E ids \in Seq(Ids) : Link(ids)
      <3>1. <<id>> \in Seq(Ids)
        OBVIOUS
      <3> QED
        BY <2>7, <3>1 DEF Enqueue, Refuses
    <2>8. ASSUME NEW ids \in Batches, BatchEnqueue(ids)
          PROVE  msgs' = msgs \/ \E s \in Seq(Ids) : Link(s)
      BY <2>8, BatchesType DEF BatchEnqueue, Refuses
    <2>9. ASSUME NEW k \in DOMAIN dlq, SettleDeadLetter(k)
          PROVE  msgs' = msgs
      BY <2>9 DEF SettleDeadLetter
    <2>10. UNCHANGED vars => msgs' = msgs
      BY DEF vars
    <2> QED
      BY <1>1, <2>3, <2>4, <2>5, <2>6, <2>7, <2>8, <2>9, <2>10 DEF SingleNext
  <1>2. IInv /\ ListIntact /\ [SingleNext]_vars => [Stays]_vars
    BY <1>1
  <1> QED
    BY <1>2, SingleInvariant, PTL DEF SingleSpec, UnheldStays

=============================================================================
