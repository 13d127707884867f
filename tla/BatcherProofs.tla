---------------------------- MODULE BatcherProofs ----------------------------
(***************************************************************************)
(* The batcher for any number of requests and any length of batches: every *)
(* log is in one place, and no log is applied twice.                       *)
(***************************************************************************)
EXTENDS Batcher, ListLemmas, FiniteSetTheorems

-----------------------------------------------------------------------------
(* The invariant *)

\* What the flusher works on, and who may be at work.
FlightOK ==
    /\ flight \in [step : {"none", "reset", "swap", "send"}, cut : Nat,
                   datas : Seq(Clients \cup {Nil}), gen : Generations]
    /\ batchLock = Nil <=> flight.step = "none"
    /\ batchLock = "process" => flight.step = "send"
    /\ flight.step # "send" => flight.datas = <<>>
    /\ flight.step \in {"reset", "swap"} => dataSlice[0] # Nil /\ flight.cut \in Slots

\* One client is between Lock and Unlock of b.lock, and it submits one log.
LockOK ==
    /\ \A c \in Clients : pc[c] \in {"reread", "submit", "wait"} <=> lock = c
    /\ wait = Len(inputChan) + (IF batchLock = "process" THEN 1 ELSE 0)
    /\ wait # 0 => \E c \in Clients : pc[c] = "wait"

\* The logs in the input channel, in the batch, with the flusher and applied
Queued == {inputChan[i][2] : i \in DOMAIN inputChan}
Stored == {dataSlice[i] : i \in Slots} \ {Nil}
Flying == {flight.datas[i] : i \in DOMAIN flight.datas} \ {Nil}
Over == {applied[i] : i \in DOMAIN applied}

Submitted == {c \in Clients : pc[c] \in {"wait", "await", "done"}}

\* A log that was submitted is in one place at most.
OnePlace ==
    /\ Queued \cup Stored \cup Flying \cup Over \subseteq Submitted
    /\ Queued \cap (Stored \cup Flying \cup Over) = {}
    /\ Stored \cap (Flying \cup Over) = {}
    /\ Flying \cap Over = {}
    /\ \A i, j \in Slots : dataSlice[i] = dataSlice[j] /\ dataSlice[i] # Nil => i = j
    /\ \A i, j \in DOMAIN flight.datas :
         flight.datas[i] = flight.datas[j] /\ flight.datas[i] # Nil => i = j
    /\ AppliedAtMostOnce

\* Every swap of the batch took a log out of it.
Gone == Submitted \ (Queued \cup Stored)
SwapsCounted == gen - 1 <= Cardinality(Gone)

BatcherInv == TypeOK /\ FlightOK /\ LockOK /\ OnePlace /\ SwapsCounted

-----------------------------------------------------------------------------
(* What syblineFSM.Apply answers for *)

\* The entries of a list, each once but for the empty ones
Distinct(l) == \A i, j \in DOMAIN l : l[i] = l[j] /\ l[i] # Nil => i = j
Logs(l) == {l[i] : i \in DOMAIN l} \ {Nil}

\* The results are those of logs of the batch, and no log has two.
LEMMA ResultsOnce ==
    ASSUME BatcherAssumption, NEW datas \in Seq(Clients \cup {Nil}), Distinct(datas)
    PROVE  /\ Results(datas) \in Seq(Clients)
           /\ Distinct(Results(datas))
           /\ Logs(Results(datas)) \subseteq Logs(datas)
  <1> DEFINE n == Len(datas)
             Add(acc, d) == IF d = Nil THEN acc ELSE Append(acc, d)
             Q(it) == it = [s \in SUBSET (1..n) |->
                              IF s = {} THEN <<>> ELSE Add(it[s \ {Max(s)}], datas[Max(s)])]
             it0 == CHOOSE it : Q(it)
             step == [i \in 1..n |-> [acc \in Seq(Clients) |-> Add(acc, datas[i])]]
  <1>1. n \in Nat /\ DOMAIN datas = 1..n /\ \A i \in 1..n : datas[i] \in Clients \cup {Nil}
    OBVIOUS
  <1>2. Results(datas) = it0[1..n]
    <2> HIDE DEF n
    <2> QED
      BY <1>1 DEF Results, FoldLeft, MapThenFoldSet
  <1> HIDE DEF n
  <1>3. step \in [1..n -> [Seq(Clients) -> Seq(Clients)]]
    BY <1>1
  <1>4. \A i \in 1..n, acc \in Seq(Clients) : step[i][acc] = Add(acc, datas[i])
    OBVIOUS
  <1> HIDE DEF step, Add
  <1>5. PICK it \in [SUBSET (1..n) -> Seq(Clients)] : IsFold(it, n, <<>>, step)
    <2>1. <<>> \in Seq(Clients)
      OBVIOUS
    <2> QED
      BY <1>1, <1>3, <2>1, FoldExists
  <1>6. \E x : Q(x)
    <2>1. ASSUME NEW s \in SUBSET (1..n), s # {}
          PROVE  step[Max(s)][it[s \ {Max(s)}]] = Add(it[s \ {Max(s)}], datas[Max(s)])
      <3>1. Max(s) \in 1..n /\ it[s \ {Max(s)}] \in Seq(Clients)
        BY <1>1, <2>1, MaxOf
      <3> QED
        BY <1>4, <3>1
    <2>2. Q(it)
      BY <1>5, <2>1 DEF IsFold
    <2> QED
      BY <2>2
  <1>7. Q(it0)
    <2> HIDE DEF Q
    <2> QED
      BY <1>6
  <1> HIDE DEF it0
  <1>8. it0[1..0] = <<>>
    <2>1. 1..0 = {} /\ {} \in SUBSET (1..n)
      OBVIOUS
    <2> QED
      BY <1>7, <2>1
  <1>9. ASSUME NEW i \in 1..n
        PROVE  it0[1..i] = Add(it0[1..(i - 1)], datas[i])
    <2>1. 1..i \in SUBSET (1..n) /\ i \in Nat /\ i # 0 /\ 1..i # {}
      <3>1. i \in Nat /\ i # 0 /\ i \in 1..i
        BY <1>1
      <3>2. \A j \in 1..i : j \in 1..n
        BY <1>1
      <3> QED
        BY <3>1, <3>2
    <2>2. Max(1..i) = i /\ (1..i) \ {i} = 1..(i - 1)
      BY <2>1, MaxOfPrefix
    <2>3. it0[1..i] = Add(it0[(1..i) \ {Max(1..i)}], datas[Max(1..i)])
      BY <1>7, <2>1
    <2> QED
      BY <2>2, <2>3
  <1> HIDE DEF Q
  <1> DEFINE Good(r, i) == /\ r \in Seq(Clients)
                           /\ \A j \in DOMAIN r : \E k \in 1..i : r[j] = datas[k]
                           /\ \A j, k \in DOMAIN r : r[j] = r[k] => j = k
             P == {i \in Nat : i <= n => Good(it0[1..i], i)}
  <1>10. 0 \in P
    <2>1. Good(<<>>, 0)
      OBVIOUS
    <2> QED
      BY <1>8, <2>1
  <1>11. ASSUME NEW i \in Nat, i \in P
         PROVE  i + 1 \in P
    <2> SUFFICES ASSUME i + 1 <= n
                 PROVE  Good(it0[1..(i + 1)], i + 1)
      OBVIOUS
    <2> DEFINE r == it0[1..i]
               d == datas[i + 1]
    <2>1. Good(r, i) /\ i + 1 \in 1..n /\ (i + 1) - 1 = i
      BY <1>1, <1>11
    <2>2. it0[1..(i + 1)] = Add(r, d)
      BY <1>9, <2>1
    <2>3. d \in Clients \cup {Nil}
      BY <1>1, <2>1
    <2> HIDE DEF r, P
    <2>4. CASE d = Nil
      <3>1. Add(r, d) = r
        BY <2>4 DEF Add
      <3>2. \A k \in 1..i : k \in 1..(i + 1)
        OBVIOUS
      <3> QED
        BY <2>1, <2>2, <3>1, <3>2
    <2>5. CASE d # Nil
      <3>1. Add(r, d) = Append(r, d) /\ d \in Clients
        BY <2>3, <2>5 DEF Add
      <3>2. \A k \in 1..i : datas[k] # d
        <4> SUFFICES ASSUME NEW k \in 1..i, datas[k] = d PROVE FALSE
          OBVIOUS
        <4>1. k \in DOMAIN datas /\ i + 1 \in DOMAIN datas /\ k # i + 1
          BY <1>1, <2>1
        <4> QED
          BY <2>5, <4>1 DEF Distinct
      <3> HIDE DEF d
      <3>3. \A j \in DOMAIN r : r[j] # d
        BY <2>1, <3>2
      <3>4. /\ Append(r, d) \in Seq(Clients) /\ DOMAIN Append(r, d) = 1..(Len(r) + 1)
            /\ DOMAIN r = 1..Len(r) /\ Len(r) \in Nat
            /\ \A j \in 1..Len(r) : Append(r, d)[j] = r[j]
            /\ Append(r, d)[Len(r) + 1] = d
        BY <2>1, <3>1
      <3> DEFINE a == Append(r, d)
      <3>5. \A j \in DOMAIN a : j \in DOMAIN r \/ j = Len(r) + 1
        BY <3>4
      <3>6. \A j, k \in DOMAIN a : a[j] = a[k] => j = k
        BY <2>1, <3>3, <3>4, <3>5
      <3>7. \A j \in DOMAIN a : \E k \in 1..(i + 1) : a[j] = datas[k]
        <4>1. \A k \in 1..i : k \in 1..(i + 1)
          OBVIOUS
        <4>2. i + 1 \in 1..(i + 1)
          OBVIOUS
        <4> QED
          BY <2>1, <3>4, <3>5, <4>1, <4>2 DEF d
      <3> QED
        BY <2>2, <3>1, <3>4, <3>6, <3>7
    <2> QED
      BY <2>4, <2>5
  <1>12. Good(it0[1..n], n)
    <2>1. Nat \subseteq P
      <3> HIDE DEF P
      <3> QED
        BY <1>10, <1>11, Induction
    <2> QED
      BY <1>1, <2>1
  <1> HIDE DEF P
  <1> DEFINE r == Results(datas)
  <1>13. Good(r, n)
    BY <1>2, <1>12
  <1> HIDE DEF r
  <1>14. Distinct(r)
    BY <1>13 DEF Distinct
  <1>15. Logs(r) \subseteq Logs(datas)
    BY <1>1, <1>13 DEF Logs
  <1> QED
    BY <1>13, <1>14, <1>15 DEF r

-----------------------------------------------------------------------------
(* The initial state, and the steps of SendLog *)

LEMMA InitInv ==
    ASSUME BatcherAssumption, Init
    PROVE  BatcherInv
  <1>1. 0 \in Slots /\ 1 \in Generations /\ Nat \subseteq Int
    <2>1. Cardinality(Clients) \in Nat
      BY FS_CardinalityType DEF BatcherAssumption
    <2> QED
      BY <2>1 DEF BatcherAssumption, Slots, Generations
  <1>2. TypeOK
    BY <1>1 DEF Init, TypeOK, Empty
  <1>3. FlightOK
    BY <1>1 DEF Init, FlightOK, Grounded, BatcherAssumption
  <1>4. LockOK
    BY DEF Init, LockOK, BatcherAssumption
  <1>5. Queued = {} /\ Stored = {} /\ Flying = {} /\ Over = {}
    BY DEF Init, Queued, Stored, Flying, Over, Empty, Grounded
  <1>6. OnePlace
    BY <1>5 DEF OnePlace, Init, Empty, Grounded, AppliedAtMostOnce
  <1>7. SwapsCounted
    <2>1. Submitted = {}
      BY DEF Submitted, Init
    <2>2. Cardinality(Gone) = 0
      BY <2>1, FS_EmptySet DEF Gone
    <2> QED
      BY <2>2 DEF SwapsCounted, Init
  <1> QED
    BY <1>2, <1>3, <1>4, <1>6, <1>7 DEF BatcherInv

\* Steps that move no log
LEMMA PlacesKept ==
    ASSUME OnePlace, SwapsCounted, Submitted' = Submitted,
           UNCHANGED <<inputChan, dataSlice, flight, applied, gen>>
    PROVE  OnePlace' /\ SwapsCounted'
  <1>1. Queued' = Queued /\ Stored' = Stored /\ Flying' = Flying /\ Over' = Over
    BY DEF Queued, Stored, Flying, Over
  <1>2. OnePlace'
    BY <1>1 DEF OnePlace, AppliedAtMostOnce
  <1>3. SwapsCounted'
    BY <1>1 DEF SwapsCounted, Gone
  <1> QED
    BY <1>2, <1>3

LEMMA TakeIndexKeeps ==
    ASSUME BatcherAssumption, BatcherInv, NEW c \in Clients, TakeIndex(c)
    PROVE  BatcherInv'
  <1>1. TypeOK'
    BY DEF BatcherInv, TypeOK, TakeIndex
  <1>2. FlightOK'
    BY DEF BatcherInv, FlightOK, TakeIndex
  <1>3. LockOK'
    BY DEF BatcherInv, TypeOK, LockOK, TakeIndex, BatcherAssumption
  <1>4. Submitted' = Submitted
    BY DEF BatcherInv, TypeOK, TakeIndex, Submitted
  <1> QED
    BY <1>1, <1>2, <1>3, <1>4, PlacesKept DEF BatcherInv, TakeIndex

LEMMA RereadKeeps ==
    ASSUME BatcherAssumption, BatcherInv, NEW c \in Clients, Reread(c)
    PROVE  BatcherInv'
  <1>1. TypeOK'
    BY DEF BatcherInv, TypeOK, Reread
  <1>2. FlightOK'
    BY DEF BatcherInv, FlightOK, Reread
  <1>3. LockOK'
    BY DEF BatcherInv, TypeOK, LockOK, Reread
  <1>4. Submitted' = Submitted
    BY DEF BatcherInv, TypeOK, Reread, Submitted
  <1> QED
    BY <1>1, <1>2, <1>3, <1>4, PlacesKept DEF BatcherInv, Reread

LEMMA ReturnKeeps ==
    ASSUME BatcherAssumption, BatcherInv, NEW c \in Clients, Return(c)
    PROVE  BatcherInv'
  <1>1. TypeOK'
    BY DEF BatcherInv, TypeOK, Return
  <1>2. FlightOK'
    BY DEF BatcherInv, FlightOK, Return
  <1>3. LockOK'
    BY DEF BatcherInv, TypeOK, LockOK, Return, BatcherAssumption
  <1>4. Submitted' = Submitted
    BY DEF BatcherInv, TypeOK, Return, Submitted
  <1> QED
    BY <1>1, <1>2, <1>3, <1>4, PlacesKept DEF BatcherInv, Return

LEMMA ReceiveKeeps ==
    ASSUME BatcherAssumption, BatcherInv, NEW c \in Clients, Receive(c)
    PROVE  BatcherInv'
  <1>1. TypeOK'
    BY DEF BatcherInv, TypeOK, Receive
  <1>2. FlightOK'
    BY DEF BatcherInv, FlightOK, Receive
  <1>3. LockOK'
    BY DEF BatcherInv, TypeOK, LockOK, Receive
  <1>4. Submitted' = Submitted
    BY DEF BatcherInv, TypeOK, Receive, Submitted
  <1> QED
    BY <1>1, <1>2, <1>3, <1>4, PlacesKept DEF BatcherInv, Receive

\* Nothing leaves what was swapped out.
LEMMA GoneGrows ==
    ASSUME BatcherAssumption, TypeOK, SwapsCounted, Gone \subseteq Gone', gen' = gen,
           pc' \in [Clients -> {"idle", "reread", "submit", "wait", "await", "done"}]
    PROVE  SwapsCounted'
  <1>1. IsFiniteSet(Clients) /\ Gone' \subseteq Clients
    BY DEF BatcherAssumption, Gone, Submitted
  <1>2. IsFiniteSet(Gone')
    BY <1>1, FS_Subset
  <1>3. Cardinality(Gone) <= Cardinality(Gone') /\ IsFiniteSet(Gone)
    BY <1>2, FS_Subset
  <1>4. Cardinality(Gone) \in Nat /\ Cardinality(Gone') \in Nat
    BY <1>2, <1>3, FS_CardinalityType
  <1>5. gen \in Nat
    BY DEF TypeOK, Generations
  <1> QED
    BY <1>3, <1>4, <1>5 DEF SwapsCounted

\* A swap takes one more log out: there is a generation left.
LEMMA GoneAtSwap ==
    ASSUME BatcherAssumption, TypeOK, SwapsCounted, gen' = gen + 1,
           NEW x \in Gone', x \notin Gone, Gone \subseteq Gone'
    PROVE  SwapsCounted' /\ gen' \in Generations
  <1>1. IsFiniteSet(Clients) /\ Gone' \subseteq Clients
    BY DEF BatcherAssumption, Gone, Submitted
  <1>2. IsFiniteSet(Gone') /\ Cardinality(Gone') <= Cardinality(Clients)
    BY <1>1, FS_Subset
  <1>3. IsFiniteSet(Gone)
    BY <1>2, FS_Subset
  <1>4. Cardinality(Gone \cup {x}) = Cardinality(Gone) + 1
    BY <1>3, FS_AddElement
  <1>5. Cardinality(Gone \cup {x}) <= Cardinality(Gone')
    <2>1. Gone \cup {x} \in SUBSET Gone'
      OBVIOUS
    <2> QED
      BY <1>2, <2>1, FS_Subset
  <1>6. /\ Cardinality(Gone) \in Nat /\ Cardinality(Gone') \in Nat
        /\ Cardinality(Clients) \in Nat
    BY <1>1, <1>2, <1>3, FS_CardinalityType
  <1>7. gen \in Nat /\ gen >= 1
    BY <1>6 DEF TypeOK, Generations
  <1> QED
    BY <1>2, <1>4, <1>5, <1>6, <1>7 DEF SwapsCounted, Generations

LEMMA SubmitKeeps ==
    ASSUME BatcherAssumption, BatcherInv, NEW c \in Clients, Submit(c)
    PROVE  BatcherInv'
  <1>1. wait = 0 /\ inputChan = <<>> /\ batchLock # "process"
    <2>1. wait = 0
      <3>1. ASSUME NEW d \in Clients, pc[d] = "wait" PROVE FALSE
        <4>1. lock = d /\ lock = c
          BY <3>1 DEF BatcherInv, LockOK, Submit
        <4> QED
          BY <3>1, <4>1 DEF Submit
      <3> QED
        BY <3>1 DEF BatcherInv, LockOK
    <2>2. Len(inputChan) \in Nat /\ inputChan \in Seq(Slots \X Clients)
      BY DEF BatcherInv, TypeOK
    <2>3. Len(inputChan) = 0 /\ batchLock # "process"
      BY <2>1, <2>2 DEF BatcherInv, LockOK
    <2> QED
      BY <2>1, <2>2, <2>3
  <1>2. inputChan' = <<<<index[c], c>>>> /\ wait' = 1
    BY <1>1 DEF Submit
  <1>3. index[c] \in Slots /\ nextFreeIndex' \in Slots
    <2>1. reread[c] \in Slots /\ index[c] \in Slots /\ nextFreeIndex' = (reread[c] + 1) % BatchLength
      BY DEF BatcherInv, TypeOK, Submit
    <2>2. BatchLength \in Nat \ {0} /\ reread[c] + 1 \in Nat
      BY <2>1 DEF Slots, BatcherAssumption
    <2>3. (reread[c] + 1) % BatchLength \in 0..(BatchLength - 1)
      BY <2>2
    <2> QED
      BY <2>1, <2>3 DEF Slots
  <1>4. pc' = [pc EXCEPT ![c] = "wait"] /\ pc \in [Clients -> {"idle", "reread", "submit", "wait", "await", "done"}]
    BY DEF Submit, BatcherInv, TypeOK
  <1>5. TypeOK'
    BY <1>2, <1>3 DEF BatcherInv, TypeOK, Submit
  <1>6. FlightOK'
    BY DEF BatcherInv, FlightOK, Submit
  <1>7. LockOK'
    <2>1. \A d \in Clients : pc'[d] \in {"reread", "submit", "wait"} <=> lock' = d
      BY <1>4 DEF BatcherInv, LockOK, Submit
    <2>2. wait' = Len(inputChan') + (IF batchLock' = "process" THEN 1 ELSE 0)
      BY <1>1, <1>2 DEF Submit
    <2>3. pc'[c] = "wait"
      BY <1>4
    <2> QED
      BY <2>1, <2>2, <2>3 DEF LockOK
  <1>8. Queued' = {c} /\ Queued = {} /\ Stored' = Stored /\ Flying' = Flying /\ Over' = Over
    BY <1>1, <1>2 DEF Queued, Stored, Flying, Over, Submit
  <1>9. Submitted' = Submitted \cup {c} /\ c \notin Submitted
    BY <1>4 DEF Submitted, Submit
  <1>10. OnePlace'
    BY <1>8, <1>9 DEF BatcherInv, OnePlace, AppliedAtMostOnce, Submit
  <1>11. SwapsCounted'
    <2>1. Gone \subseteq Gone'
      BY <1>8, <1>9 DEF Gone
    <2>2. pc' \in [Clients -> {"idle", "reread", "submit", "wait", "await", "done"}]
      BY <1>4
    <2>3. gen' = gen
      BY DEF Submit
    <2> QED
      BY <2>1, <2>2, <2>3, GoneGrows DEF BatcherInv
  <1> QED
    BY <1>5, <1>6, <1>7, <1>10, <1>11 DEF BatcherInv

-----------------------------------------------------------------------------
(* The steps of the storing goroutine *)

\* A log waits in the channel, so its sender waits in SendLog.
LEMMA StoreFacts ==
    ASSUME BatcherAssumption, BatcherInv, inputChan # <<>>
    PROVE  /\ Head(inputChan) \in Slots \X Clients /\ Tail(inputChan) = <<>>
           /\ Head(inputChan)[1] \in Slots /\ Head(inputChan)[2] \in Clients
           /\ Queued = {Head(inputChan)[2]} /\ Len(inputChan) = 1
           /\ Head(inputChan)[2] \notin Stored \cup Flying \cup Over
           /\ Head(inputChan)[2] \in Submitted
  <1>1. inputChan \in Seq(Slots \X Clients) /\ Len(inputChan) <= 1
    BY DEF BatcherInv, TypeOK
  <1>2. Len(inputChan) = 1
    <2>1. Len(inputChan) \in Nat /\ Len(inputChan) # 0
      BY <1>1, EmptySeq
    <2>2. \A m \in Nat : m # 0 /\ m <= 1 => m = 1
      OBVIOUS
    <2> QED
      BY <1>1, <2>1, <2>2
  <1>3. inputChan = <<inputChan[1]>> /\ inputChan[1] \in Slots \X Clients
    BY <1>1, <1>2
  <1>4. Head(inputChan) = inputChan[1] /\ Tail(inputChan) = <<>> /\ DOMAIN inputChan = {1}
    BY <1>1, <1>2, <1>3
  <1>5. Queued = {Head(inputChan)[2]}
    BY <1>4 DEF Queued
  <1> QED
    BY <1>2, <1>3, <1>4, <1>5 DEF BatcherInv, OnePlace

LEMMA StoreKeeps ==
    ASSUME BatcherAssumption, BatcherInv, Store
    PROVE  BatcherInv'
  <1> DEFINE id == Head(inputChan)[1]
             x == Head(inputChan)[2]
  <1>1. /\ id \in Slots /\ x \in Clients /\ Tail(inputChan) = <<>> /\ Len(inputChan) = 1
        /\ Queued = {x} /\ x \notin Stored \cup Flying \cup Over /\ x \in Submitted /\ x # Nil
    BY StoreFacts DEF Store, BatcherAssumption
  <1>2. /\ inputChan' = <<>> /\ dataSlice' = [dataSlice EXCEPT ![id] = x] /\ wait' = wait - 1
        /\ UNCHANGED <<nextFreeIndex, gen, outputs, lock, batchLock, flight, pc, index,
                       reread, channel, answer, applied>>
        /\ batchLock = Nil
    BY <1>1 DEF Store
  <1> HIDE DEF id, x
  <1>3. dataSlice \in [Slots -> Clients \cup {Nil}]
    BY DEF BatcherInv, TypeOK
  <1>4. wait = 1 /\ wait' = 0
    BY <1>1, <1>2 DEF BatcherInv, LockOK, BatcherAssumption
  <1>5. TypeOK'
    BY <1>1, <1>2, <1>4 DEF BatcherInv, TypeOK
  <1>6. FlightOK'
    BY <1>2 DEF BatcherInv, FlightOK
  <1>7. LockOK'
    <2>1. Len(inputChan') = 0 /\ batchLock' # "process"
      BY <1>2 DEF BatcherAssumption
    <2> QED
      BY <1>2, <1>4, <2>1 DEF BatcherInv, LockOK
  <1>8. /\ Queued' = {} /\ Flying' = Flying /\ Over' = Over /\ Submitted' = Submitted
        /\ Stored' \subseteq Stored \cup {x}
    <2>1. Stored' \subseteq Stored \cup {x}
      BY <1>1, <1>2, <1>3 DEF Stored
    <2> QED
      BY <1>2, <2>1 DEF Queued, Flying, Over, Submitted
  <1>9. \A i, j \in Slots : dataSlice'[i] = dataSlice'[j] /\ dataSlice'[i] # Nil => i = j
    <2>1. \A i \in Slots : dataSlice[i] # x
      BY <1>1 DEF Stored
    <2>2. \A i, j \in Slots : dataSlice[i] = dataSlice[j] /\ dataSlice[i] # Nil => i = j
      BY DEF BatcherInv, OnePlace
    <2> QED
      BY <1>1, <1>2, <1>3, <2>1, <2>2
  <1>10. OnePlace'
    <2>1. /\ Queued' \cup Stored' \cup Flying' \cup Over' \subseteq Submitted'
          /\ Queued' \cap (Stored' \cup Flying' \cup Over') = {}
          /\ Stored' \cap (Flying' \cup Over') = {}
          /\ Flying' \cap Over' = {}
      BY <1>1, <1>8 DEF BatcherInv, OnePlace
    <2> QED
      BY <1>2, <1>9, <2>1 DEF BatcherInv, OnePlace, AppliedAtMostOnce
  <1>11. SwapsCounted'
    <2>1. Gone \subseteq Gone'
      BY <1>1, <1>8 DEF Gone
    <2>2. pc' \in [Clients -> {"idle", "reread", "submit", "wait", "await", "done"}]
      BY <1>5 DEF TypeOK
    <2> QED
      BY <1>2, <2>1, <2>2, GoneGrows DEF BatcherInv
  <1> QED
    BY <1>5, <1>6, <1>7, <1>10, <1>11 DEF BatcherInv

\* The swap by the storing goroutine: the new log goes out with the others.
LEMMA StoreLastKeeps ==
    ASSUME BatcherAssumption, BatcherInv, StoreLast
    PROVE  BatcherInv'
  <1> DEFINE id == Head(inputChan)[1]
             x == Head(inputChan)[2]
             stored == [dataSlice EXCEPT ![id] = x]
             datas == [i \in 1..BatchLength |-> stored[i - 1]]
  <1>1. /\ id \in Slots /\ x \in Clients /\ Tail(inputChan) = <<>> /\ Len(inputChan) = 1
        /\ Queued = {x} /\ x \notin Stored \cup Flying \cup Over /\ x \in Submitted /\ x # Nil
    BY StoreFacts DEF StoreLast, BatcherAssumption
  <1>2. /\ inputChan' = <<>> /\ dataSlice' = Empty /\ nextFreeIndex' = 0 /\ gen' = gen + 1
        /\ flight' = [step |-> "send", cut |-> BatchLength, gen |-> gen, datas |-> datas]
        /\ batchLock = Nil /\ batchLock' = "process"
        /\ UNCHANGED <<outputs, wait, lock, pc, index, reread, channel, answer, applied>>
    BY <1>1 DEF StoreLast
  <1>3. /\ dataSlice \in [Slots -> Clients \cup {Nil}] /\ gen \in Generations
        /\ BatchLength \in Nat \ {0}
    BY DEF BatcherInv, TypeOK, BatcherAssumption
  <1>4. wait = 1 /\ batchLock # "process"
    BY <1>1, <1>2 DEF BatcherInv, LockOK, BatcherAssumption
  <1>5. /\ stored \in [Slots -> Clients \cup {Nil}]
        /\ stored[id] = x /\ \A i \in Slots : stored[i] \in Stored \cup {x, Nil}
        /\ \A i \in Slots \ {id} : stored[i] = dataSlice[i]
    BY <1>1, <1>3 DEF Stored
  <1>6. \A i, j \in Slots : stored[i] = stored[j] /\ stored[i] # Nil => i = j
    <2>1. \A i \in Slots : dataSlice[i] # x
      BY <1>1 DEF Stored
    <2>2. \A i, j \in Slots : dataSlice[i] = dataSlice[j] /\ dataSlice[i] # Nil => i = j
      BY DEF BatcherInv, OnePlace
    <2> QED
      BY <1>1, <1>3, <2>1, <2>2
  <1> HIDE DEF stored, id, x
  <1>7. \A i \in 1..BatchLength : i - 1 \in Slots /\ i = (i - 1) + 1
    BY <1>3 DEF Slots
  <1>8. /\ datas \in Seq(Clients \cup {Nil}) /\ DOMAIN datas = 1..BatchLength
        /\ \A i \in 1..BatchLength : datas[i] = stored[i - 1]
    BY <1>3, <1>5, <1>7
  <1>9. \A i, j \in DOMAIN datas : datas[i] = datas[j] /\ datas[i] # Nil => i = j
    <2> SUFFICES ASSUME NEW i \in 1..BatchLength, NEW j \in 1..BatchLength,
                        stored[i - 1] = stored[j - 1], stored[i - 1] # Nil
                 PROVE  i = j
      BY <1>8
    <2>1. i - 1 = j - 1
      BY <1>6, <1>7
    <2> QED
      BY <2>1
  <1>10. {datas[i] : i \in DOMAIN datas} \ {Nil} \subseteq Stored \cup {x}
    BY <1>5, <1>7, <1>8
  <1> HIDE DEF datas
  <1>11. /\ flight'.datas = datas /\ flight'.step = "send" /\ flight'.gen = gen
         /\ flight'.cut = BatchLength
    BY <1>2
  <1>12. /\ Queued' = {} /\ Stored' = {} /\ Over' = Over /\ Submitted' = Submitted
         /\ Flying' \subseteq Stored \cup {x}
    <2>1. Stored' = {}
      BY <1>2 DEF Stored, Empty
    <2>2. Flying' \subseteq Stored \cup {x}
      BY <1>10, <1>11 DEF Flying
    <2> QED
      BY <1>2, <2>1, <2>2 DEF Queued, Over, Submitted
  <1>13. SwapsCounted' /\ gen' \in Generations
    <2>1. Gone \subseteq Gone' /\ x \in Gone' /\ x \notin Gone
      BY <1>1, <1>12 DEF Gone
    <2> QED
      BY <1>2, <2>1, GoneAtSwap DEF BatcherInv
  <1>14. TypeOK'
    <2>1. dataSlice' \in [Slots -> Clients \cup {Nil}] /\ nextFreeIndex' \in Slots
      BY <1>2, <1>3 DEF Empty, Slots
    <2> QED
      BY <1>2, <1>13, <2>1 DEF BatcherInv, TypeOK
  <1>15. FlightOK'
    <2>1. flight' \in [step : {"none", "reset", "swap", "send"}, cut : Nat,
                       datas : Seq(Clients \cup {Nil}), gen : Generations]
      BY <1>2, <1>3, <1>8
    <2> QED
      BY <1>2, <1>11, <2>1 DEF FlightOK, BatcherAssumption
  <1>16. LockOK'
    BY <1>2, <1>4 DEF BatcherInv, LockOK
  <1>17. OnePlace'
    <2>1. /\ Queued' \cup Stored' \cup Flying' \cup Over' \subseteq Submitted'
          /\ Queued' \cap (Stored' \cup Flying' \cup Over') = {}
          /\ Stored' \cap (Flying' \cup Over') = {}
          /\ Flying' \cap Over' = {}
      BY <1>1, <1>12 DEF BatcherInv, OnePlace
    <2>2. \A i, j \in Slots : dataSlice'[i] = dataSlice'[j] /\ dataSlice'[i] # Nil => i = j
      BY <1>2 DEF Empty
    <2>3. AppliedAtMostOnce'
      BY <1>2 DEF BatcherInv, OnePlace, AppliedAtMostOnce
    <2> QED
      BY <1>9, <1>11, <2>1, <2>2, <2>3 DEF OnePlace
  <1> QED
    BY <1>13, <1>14, <1>15, <1>16, <1>17 DEF BatcherInv

-----------------------------------------------------------------------------
(* The steps of the timer goroutine *)

LEMMA TimerReadKeeps ==
    ASSUME BatcherAssumption, BatcherInv, TimerRead
    PROVE  BatcherInv'
  <1>1. /\ flight' = [step |-> "reset", cut |-> nextFreeIndex, datas |-> <<>>, gen |-> 1]
        /\ batchLock = Nil /\ batchLock' = "timer" /\ dataSlice[0] # Nil
        /\ UNCHANGED <<nextFreeIndex, dataSlice, gen, outputs, inputChan, wait, lock, pc, index,
                       reread, channel, answer, applied>>
    BY DEF TimerRead, Grounded
  <1>2. nextFreeIndex \in Slots /\ Slots \subseteq Nat /\ 1 \in Generations
    <2>1. Cardinality(Clients) \in Nat
      BY FS_CardinalityType DEF BatcherAssumption
    <2> QED
      BY <2>1 DEF BatcherInv, TypeOK, Slots, Generations
  <1>3. TypeOK'
    BY <1>1 DEF BatcherInv, TypeOK
  <1>4. FlightOK'
    BY <1>1, <1>2 DEF FlightOK, BatcherAssumption
  <1>5. LockOK'
    BY <1>1 DEF BatcherInv, LockOK, BatcherAssumption
  <1>6. flight.datas = <<>> /\ flight'.datas = <<>>
    BY <1>1 DEF BatcherInv, FlightOK
  <1>7. Queued' = Queued /\ Stored' = Stored /\ Flying' = {} /\ Over' = Over /\ Submitted' = Submitted
    BY <1>1, <1>6 DEF Queued, Stored, Flying, Over, Submitted
  <1>8. OnePlace'
    BY <1>1, <1>6, <1>7 DEF BatcherInv, OnePlace, AppliedAtMostOnce
  <1>9. SwapsCounted'
    BY <1>1, <1>7 DEF BatcherInv, SwapsCounted, Gone
  <1> QED
    BY <1>3, <1>4, <1>5, <1>8, <1>9 DEF BatcherInv

LEMMA TimerResetKeeps ==
    ASSUME BatcherAssumption, BatcherInv, TimerReset
    PROVE  BatcherInv'
  <1>1. /\ flight.step = "reset" /\ flight' = [flight EXCEPT !.step = "swap"] /\ nextFreeIndex' = 0
        /\ UNCHANGED <<dataSlice, gen, outputs, inputChan, wait, lock, batchLock, pc, index,
                       reread, channel, answer, applied>>
    BY DEF TimerReset
  <1>2. TypeOK'
    BY <1>1 DEF BatcherInv, TypeOK, Slots, BatcherAssumption
  <1>3. FlightOK'
    BY <1>1 DEF BatcherInv, FlightOK
  <1>4. LockOK'
    BY <1>1 DEF BatcherInv, LockOK
  <1>5. flight'.datas = flight.datas
    BY <1>1 DEF BatcherInv, FlightOK
  <1>6. Queued' = Queued /\ Stored' = Stored /\ Flying' = Flying /\ Over' = Over /\ Submitted' = Submitted
    BY <1>1, <1>5 DEF Queued, Stored, Flying, Over, Submitted
  <1>7. OnePlace'
    BY <1>1, <1>5, <1>6 DEF BatcherInv, OnePlace, AppliedAtMostOnce
  <1>8. SwapsCounted'
    BY <1>1, <1>6 DEF BatcherInv, SwapsCounted, Gone
  <1> QED
    BY <1>2, <1>3, <1>4, <1>7, <1>8 DEF BatcherInv

\* The swap by the timer: it takes the first slots out, and forgets the others.
LEMMA TimerSwapKeeps ==
    ASSUME BatcherAssumption, BatcherInv, TimerSwap
    PROVE  BatcherInv'
  <1> DEFINE datas == [i \in 1..flight.cut |-> dataSlice[i - 1]]
             x == dataSlice[0]
  <1>1. /\ flight.step = "swap" /\ dataSlice' = Empty /\ gen' = gen + 1
        /\ flight' = [flight EXCEPT !.step = "send", !.gen = gen, !.datas = datas]
        /\ UNCHANGED <<nextFreeIndex, outputs, inputChan, wait, lock, batchLock, pc, index,
                       reread, channel, answer, applied>>
    BY DEF TimerSwap, Renewed
  <1>2. /\ dataSlice \in [Slots -> Clients \cup {Nil}] /\ gen \in Generations
        /\ BatchLength \in Nat \ {0} /\ flight.cut \in Slots /\ 0 \in Slots /\ dataSlice[0] # Nil
        /\ flight \in [step : {"none", "reset", "swap", "send"}, cut : Nat,
                       datas : Seq(Clients \cup {Nil}), gen : Generations]
        /\ flight.datas = <<>>
    <2>1. dataSlice \in [Slots -> Clients \cup {Nil}] /\ gen \in Generations
      BY DEF BatcherInv, TypeOK
    <2>2. BatchLength \in Nat \ {0} /\ 0 \in Slots
      BY DEF BatcherAssumption, Slots
    <2> QED
      BY <1>1, <2>1, <2>2 DEF BatcherInv, FlightOK
  <1>3. x \in Stored /\ x \in Clients /\ x \in Submitted
    BY <1>2 DEF Stored, BatcherInv, OnePlace
  <1>4. flight.cut \in Nat /\ \A i \in 1..flight.cut : i - 1 \in Slots /\ i = (i - 1) + 1
    BY <1>2 DEF Slots
  <1>5. /\ datas \in Seq(Clients \cup {Nil}) /\ DOMAIN datas = 1..flight.cut
        /\ \A i \in 1..flight.cut : datas[i] = dataSlice[i - 1]
    BY <1>2, <1>4
  <1>6. \A i, j \in DOMAIN datas : datas[i] = datas[j] /\ datas[i] # Nil => i = j
    <2> SUFFICES ASSUME NEW i \in 1..flight.cut, NEW j \in 1..flight.cut,
                        dataSlice[i - 1] = dataSlice[j - 1], dataSlice[i - 1] # Nil
                 PROVE  i = j
      BY <1>5
    <2>1. i - 1 = j - 1
      BY <1>4 DEF BatcherInv, OnePlace
    <2> QED
      BY <1>4, <2>1
  <1>7. {datas[i] : i \in DOMAIN datas} \ {Nil} \subseteq Stored
    BY <1>4, <1>5 DEF Stored
  <1> HIDE DEF datas, x
  <1>8. /\ flight'.datas = datas /\ flight'.step = "send" /\ flight'.gen = gen
        /\ flight'.cut = flight.cut
    BY <1>1, <1>2
  <1>9. /\ Queued' = Queued /\ Stored' = {} /\ Over' = Over /\ Submitted' = Submitted
        /\ Flying' \subseteq Stored
    <2>1. Stored' = {}
      BY <1>1 DEF Stored, Empty
    <2>2. Flying' \subseteq Stored
      BY <1>7, <1>8 DEF Flying
    <2> QED
      BY <1>1, <2>1, <2>2 DEF Queued, Over, Submitted
  <1>10. SwapsCounted' /\ gen' \in Generations
    <2>1. Gone \subseteq Gone' /\ x \in Gone' /\ x \notin Gone
      BY <1>3, <1>9 DEF Gone, BatcherInv, OnePlace
    <2> QED
      BY <1>1, <2>1, GoneAtSwap DEF BatcherInv
  <1>11. TypeOK'
    <2>1. dataSlice' \in [Slots -> Clients \cup {Nil}]
      BY <1>1 DEF Empty
    <2> QED
      BY <1>1, <1>10, <2>1 DEF BatcherInv, TypeOK
  <1>12. FlightOK'
    <2>1. flight' \in [step : {"none", "reset", "swap", "send"}, cut : Nat,
                       datas : Seq(Clients \cup {Nil}), gen : Generations]
      BY <1>1, <1>2, <1>5
    <2> QED
      BY <1>1, <1>8, <2>1 DEF BatcherInv, FlightOK
  <1>13. LockOK'
    BY <1>1 DEF BatcherInv, LockOK
  <1>14. OnePlace'
    <2>1. /\ Queued' \cup Stored' \cup Flying' \cup Over' \subseteq Submitted'
          /\ Queued' \cap (Stored' \cup Flying' \cup Over') = {}
          /\ Stored' \cap (Flying' \cup Over') = {}
          /\ Flying' \cap Over' = {}
      BY <1>9 DEF BatcherInv, OnePlace
    <2>2. \A i, j \in Slots : dataSlice'[i] = dataSlice'[j] /\ dataSlice'[i] # Nil => i = j
      BY <1>1 DEF Empty
    <2>3. AppliedAtMostOnce'
      BY <1>1 DEF BatcherInv, OnePlace, AppliedAtMostOnce
    <2> QED
      BY <1>6, <1>8, <2>1, <2>2, <2>3 DEF OnePlace
  <1> QED
    BY <1>10, <1>11, <1>12, <1>13, <1>14 DEF BatcherInv

-----------------------------------------------------------------------------
(* The steps of sendLogs *)

\* One result after another is put in the channels of the generation.
LEMMA SendToType ==
    ASSUME TypeOK, NEW g \in Generations, NEW r, SendTo(g, r),
           \A i \in DOMAIN r : r[i] \in Clients \cup {Nil, ErrResult}
    PROVE  outputs' \in [Generations -> [Slots -> Clients \cup {Nil, ErrResult}]]
  <1> DEFINE row == [i \in Slots |-> IF i + 1 \in DOMAIN r THEN r[i + 1] ELSE outputs[g][i]]
             T == Clients \cup {Nil, ErrResult}
  <1>1. outputs' = [outputs EXCEPT ![g] = row]
    BY DEF SendTo
  <1>2. outputs \in [Generations -> [Slots -> T]]
    BY DEF TypeOK
  <1>3. \A i \in Slots : (IF i + 1 \in DOMAIN r THEN r[i + 1] ELSE outputs[g][i]) \in T
    BY <1>2
  <1>4. row \in [Slots -> T]
    BY <1>3
  <1> HIDE DEF row, T
  <1>5. outputs' \in [Generations -> [Slots -> T]]
    BY <1>1, <1>2, <1>4
  <1> QED
    BY <1>5 DEF T

\* The logs of the batch are applied after the others, or not at all.
LEMMA LandKeeps ==
    ASSUME BatcherAssumption, BatcherInv, flight.step = "send", Land,
           applied' \in {applied, applied \o Results(flight.datas)},
           outputs' \in [Generations -> [Slots -> Clients \cup {Nil, ErrResult}]]
    PROVE  BatcherInv'
  <1> DEFINE r == Results(flight.datas)
  <1>1. /\ flight' = Grounded /\ batchLock' = Nil
        /\ wait' = IF batchLock = "process" THEN wait - 1 ELSE wait
        /\ UNCHANGED <<nextFreeIndex, dataSlice, gen, inputChan, lock, pc, index, reread,
                       channel, answer>>
    BY DEF Land
  <1>2. r \in Seq(Clients) /\ Distinct(r) /\ Logs(r) \subseteq Flying
    <2>1. flight.datas \in Seq(Clients \cup {Nil})
      BY DEF BatcherInv, FlightOK
    <2>2. Distinct(flight.datas)
      BY DEF BatcherInv, OnePlace, Distinct
    <2>3. Logs(flight.datas) = Flying
      BY DEF Flying, Logs
    <2> QED
      BY <2>1, <2>2, <2>3, ResultsOnce
  <1> HIDE DEF r
  <1>3. \A i \in DOMAIN r : r[i] \in Clients /\ r[i] # Nil /\ r[i] \in Flying
    BY <1>2 DEF Logs, BatcherAssumption
  <1>4. applied \in Seq(Clients)
    BY DEF BatcherInv, TypeOK
  <1>5. /\ applied' \in Seq(Clients) /\ Over' \subseteq Over \cup Flying
        /\ AppliedAtMostOnce'
    <2>1. CASE applied' = applied
      BY <1>4, <2>1 DEF Over, BatcherInv, OnePlace, AppliedAtMostOnce
    <2>2. CASE applied' = applied \o r
      <3>1. /\ applied' \in Seq(Clients) /\ Len(applied) \in Nat /\ Len(r) \in Nat
            /\ DOMAIN applied' = 1..(Len(applied) + Len(r))
            /\ DOMAIN applied = 1..Len(applied) /\ DOMAIN r = 1..Len(r)
        BY <1>2, <1>4, <2>2
      <3>2. \A i \in 1..(Len(applied) + Len(r)) :
              applied'[i] = IF i <= Len(applied) THEN applied[i] ELSE r[i - Len(applied)]
        BY <1>2, <1>4, <2>2, ConcatProperties
      <3>3. ASSUME NEW i \in DOMAIN applied'
            PROVE  \/ i \in DOMAIN applied /\ applied'[i] = applied[i] /\ applied[i] \in Over
                   \/ i - Len(applied) \in DOMAIN r /\ applied'[i] = r[i - Len(applied)]
        <4>1. CASE i <= Len(applied)
          BY <3>1, <3>2, <4>1 DEF Over
        <4>2. CASE ~(i <= Len(applied))
          BY <3>1, <3>2, <4>2
        <4> QED
          BY <4>1, <4>2
      <3>4. Over' \subseteq Over \cup Flying
        BY <1>3, <3>3 DEF Over
      <3>5. Flying \cap Over = {}
        BY DEF BatcherInv, OnePlace
      <3>6. ASSUME NEW i \in DOMAIN applied', NEW j \in DOMAIN applied', applied'[i] = applied'[j]
            PROVE  i = j
        <4>1. CASE i \in DOMAIN applied /\ j \in DOMAIN applied
          <5>1. applied'[i] = applied[i] /\ applied'[j] = applied[j]
            BY <3>1, <3>2, <4>1
          <5> QED
            BY <3>6, <4>1, <5>1 DEF BatcherInv, OnePlace, AppliedAtMostOnce
        <4>2. CASE i - Len(applied) \in DOMAIN r /\ j - Len(applied) \in DOMAIN r
          <5>1. applied'[i] = r[i - Len(applied)] /\ applied'[j] = r[j - Len(applied)]
            BY <3>1, <3>2, <4>2
          <5>2. i - Len(applied) = j - Len(applied)
            BY <1>2, <1>3, <3>6, <4>2, <5>1 DEF Distinct
          <5> QED
            BY <3>1, <5>2
        <4> QED
          BY <1>3, <3>3, <3>5, <3>6, <4>1, <4>2
      <3> QED
        BY <3>1, <3>4, <3>6 DEF AppliedAtMostOnce
    <2> QED
      BY <2>1, <2>2 DEF r
  <1>6. /\ flight'.step = "none" /\ flight'.datas = <<>> /\ 1 \in Generations
    <2>1. Cardinality(Clients) \in Nat
      BY FS_CardinalityType DEF BatcherAssumption
    <2> QED
      BY <1>1, <2>1 DEF Grounded, Generations
  <1>7. /\ wait' = Len(inputChan') /\ wait' \in 0..1 /\ batchLock' # "process"
        /\ wait' # 0 => wait # 0
    <2>1. inputChan \in Seq(Slots \X Clients) /\ Len(inputChan) \in Nat /\ Len(inputChan) <= 1
      BY DEF BatcherInv, TypeOK
    <2>2. wait = Len(inputChan) + (IF batchLock = "process" THEN 1 ELSE 0) /\ inputChan' = inputChan
      BY <1>1 DEF BatcherInv, LockOK
    <2>3. batchLock' # "process"
      BY <1>1 DEF BatcherAssumption
    <2> QED
      BY <1>1, <2>1, <2>2, <2>3
  <1>8. TypeOK'
    BY <1>1, <1>5, <1>7 DEF BatcherInv, TypeOK
  <1>9. FlightOK'
    <2>1. flight' \in [step : {"none", "reset", "swap", "send"}, cut : Nat,
                       datas : Seq(Clients \cup {Nil}), gen : Generations]
      BY <1>1, <1>6 DEF Grounded
    <2> QED
      BY <1>1, <1>6, <1>7, <2>1 DEF FlightOK
  <1>10. LockOK'
    BY <1>1, <1>7 DEF BatcherInv, LockOK
  <1>11. Queued' = Queued /\ Stored' = Stored /\ Flying' = {} /\ Submitted' = Submitted
    BY <1>1, <1>6 DEF Queued, Stored, Flying, Submitted
  <1>12. OnePlace'
    <2>1. /\ Queued' \cup Stored' \cup Flying' \cup Over' \subseteq Submitted'
          /\ Queued' \cap (Stored' \cup Flying' \cup Over') = {}
          /\ Stored' \cap (Flying' \cup Over') = {}
          /\ Flying' \cap Over' = {}
      BY <1>5, <1>11 DEF BatcherInv, OnePlace
    <2> QED
      BY <1>1, <1>5, <1>6, <2>1 DEF BatcherInv, OnePlace
  <1>13. SwapsCounted'
    BY <1>1, <1>11 DEF BatcherInv, SwapsCounted, Gone
  <1> QED
    BY <1>8, <1>9, <1>10, <1>12, <1>13 DEF BatcherInv

LEMMA ApplyLogKeeps ==
    ASSUME BatcherAssumption, BatcherInv, ApplyLog
    PROVE  BatcherInv'
  <1>1. /\ Results(flight.datas) \in Seq(Clients) /\ flight.gen \in Generations
    <2>1. flight.datas \in Seq(Clients \cup {Nil}) /\ flight.gen \in Generations
      BY DEF BatcherInv, FlightOK
    <2>2. Distinct(flight.datas)
      BY DEF BatcherInv, OnePlace, Distinct
    <2> QED
      BY <2>1, <2>2, ResultsOnce
  <1>2. \A i \in DOMAIN Results(flight.datas) :
          Results(flight.datas)[i] \in Clients \cup {Nil, ErrResult}
    BY <1>1
  <1>3. outputs' \in [Generations -> [Slots -> Clients \cup {Nil, ErrResult}]]
    BY <1>1, <1>2, SendToType DEF ApplyLog, BatcherInv
  <1> QED
    BY <1>3, LandKeeps DEF ApplyLog

LEMMA ApplyLogFailsKeeps ==
    ASSUME BatcherAssumption, BatcherInv, ApplyLogFails
    PROVE  BatcherInv'
  <1> DEFINE r == [i \in DOMAIN flight.datas |-> ErrResult]
  <1>1. flight.gen \in Generations
    BY DEF BatcherInv, FlightOK
  <1>2. \A i \in DOMAIN r : r[i] \in Clients \cup {Nil, ErrResult}
    OBVIOUS
  <1>3. SendTo(flight.gen, r)
    BY DEF ApplyLogFails
  <1> HIDE DEF r
  <1>4. outputs' \in [Generations -> [Slots -> Clients \cup {Nil, ErrResult}]]
    BY <1>1, <1>2, <1>3, SendToType DEF BatcherInv
  <1> QED
    BY <1>4, LandKeeps DEF ApplyLogFails

-----------------------------------------------------------------------------
(* The theorems *)

LEMMA StutterKeeps ==
    ASSUME BatcherInv, UNCHANGED vars
    PROVE  BatcherInv'
  <1>1. TypeOK' /\ FlightOK' /\ LockOK'
    BY DEF BatcherInv, vars, TypeOK, FlightOK, LockOK
  <1>2. Submitted' = Submitted
    BY DEF vars, Submitted
  <1> QED
    BY <1>1, <1>2, PlacesKept DEF BatcherInv, vars

LEMMA NextKeeps ==
    ASSUME BatcherAssumption, BatcherInv, [Next]_vars
    PROVE  BatcherInv'
  <1>1. ASSUME NEW c \in Clients, SendLog(c) \/ Receive(c)
        PROVE  BatcherInv'
    BY <1>1, TakeIndexKeeps, RereadKeeps, SubmitKeeps, ReturnKeeps, ReceiveKeeps DEF SendLog
  <1>2. CASE Process
    BY <1>2, StoreKeeps, StoreLastKeeps DEF Process
  <1>3. CASE TimerSkip \/ UNCHANGED vars
    BY <1>3, StutterKeeps DEF TimerSkip
  <1>4. CASE Timer
    BY <1>4, TimerReadKeeps, TimerResetKeeps, TimerSwapKeeps DEF Timer
  <1>5. CASE Raft
    BY <1>5, ApplyLogKeeps, ApplyLogFailsKeeps DEF Raft
  <1> QED
    BY <1>1, <1>2, <1>3, <1>4, <1>5 DEF Next

\* Every behaviour of the batcher keeps the invariant.
THEOREM BatcherInvariant == Spec => []BatcherInv
  <1>1. Init => BatcherInv
    BY InitInv, BatcherAssumption
  <1>2. BatcherInv /\ [Next]_vars => BatcherInv'
    BY NextKeeps, BatcherAssumption
  <1> QED
    BY <1>1, <1>2, PTL DEF Spec

\* The state of fsm/batcher.go keeps its type for any number of requests and any
\* batchLength: nextFreeIndex stays inside the slice whichever goroutine resets it, at
\* most one log waits in inputChan, the WaitGroup never goes below zero, and a swap takes
\* out at least one log.
THEOREM BatcherTypeCorrect == Spec => []TypeOK
  <1>1. BatcherInv => TypeOK
    BY DEF BatcherInv
  <1> QED
    BY <1>1, BatcherInvariant, PTL

\* Whichever of the two goroutines of ProcessLogs flushes, and although nextFreeIndex is
\* written without the lock that SendLog holds, ApplyLog never hands a log to the state
\* machine twice.
THEOREM NoLogAppliedTwice == Spec => []AppliedAtMostOnce
  <1>1. BatcherInv => AppliedAtMostOnce
    BY DEF BatcherInv, OnePlace
  <1> QED
    BY <1>1, BatcherInvariant, PTL

=============================================================================
