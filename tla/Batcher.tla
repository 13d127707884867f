------------------------------ MODULE Batcher ------------------------------
(***************************************************************************)
(* The batcher between the request handlers and Raft (fsm/batcher.go).     *)
(*                                                                         *)
(* Request goroutines call SendLog, which holds b.lock; one goroutine of   *)
(* ProcessLogs stores entries in the current batch, another flushes it     *)
(* when the timer fires; both hold b.batchLock.  nextFreeIndex and         *)
(* outputChans are read and written under different locks, so every        *)
(* access to them is a step of its own.  A batch and its output channels   *)
(* are swapped together and are named here by a generation number.         *)
(***************************************************************************)
EXTENDS Integers, Sequences, FiniteSets, SequencesExt

CONSTANTS
    Clients,       \* request goroutines; each sends one log, named after it
    BatchLength,   \* b.batchLength
    Nil,           \* an empty slot, an empty channel
    ErrResult,     \* the nil result sent when ApplyLog fails
    RaftMayFail    \* may ApplyLog return an error

ASSUME BatcherAssumption ==
    /\ BatchLength \in Nat \ {0}
    /\ IsFiniteSet(Clients)
    /\ RaftMayFail \in BOOLEAN
    /\ Nil \notin Clients \cup {"process", "timer"} /\ ErrResult \notin Clients

VARIABLES
    nextFreeIndex,
    dataSlice,   \* the current batch
    gen,         \* which outputChans is current
    outputs,     \* the channels of every generation, each of capacity 1
    inputChan,
    wait,        \* the WaitGroup's counter
    lock,        \* who holds b.lock
    batchLock,   \* who holds b.batchLock
    flight,      \* the batch a flusher is working on
    pc,          \* where each client is in SendLog
    index,       \* its currentIndex
    reread,      \* the value of nextFreeIndex it increments
    channel,     \* the channel SendLog returned to it
    answer,      \* what it received there
    applied      \* the logs the state machine has applied

vars == <<nextFreeIndex, dataSlice, gen, outputs, inputChan, wait, lock, batchLock,
          flight, pc, index, reread, channel, answer, applied>>

Slots == 0..(BatchLength - 1)
Empty == [i \in Slots |-> Nil]

\* Every flush empties a batch that holds at least one log.
Generations == 1..(Cardinality(Clients) + 1)

TypeOK ==
    /\ nextFreeIndex \in Slots
    /\ dataSlice \in [Slots -> Clients \cup {Nil}]
    /\ gen \in Generations
    /\ outputs \in [Generations -> [Slots -> Clients \cup {Nil, ErrResult}]]
    /\ inputChan \in Seq(Slots \X Clients) /\ Len(inputChan) <= 1
    /\ wait \in 0..1
    /\ lock \in Clients \cup {Nil}
    /\ batchLock \in {Nil, "process", "timer"}
    /\ pc \in [Clients -> {"idle", "reread", "submit", "wait", "await", "done"}]
    /\ index \in [Clients -> Slots]
    /\ reread \in [Clients -> Slots]
    /\ channel \in [Clients -> Generations \X Slots]
    /\ answer \in [Clients -> Clients \cup {Nil, ErrResult}]
    /\ applied \in Seq(Clients)

Grounded == [step |-> "none", cut |-> 0, datas |-> <<>>, gen |-> 1]

Init ==
    /\ nextFreeIndex = 0
    /\ dataSlice = Empty
    /\ gen = 1
    /\ outputs = [g \in Generations |-> Empty]
    /\ inputChan = <<>>
    /\ wait = 0
    /\ lock = Nil
    /\ batchLock = Nil
    /\ flight = Grounded
    /\ pc = [c \in Clients |-> "idle"]
    /\ index = [c \in Clients |-> 0]
    /\ reread = [c \in Clients |-> 0]
    /\ channel = [c \in Clients |-> <<1, 0>>]
    /\ answer = [c \in Clients |-> Nil]
    /\ applied = <<>>

-----------------------------------------------------------------------------
(* SendLog and the wait for the answer *)

\* b.lock.Lock(); currentIndex := b.nextFreeIndex
TakeIndex(c) ==
    /\ pc[c] = "idle"
    /\ lock = Nil
    /\ lock' = c
    /\ index' = [index EXCEPT ![c] = nextFreeIndex]
    /\ pc' = [pc EXCEPT ![c] = "reread"]
    /\ UNCHANGED <<nextFreeIndex, dataSlice, gen, outputs, inputChan, wait, batchLock,
                   flight, reread, channel, answer, applied>>

\* The read of nextFreeIndex in the increment
Reread(c) ==
    /\ pc[c] = "reread"
    /\ reread' = [reread EXCEPT ![c] = nextFreeIndex]
    /\ pc' = [pc EXCEPT ![c] = "submit"]
    /\ UNCHANGED <<nextFreeIndex, dataSlice, gen, outputs, inputChan, wait, lock, batchLock,
                   flight, index, channel, answer, applied>>

\* Mutant of Submit: the index does not wrap around.
SubmitWithoutWrap(c) ==
    /\ pc[c] = "submit"
    /\ nextFreeIndex' = reread[c] + 1
    /\ wait' = wait + 1
    /\ inputChan' = Append(inputChan, <<index[c], c>>)
    /\ pc' = [pc EXCEPT ![c] = "wait"]
    /\ UNCHANGED <<dataSlice, gen, outputs, lock, batchLock, flight, index, reread,
                   channel, answer, applied>>

\* The write of the increment, wait.Add(1), inputChan <- indexData
Submit(c) ==
    /\ pc[c] = "submit"
    /\ nextFreeIndex' = (reread[c] + 1) % BatchLength
    /\ wait' = wait + 1
    /\ inputChan' = Append(inputChan, <<index[c], c>>)
    /\ pc' = [pc EXCEPT ![c] = "wait"]
    /\ UNCHANGED <<dataSlice, gen, outputs, lock, batchLock, flight, index, reread,
                   channel, answer, applied>>

\* wait.Wait(); return (*b.outputChans)[currentIndex]
Return(c) ==
    /\ pc[c] = "wait"
    /\ wait = 0
    /\ channel' = [channel EXCEPT ![c] = <<gen, index[c]>>]
    /\ lock' = Nil
    /\ pc' = [pc EXCEPT ![c] = "await"]
    /\ UNCHANGED <<nextFreeIndex, dataSlice, gen, outputs, inputChan, wait, batchLock,
                   flight, index, reread, answer, applied>>

\* handler.sendCommand: sybResult := <-chanReturn, without a timeout
Receive(c) ==
    LET g == channel[c][1]
        i == channel[c][2]
    IN  /\ pc[c] = "await"
        /\ outputs[g][i] # Nil
        /\ answer' = [answer EXCEPT ![c] = outputs[g][i]]
        /\ outputs' = [outputs EXCEPT ![g][i] = Nil]
        /\ pc' = [pc EXCEPT ![c] = "done"]
        /\ UNCHANGED <<nextFreeIndex, dataSlice, gen, inputChan, wait, lock, batchLock,
                       flight, index, reread, channel, applied>>

-----------------------------------------------------------------------------
(* ProcessLogs: the storing goroutine *)

\* Mutant of Store: the sender is not released.
StoreWithoutDone ==
    LET id == Head(inputChan)[1]
        stored == [dataSlice EXCEPT ![id] = Head(inputChan)[2]]
    IN  /\ inputChan # <<>> /\ id # BatchLength - 1
        /\ batchLock = Nil
        /\ inputChan' = Tail(inputChan)
        /\ dataSlice' = stored
        /\ UNCHANGED <<nextFreeIndex, gen, outputs, wait, lock, batchLock, flight, pc, index,
                       reread, channel, answer, applied>>

\* A slot other than the last: store, release the sender.
Store ==
    LET id == Head(inputChan)[1]
        stored == [dataSlice EXCEPT ![id] = Head(inputChan)[2]]
    IN  /\ inputChan # <<>> /\ id # BatchLength - 1
        /\ batchLock = Nil
        /\ inputChan' = Tail(inputChan)
        /\ dataSlice' = stored
        /\ wait' = wait - 1
        /\ UNCHANGED <<nextFreeIndex, gen, outputs, lock, batchLock, flight, pc, index,
                       reread, channel, answer, applied>>

\* The last slot: the batch is full, swap it; its sender is released after the flush.
StoreLast ==
    LET id == Head(inputChan)[1]
        stored == [dataSlice EXCEPT ![id] = Head(inputChan)[2]]
    IN  /\ inputChan # <<>> /\ id = BatchLength - 1
        /\ batchLock = Nil
        /\ inputChan' = Tail(inputChan)
        /\ nextFreeIndex' = 0
        /\ flight' = [step |-> "send", cut |-> BatchLength, gen |-> gen,
                      datas |-> [i \in 1..BatchLength |-> stored[i - 1]]]
        /\ dataSlice' = Empty
        /\ gen' = gen + 1
        /\ batchLock' = "process"
        /\ UNCHANGED <<outputs, wait, lock, pc, index, reread, channel, answer, applied>>

-----------------------------------------------------------------------------
(* ProcessLogs: the timer goroutine *)

\* The timer fires and the first slot is empty.
TimerSkip ==
    /\ batchLock = Nil
    /\ dataSlice[0] = Nil
    /\ UNCHANGED vars

\* currentIndex := b.nextFreeIndex, under batchLock but not under b.lock
TimerRead ==
    /\ batchLock = Nil
    /\ dataSlice[0] # Nil
    /\ batchLock' = "timer"
    /\ flight' = [Grounded EXCEPT !.step = "reset", !.cut = nextFreeIndex]
    /\ UNCHANGED <<nextFreeIndex, dataSlice, gen, outputs, inputChan, wait, lock, pc, index,
                   reread, channel, answer, applied>>

\* b.nextFreeIndex = 0
TimerReset ==
    /\ flight.step = "reset"
    /\ nextFreeIndex' = 0
    /\ flight' = [flight EXCEPT !.step = "swap"]
    /\ UNCHANGED <<dataSlice, gen, outputs, inputChan, wait, lock, batchLock, pc, index,
                   reread, channel, answer, applied>>

\* Mutant of Renewed: the next batch starts with the slots of this one.
Kept(slice) == slice

Renewed(slice) == Empty

\* datas := b.dataSlice[0:currentIndex]; a new slice and new channels
TimerSwap ==
    /\ flight.step = "swap"
    /\ flight' = [flight EXCEPT !.step = "send", !.gen = gen,
                                !.datas = [i \in 1..flight.cut |-> dataSlice[i - 1]]]
    /\ dataSlice' = Renewed(dataSlice)
    /\ gen' = gen + 1
    /\ UNCHANGED <<nextFreeIndex, outputs, inputChan, wait, lock, batchLock, pc, index,
                   reread, channel, answer, applied>>

-----------------------------------------------------------------------------
(* sendLogs *)

\* syblineFSM.Apply skips empty entries: the results are those of the others.
Results(datas) == FoldLeft(LAMBDA acc, d : IF d = Nil THEN acc ELSE Append(acc, d), <<>>, datas)

\* A send on a channel that already holds a result would block.
SendTo(g, results) ==
    /\ \A i \in DOMAIN results : outputs[g][i - 1] = Nil
    /\ outputs' = [outputs EXCEPT ![g] =
                     [i \in Slots |-> IF i + 1 \in DOMAIN results THEN results[i + 1] ELSE @[i]]]

\* The flusher leaves: batchLock is released, and the sender of the last slot too.
Land ==
    /\ flight' = Grounded
    /\ batchLock' = Nil
    /\ wait' = IF batchLock = "process" THEN wait - 1 ELSE wait
    /\ UNCHANGED <<nextFreeIndex, dataSlice, gen, inputChan, lock, pc, index, reread,
                   channel, answer>>

ApplyLog ==
    /\ flight.step = "send"
    /\ applied' = applied \o Results(flight.datas)
    /\ SendTo(flight.gen, Results(flight.datas))
    /\ Land

\* An error leaves open whether the entry was committed.
ApplyLogFails ==
    /\ flight.step = "send"
    /\ RaftMayFail
    /\ applied' \in {applied, applied \o Results(flight.datas)}
    /\ SendTo(flight.gen, [i \in DOMAIN flight.datas |-> ErrResult])
    /\ Land

-----------------------------------------------------------------------------
(* Specification *)

SendLog(c) == TakeIndex(c) \/ Reread(c) \/ Submit(c) \/ Return(c)

Process == Store \/ StoreLast
Timer == TimerRead \/ TimerReset \/ TimerSwap
Raft == ApplyLog \/ ApplyLogFails

Next ==
    \/ \E c \in Clients : SendLog(c) \/ Receive(c)
    \/ Process
    \/ TimerSkip
    \/ Timer
    \/ Raft

Spec == Init /\ [][Next]_vars

\* Goroutines are scheduled, mutexes are not starved, the timer fires again after
\* every Reset and Raft answers.
FairSpec ==
    /\ Spec
    /\ \A c \in Clients : WF_vars(SendLog(c)) /\ WF_vars(Receive(c))
    /\ WF_vars(Process) /\ WF_vars(Timer) /\ WF_vars(Raft)

-----------------------------------------------------------------------------
(* Properties *)

\* However timer flushes, full flushes and late stores interleave, no log reaches
\* the state machine twice.
AppliedAtMostOnce == \A i, j \in DOMAIN applied : applied[i] = applied[j] => i = j

\* SendLog always returns: the sender is released whichever goroutine flushes, and
\* no flush blocks on a channel that already holds a result.
SendLogReturns == \A c \in Clients : pc[c] = "reread" ~> pc[c] \in {"await", "done"}

\* The channel SendLog returns carries the result of the log that was sent.
OwnAnswer == \A c \in Clients : answer[c] \in {Nil, ErrResult, c}

\* A log that SendLog took is applied.
NothingDropped == \A c \in Clients : pc[c] = "await" ~> c \in Range(applied)

=============================================================================
