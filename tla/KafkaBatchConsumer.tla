------------------------- MODULE KafkaBatchConsumer -------------------------
(***************************************************************************)
(* The partitioned-log consumer of src/lib/mq/kafka/consumer.go: the       *)
(* batchConsumer of one (group, topic) key, the ConsumeClaim goroutine     *)
(* sarama starts for each claimed partition of that topic in every         *)
(* consumer-group session, the run goroutine that hands batches to the     *)
(* application callback and commits, ReceiveMessage (one Consume call, one *)
(* session) and closeReceive.                                              *)
(*                                                                         *)
(* attach and sendToCallback take no lock: a step of a claim goroutine is  *)
(* one read or write of the shared fields MessageBuffer and currentIndex,  *)
(* and the goroutines of different partitions interleave between them.     *)
(***************************************************************************)
EXTENDS Naturals, Sequences, FiniteSets, Functions

CONSTANTS
    Partitions,     \* the claimed partitions of the topic (one goroutine each)
    NumRecords,     \* records in each partition's log, offsets 0..NumRecords-1
    BatchSize,      \* batchConsumer.BatchSize (already clamped to >= 1)
    BufferLength,   \* capacity of callBackBuffer (bufferLength = 8 in the code)
    ClaimCap,       \* capacity of a claim's Messages() channel
    MaxSessions,    \* bound on the consumer-group sessions (Consume calls)
    Nil             \* a nil pointer / nil slice

ASSUME /\ NumRecords \in Nat \ {0}
       /\ BatchSize \in Nat \ {0}
       /\ BufferLength \in Nat \ {0}
       /\ ClaimCap \in Nat \ {0}
       /\ MaxSessions \in Nat \ {0}

Offsets   == 0..NumRecords-1
Record    == [part: Partitions, off: Offsets]
Rec(p, o) == [part |-> p, off |-> o]
Slots     == 0..BatchSize-1
Batch     == Seq(Record \cup {Nil})

VARIABLES
    fetched,        \* fetched[p]: next offset sarama's fetcher puts on claim p
    claim,          \* claim[p]: records waiting in claim p's Messages() channel
    g,              \* g[p]: pc and locals of the ConsumeClaim goroutine of p
    MessageBuffer,  \* c.MessageBuffer: Nil or a slice [Slots -> Record \cup {Nil}]
    currentIndex,   \* c.currentIndex
    Session,        \* c.Session: the number of the session last stored by attach
    callBackBuffer, \* c.callBackBuffer, a buffered channel of batches
    done,           \* c.done has been closed
    runPc,          \* the run goroutine: "idle", "callback" or "exited"
    inflight,       \* the batch the run goroutine received
    gen,            \* number of the current (or last) consumer-group session
    sess,           \* "idle" (no Consume running), "live" or "ending"
    closer,         \* progress of closeReceive
    committed,      \* committed[p]: the offset the broker holds for partition p
    panicked,       \* a goroutine panicked: the process is gone
    dispatched,     \* history: records ever handed to the callback
    succeeded       \* history: records of batches whose callback returned true

claimVars == <<fetched, claim, g>>
bcVars    == <<MessageBuffer, currentIndex, Session>>
runVars   == <<callBackBuffer, done, runPc, inflight>>
groupVars == <<gen, sess, closer, committed>>
histVars  == <<dispatched, succeeded>>
vars == <<claimVars, bcVars, runVars, groupVars, panicked, histVars>>

PCs == {"recv", "attach", "nilcheck", "make", "write", "incr", "store",
        "check", "copy", "send", "resetBuf", "resetIdx", "exited"}
(* Each claim adds at most one to currentIndex after a write that found it *)
(* below BatchSize.                                                        *)
MaxIndex == BatchSize + Cardinality(Partitions) - 1
Goroutine == [pc: PCs, msg: Offsets, left: 0..ClaimCap, slot: 0..MaxIndex,
              batch: Batch]

TypeOK ==
    /\ fetched \in [Partitions -> 0..NumRecords]
    /\ claim \in [Partitions -> Seq(Offsets)]
    /\ g \in [Partitions -> Goroutine]
    /\ MessageBuffer \in {Nil} \cup [Slots -> Record \cup {Nil}]
    /\ currentIndex \in 0..MaxIndex
    /\ Session \in 0..MaxSessions
    /\ callBackBuffer \in Seq(Batch) /\ Len(callBackBuffer) <= BufferLength
    /\ done \in BOOLEAN
    /\ runPc \in {"idle", "callback", "exited"}
    /\ inflight \in Batch
    /\ gen \in 0..MaxSessions
    /\ sess \in {"idle", "live", "ending"}
    /\ closer \in {"running", "consumersClosed", "closingGroups", "closed"}
    /\ committed \in [Partitions -> 0..NumRecords]
    /\ panicked \in BOOLEAN
    /\ dispatched \subseteq Record /\ succeeded \subseteq dispatched

Init ==
    /\ fetched = [p \in Partitions |-> 0]
    /\ claim = [p \in Partitions |-> <<>>]
    /\ g = [p \in Partitions |->
              [pc |-> "exited", msg |-> 0, left |-> 0, slot |-> 0, batch |-> <<>>]]
    /\ MessageBuffer = Nil /\ currentIndex = 0 /\ Session = 0
    /\ callBackBuffer = <<>> /\ done = FALSE
    /\ runPc = "idle" /\ inflight = <<>>
    /\ gen = 0 /\ sess = "idle" /\ closer = "running"
    /\ committed = [p \in Partitions |-> 0]
    /\ panicked = FALSE
    /\ dispatched = {} /\ succeeded = {}

(* Claim goroutine p is at statement l and moves to l2, updating locals.   *)
At(p, l) == ~panicked /\ g[p].pc = l
Goto(p, l2) == g' = [g EXCEPT ![p].pc = l2]

-----------------------------------------------------------------------------
(* ReceiveMessage: the batchConsumer of the key already exists (created on *)
(* the first call, it persists), grouper.Consume starts a session whose    *)
(* claims resume at the committed offsets (OffsetOldest when none).        *)
ReceiveMessage ==
    /\ ~panicked /\ sess = "idle" /\ closer = "running"
    /\ gen < MaxSessions
    /\ gen' = gen + 1 /\ sess' = "live"
    /\ fetched' = committed
    /\ claim' = [p \in Partitions |-> <<>>]
    /\ g' = [p \in Partitions |-> [g[p] EXCEPT !.pc = "recv"]]
    /\ UNCHANGED <<bcVars, runVars, closer, committed, panicked, histVars>>

(* A server-side rebalance cancels the session: sarama stops fetching and *)
(* closes every claim's Messages() channel.                                *)
Rebalance ==
    /\ ~panicked /\ sess = "live"
    /\ sess' = "ending"
    /\ UNCHANGED <<claimVars, bcVars, runVars, gen, closer, committed,
                   panicked, histVars>>

(* sarama's partition consumer fetches the next record onto the claim.     *)
Fetch(p) ==
    /\ ~panicked /\ sess = "live"
    /\ fetched[p] < NumRecords
    /\ Len(claim[p]) < ClaimCap
    /\ claim' = [claim EXCEPT ![p] = Append(@, fetched[p])]
    /\ fetched' = [fetched EXCEPT ![p] = @ + 1]
    /\ UNCHANGED <<g, bcVars, runVars, groupVars, panicked, histVars>>

(* ConsumeClaim: for msg := range claim.Messages()                         *)
Recv(p) ==
    /\ At(p, "recv")
    /\ claim[p] # <<>>
    /\ g' = [g EXCEPT ![p].msg = Head(claim[p]), ![p].pc = "attach"]
    /\ claim' = [claim EXCEPT ![p] = Tail(@)]
    /\ UNCHANGED <<fetched, bcVars, runVars, groupVars, panicked, histVars>>

(* The range ends once the closed channel is drained: ConsumeClaim returns.*)
ClaimReturns(p) ==
    /\ At(p, "recv")
    /\ sess = "ending" /\ claim[p] = <<>>
    /\ Goto(p, "exited")
    /\ UNCHANGED <<fetched, claim, bcVars, runVars, groupVars, panicked,
                   histVars>>

(* left := len(claim.Messages()) and the groupConsumers lookup (109-111), *)
(* then attach: c.Session = sess (78).                                     *)
Attach(p) ==
    /\ At(p, "attach")
    /\ g' = [g EXCEPT ![p].left = Len(claim[p]), ![p].pc = "nilcheck"]
    /\ Session' = gen
    /\ UNCHANGED <<fetched, claim, MessageBuffer, currentIndex, runVars,
                   groupVars, panicked, histVars>>

(* if c.MessageBuffer == nil (79)                                          *)
NilCheck(p) ==
    /\ At(p, "nilcheck")
    /\ Goto(p, IF MessageBuffer = Nil THEN "make" ELSE "write")
    /\ UNCHANGED <<fetched, claim, bcVars, runVars, groupVars, panicked,
                   histVars>>

(* c.MessageBuffer = make(.., c.BatchSize) (80): a slice another claim     *)
(* allocated and wrote since the check is replaced.                        *)
Make(p) ==
    /\ At(p, "make")
    /\ MessageBuffer' = [s \in Slots |-> Nil]
    /\ Goto(p, "write")
    /\ UNCHANGED <<fetched, claim, currentIndex, Session, runVars, groupVars,
                   panicked, histVars>>

(* c.MessageBuffer[c.currentIndex] = msg (82) reads both fields afresh.    *)
(* A nil slice (another claim's sendToCallback reset it after line 79) or  *)
(* an index past BatchSize panics with index out of range.                 *)
Write(p) ==
    /\ At(p, "write")
    /\ IF MessageBuffer # Nil /\ currentIndex < BatchSize
       THEN /\ MessageBuffer' = [MessageBuffer EXCEPT ![currentIndex] = Rec(p, g[p].msg)]
            /\ g' = [g EXCEPT ![p].msg = 0, ![p].pc = "incr"]
            /\ UNCHANGED panicked
       ELSE /\ panicked' = TRUE
            /\ UNCHANGED <<g, MessageBuffer>>
    /\ UNCHANGED <<fetched, claim, currentIndex, Session, runVars, groupVars,
                   histVars>>

(* c.currentIndex++ (83) loads the field again and stores one more: two    *)
(* steps, between which another claim's store is lost.                      *)
IncrLoad(p) ==
    /\ At(p, "incr")
    /\ g' = [g EXCEPT ![p].slot = currentIndex, ![p].pc = "store"]
    /\ UNCHANGED <<fetched, claim, bcVars, runVars, groupVars, panicked,
                   histVars>>

IncrStore(p) ==
    /\ At(p, "store")
    /\ currentIndex' = g[p].slot + 1
    /\ g' = [g EXCEPT ![p].slot = 0, ![p].pc = "check"]
    /\ UNCHANGED <<fetched, claim, MessageBuffer, Session, runVars,
                   groupVars, panicked, histVars>>

(* if c.currentIndex == c.BatchSize || left == 0 { c.sendToCallback() }   *)
(* Mutant: flush only when the buffer is full.                             *)
FlushWhenFull(p) == currentIndex = BatchSize

FlushDue(p) == currentIndex = BatchSize \/ g[p].left = 0

Check(p) ==
    /\ At(p, "check")
    /\ g' = [g EXCEPT ![p].left = 0,
                      ![p].pc = IF FlushDue(p) THEN "copy" ELSE "recv"]
    /\ UNCHANGED <<fetched, claim, bcVars, runVars, groupVars, panicked,
                   histVars>>

(* sendToCallback: batchMessage := make(.., c.currentIndex) and            *)
(* copy(batchMessage, c.MessageBuffer) copies min(n, len) entries: from a *)
(* nil slice nothing, past BatchSize nothing; the rest stays nil.          *)
CopyOut(n) == [k \in 1..n |-> IF MessageBuffer = Nil \/ k > BatchSize THEN Nil
                              ELSE MessageBuffer[k-1]]

Copy(p) ==
    /\ At(p, "copy")
    /\ g' = [g EXCEPT ![p].batch = CopyOut(currentIndex), ![p].pc = "send"]
    /\ UNCHANGED <<fetched, claim, bcVars, runVars, groupVars, panicked,
                   histVars>>

(* Mutant: the send does not wait for room in the channel.                 *)
SendUnbounded(p) ==
    /\ At(p, "send")
    /\ callBackBuffer' = Append(callBackBuffer, g[p].batch)
    /\ g' = [g EXCEPT ![p].batch = <<>>, ![p].pc = "resetBuf"]
    /\ UNCHANGED <<fetched, claim, bcVars, done, runPc, inflight, groupVars,
                   panicked, histVars>>

(* c.callBackBuffer <- batchMessage blocks while the channel is full.      *)
Send(p) ==
    /\ At(p, "send")
    /\ Len(callBackBuffer) < BufferLength
    /\ callBackBuffer' = Append(callBackBuffer, g[p].batch)
    /\ g' = [g EXCEPT ![p].batch = <<>>, ![p].pc = "resetBuf"]
    /\ UNCHANGED <<fetched, claim, bcVars, done, runPc, inflight, groupVars,
                   panicked, histVars>>

(* c.MessageBuffer = nil                                                   *)
ResetBuf(p) ==
    /\ At(p, "resetBuf")
    /\ MessageBuffer' = Nil
    /\ Goto(p, "resetIdx")
    /\ UNCHANGED <<fetched, claim, currentIndex, Session, runVars, groupVars,
                   panicked, histVars>>

(* c.currentIndex = 0, back to the range loop.                             *)
ResetIdx(p) ==
    /\ At(p, "resetIdx")
    /\ currentIndex' = 0
    /\ Goto(p, "recv")
    /\ UNCHANGED <<fetched, claim, MessageBuffer, Session, runVars,
                   groupVars, panicked, histVars>>

(* Every ConsumeClaim returned: Cleanup, the session's offset manager is   *)
(* closed and grouper.Consume, hence ReceiveMessage, returns.              *)
ConsumeReturns ==
    /\ ~panicked /\ sess = "ending"
    /\ \A p \in Partitions : g[p].pc = "exited"
    /\ sess' = "idle"
    /\ UNCHANGED <<claimVars, bcVars, runVars, gen, closer, committed,
                   panicked, histVars>>

-----------------------------------------------------------------------------
(* run: select { case <-c.done: return; case msgs := <-c.callBackBuffer }  *)
Take ==
    /\ ~panicked /\ runPc = "idle"
    /\ callBackBuffer # <<>>
    /\ inflight' = Head(callBackBuffer)
    /\ callBackBuffer' = Tail(callBackBuffer)
    /\ runPc' = "callback"
    /\ UNCHANGED <<claimVars, bcVars, done, groupVars, panicked, histVars>>

RunReturns ==
    /\ ~panicked /\ runPc = "idle" /\ done
    /\ runPc' = "exited"
    /\ UNCHANGED <<claimVars, bcVars, callBackBuffer, done, inflight,
                   groupVars, panicked, histVars>>

InflightRecords == Range(inflight) \ {Nil}

(* msgs[len(msgs)-1] exists and is not nil.                                *)
LastNotNil == inflight # <<>> /\ inflight[Len(inflight)] # Nil

(* c.CallBack(msgs) returns false: nothing is marked or committed.         *)
CallbackFails ==
    /\ ~panicked /\ runPc = "callback"
    /\ dispatched' = dispatched \cup InflightRecords
    /\ runPc' = "idle" /\ inflight' = <<>>
    /\ UNCHANGED <<claimVars, bcVars, callBackBuffer, done,
                   groupVars, panicked, succeeded>>

(* m := msgs[len(msgs)-1]; c.Session.MarkOffset(.., m.Offset+1, "");       *)
(* c.Session.Commit().  sarama's MarkOffset only raises a partition's      *)
(* marked offset, and Commit sends it at once; both are no-ops on a        *)
(* session whose offset manager was already closed.                        *)
MarkAndCommit(m) ==
    IF Session = gen /\ sess # "idle"
    THEN committed' = [committed EXCEPT ![m.part] =
                           IF m.off + 1 > @ THEN m.off + 1 ELSE @]
    ELSE UNCHANGED committed

(* c.CallBack(msgs) returns true.  On an empty batch or one ending in nil *)
(* msgs[len(msgs)-1] or m.Topic panics.                                    *)
CallbackSucceeds ==
    /\ ~panicked /\ runPc = "callback"
    /\ IF LastNotNil
       THEN /\ MarkAndCommit(inflight[Len(inflight)])
            /\ dispatched' = dispatched \cup InflightRecords
            /\ succeeded' = succeeded \cup InflightRecords
            /\ runPc' = "idle" /\ inflight' = <<>>
            /\ UNCHANGED panicked
       ELSE /\ panicked' = TRUE
            /\ UNCHANGED <<runPc, inflight, committed, histVars>>
    /\ UNCHANGED <<claimVars, bcVars, callBackBuffer, done, gen,
                   sess, closer>>

-----------------------------------------------------------------------------
(* closeReceive on os.Interrupt: c.Close() closes done of every            *)
(* batchConsumer, then grouper.Close() ends the session and returns only   *)
(* once the running Consume has returned.                                  *)
CloseConsumers ==
    /\ ~panicked /\ closer = "running"
    /\ done' = TRUE /\ closer' = "consumersClosed"
    /\ UNCHANGED <<claimVars, bcVars, callBackBuffer, runPc, inflight, gen,
                   sess, committed, panicked, histVars>>

CloseGroupers ==
    /\ ~panicked /\ closer = "consumersClosed"
    /\ closer' = "closingGroups"
    /\ sess' = IF sess = "live" THEN "ending" ELSE sess
    /\ UNCHANGED <<claimVars, bcVars, runVars, gen, committed, panicked,
                   histVars>>

GroupersClosed ==
    /\ ~panicked /\ closer = "closingGroups" /\ sess = "idle"
    /\ closer' = "closed"
    /\ UNCHANGED <<claimVars, bcVars, runVars, gen, sess, committed,
                   panicked, histVars>>

-----------------------------------------------------------------------------
ClaimStep(p) ==
    \/ Fetch(p) \/ Recv(p) \/ ClaimReturns(p) \/ Attach(p) \/ NilCheck(p)
    \/ Make(p) \/ Write(p) \/ IncrLoad(p) \/ IncrStore(p) \/ Check(p)
    \/ Copy(p) \/ Send(p)
    \/ ResetBuf(p) \/ ResetIdx(p)

RunStep == Take \/ RunReturns \/ CallbackFails \/ CallbackSucceeds

GroupStep == ReceiveMessage \/ Rebalance \/ ConsumeReturns
             \/ CloseConsumers \/ CloseGroupers \/ GroupersClosed

Next == (\E p \in Partitions : ClaimStep(p)) \/ RunStep \/ GroupStep

(* Every goroutine is scheduled by the Go runtime (weak fairness); blocked *)
(* senders on a channel are served in FIFO order, so a send enabled        *)
(* infinitely often happens (strong fairness).  The application's calls,   *)
(* rebalances and the interrupt signal are not assumed to happen.          *)
Fairness ==
    /\ \A p \in Partitions :
          /\ WF_vars(Fetch(p)) /\ WF_vars(Recv(p)) /\ WF_vars(ClaimReturns(p))
          /\ WF_vars(Attach(p)) /\ WF_vars(NilCheck(p)) /\ WF_vars(Make(p))
          /\ WF_vars(Write(p)) /\ WF_vars(IncrLoad(p))
          /\ WF_vars(IncrStore(p)) /\ WF_vars(Check(p))
          /\ WF_vars(Copy(p)) /\ SF_vars(Send(p)) /\ WF_vars(ResetBuf(p))
          /\ WF_vars(ResetIdx(p))
    /\ WF_vars(Take) /\ WF_vars(RunReturns)
    /\ WF_vars(CallbackFails \/ CallbackSucceeds)
    /\ WF_vars(ConsumeReturns) /\ WF_vars(CloseGroupers)
    /\ WF_vars(GroupersClosed)

Spec == Init /\ [][Next]_vars /\ Fairness

-----------------------------------------------------------------------------
(* At-least-once (spec 4.4: Close guarantees "at-least-once, never         *)
(* at-most-once" delivery): run commits offset o of a partition only after *)
(* every record of it below o was handed to the callback.  The claims of   *)
(* two partitions share MessageBuffer and currentIndex without a lock: a   *)
(* slot written twice, a slice replaced after its nil check, or a lost     *)
(* currentIndex++ drops a record, and a later batch of its partition is    *)
(* committed past it.                                                      *)
AtLeastOnce ==
    \A p \in Partitions, o \in Offsets :
        o < committed[p] => Rec(p, o) \in dispatched

(* P3 of the spec: the committed offset only advances past records whose   *)
(* batch callback returned true; a failed batch "is left untouched so the   *)
(* broker redelivers it".  run keeps taking later batches after a failure,  *)
(* and their MarkOffset/Commit moves past the failed records.               *)
CommitOnlyPastSuccess ==
    \A p \in Partitions, o \in Offsets :
        o < committed[p] => Rec(p, o) \in succeeded

(* Every record the partition consumer fetched is eventually handed to the *)
(* callback unless the process was interrupted: the left == 0 flush never  *)
(* strands a partial batch in MessageBuffer, and backpressure on            *)
(* callBackBuffer is always relieved.                                       *)
EventuallyDispatched ==
    \A p \in Partitions, o \in Offsets :
        (o < fetched[p]) ~> (panicked \/ done \/ Rec(p, o) \in dispatched)

(* Spec 5: close is orderly: once closeReceive has closed the consumers,   *)
(* grouper.Close() returns.  It waits for ConsumeClaim, which can be        *)
(* blocked sending to a full callBackBuffer that the returned run goroutine *)
(* no longer drains.                                                        *)
CloseCompletes ==
    (closer = "consumersClosed") ~> (panicked \/ closer = "closed")

=============================================================================
