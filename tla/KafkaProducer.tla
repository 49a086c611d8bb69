--------------------------- MODULE KafkaProducer ---------------------------
(***************************************************************************)
(* SendMessage and closeSend of src/lib/mq/kafka/producer.go, called by    *)
(* application goroutines.  The package keeps one sarama AsyncProducer in  *)
(* the global producer, created lazily by the first call and never reset,  *)
(* read and written without a lock.  Creating it also starts a goroutine   *)
(* that waits for os.Interrupt and then calls closeSend; every call starts *)
(* a goroutine that ranges over producer.Errors().                         *)
(*                                                                         *)
(* sarama's AsyncProducer is the environment.  Its dispatcher takes each   *)
(* message from Input() and adds it to the produce set of the partition's  *)
(* broker, which is flushed to the broker once it holds Flush.Messages (2) *)
(* messages: the config sets no Flush.Frequency and no Flush.Bytes, so a   *)
(* smaller set waits for more messages or for shutdown.  AsyncClose starts *)
(* shutdown: messages arriving meanwhile are reported on Errors() with    *)
(* ErrShuttingDown, the produce set is flushed, then Input() and Errors()  *)
(* are closed.  A second AsyncClose of the same producer closes the closed *)
(* Input() again and panics.  The topic has one partition; its log is the  *)
(* broker.  Time is abstracted.                                            *)
(***************************************************************************)
EXTENDS Naturals, Sequences, FiniteSets

CONSTANTS
    Callers,        \* goroutines calling SendMessage
    MaxCalls,       \* bound on the calls, over all callers (one message each)
    MaxProducers,   \* bound on the producers NewAsyncProducer may create
    MaxFaults,      \* bound on failed NewAsyncProducer calls
    Interrupts,     \* whether the process receives os.Interrupt (once)
    Configured      \* the kafka section of the config lists an address

ASSUME MaxCalls \in Nat /\ MaxProducers \in Nat /\ MaxFaults \in Nat
       /\ Interrupts \in BOOLEAN /\ Configured \in BOOLEAN

FlushMessages == 2              \* config.Producer.Flush.Messages
NoProducer == 0                 \* producer == nil
Producers == 1..MaxProducers
Msgs == 1..MaxCalls             \* the message of the n-th call is n

VARIABLES
    producer,       \* the global: NoProducer or the producer it holds
    state,          \* state[q]: "none", "open", "closing" or "closed"
    pset,           \* pset[q]: the produce set of producer q, not yet flushed
    readers,        \* readers[q]: goroutines ranging over q's Errors()
    watchers,       \* signal goroutines started (one per created producer)
    pending,        \* signal goroutines that received the interrupt and have not run closeSend
    interrupted,    \* os.Interrupt was delivered
    sc,             \* sc[c]: pc and message of c's SendMessage call
    calls,          \* calls made so far
    faults,         \* failed NewAsyncProducer calls so far
    sent,           \* history: messages taken by an open producer's Input()
    log,            \* messages written to the broker
    reported,       \* messages reported on Errors() (ErrShuttingDown)
    panicked        \* a goroutine panicked: the process is gone

vars == <<producer, state, pset, readers, watchers, pending, interrupted,
          sc, calls, faults, sent, log, reported, panicked>>

Pcs == {"idle", "check", "create", "spawn", "send"}

TypeOK ==
    /\ producer \in {NoProducer} \cup Producers
    /\ state \in [Producers -> {"none", "open", "closing", "closed"}]
    /\ pset \in [Producers -> Seq(Msgs)]
    /\ readers \in [Producers -> 0..MaxCalls]
    /\ watchers \in 0..MaxProducers /\ pending \in 0..MaxProducers
    /\ interrupted \in BOOLEAN
    /\ sc \in [Callers -> [pc: Pcs, msg: 0..MaxCalls]]
    /\ calls \in 0..MaxCalls /\ faults \in 0..MaxFaults
    /\ sent \subseteq Msgs /\ log \subseteq Msgs /\ reported \subseteq Msgs
    /\ panicked \in BOOLEAN

Init ==
    /\ producer = NoProducer
    /\ state = [q \in Producers |-> "none"]
    /\ pset = [q \in Producers |-> <<>>]
    /\ readers = [q \in Producers |-> 0]
    /\ watchers = 0 /\ pending = 0 /\ interrupted = FALSE
    /\ sc = [c \in Callers |-> [pc |-> "idle", msg |-> 0]]
    /\ calls = 0 /\ faults = 0
    /\ sent = {} /\ log = {} /\ reported = {}
    /\ panicked = FALSE

At(c, l) == ~panicked /\ sc[c].pc = l
Goto(c, l) == sc' = [sc EXCEPT ![c].pc = l]
Made == {q \in Producers : state[q] # "none"}
Ends(q) == ~panicked /\ state[q] = "closing"
ToSet(s) == {s[i] : i \in DOMAIN s}

-----------------------------------------------------------------------------
(* SendMessage(topic, text) is called with the next message.               *)
Call(c) ==
    /\ At(c, "idle") /\ calls < MaxCalls
    /\ sc' = [sc EXCEPT ![c] = [pc |-> "check", msg |-> calls + 1]]
    /\ calls' = calls + 1
    /\ UNCHANGED <<producer, state, pset, readers, watchers, pending,
                   interrupted, faults, sent, log, reported, panicked>>

(* if producer == nil                                                      *)
CheckNil(c) ==
    /\ At(c, "check")
    /\ Goto(c, IF producer = NoProducer THEN "create" ELSE "spawn")
    /\ UNCHANGED <<producer, state, pset, readers, watchers, pending,
                   interrupted, calls, faults, sent, log, reported, panicked>>

(* Without an address in the config SendMessage returns an error.          *)
(* Otherwise producer, err = sarama.NewAsyncProducer(address, config): the *)
(* global is assigned the result, nil on an error (which SendMessage       *)
(* returns).  On success signal.Notify registers a new channel, and the    *)
(* goroutine waiting on it starts.                                         *)
Create(c) ==
    /\ At(c, "create")
    /\ \/ /\ ~Configured
          /\ Goto(c, "idle")
          /\ UNCHANGED <<producer, state, watchers, pending, faults>>
       \/ /\ Configured /\ Cardinality(Made) < MaxProducers
          /\ LET q == Cardinality(Made) + 1
             IN  /\ producer' = q
                 /\ state' = [state EXCEPT ![q] = "open"]
          /\ watchers' = watchers + 1
          /\ Goto(c, "spawn")
          /\ UNCHANGED <<faults, pending>>
       \/ /\ Configured /\ faults < MaxFaults /\ faults' = faults + 1
          /\ producer' = NoProducer
          /\ Goto(c, "idle")
          /\ UNCHANGED <<state, watchers, pending>>
    /\ UNCHANGED <<pset, readers, interrupted, calls, sent, log, reported,
                   panicked>>

(* go func() { for err := range producer.Errors() {..} }(): the goroutine  *)
(* reads the global; producer.Errors() on nil panics.                      *)
Spawn(c) ==
    /\ At(c, "spawn")
    /\ IF producer = NoProducer
       THEN /\ panicked' = TRUE
            /\ UNCHANGED <<sc, readers>>
       ELSE /\ readers' = [readers EXCEPT ![producer] = @ + 1]
            /\ Goto(c, "send")
            /\ UNCHANGED panicked
    /\ UNCHANGED <<producer, state, pset, watchers, pending, interrupted,
                   calls, faults, sent, log, reported>>

(* The dispatcher adds m to the produce set; a set of FlushMessages        *)
(* messages is flushed to the broker.                                      *)
Produce(q, m) ==
    IF Len(pset[q]) + 1 >= FlushMessages
    THEN /\ log' = log \cup ToSet(pset[q]) \cup {m}
         /\ pset' = [pset EXCEPT ![q] = <<>>]
    ELSE /\ pset' = [pset EXCEPT ![q] = Append(@, m)]
         /\ UNCHANGED log

(* producer.Input() <- msg; return nil.  Input() of a nil producer panics, *)
(* and so does a send on the Input() channel shutdown has closed.          *)
SendInput(c) ==
    /\ At(c, "send")
    /\ LET q == producer
           m == sc[c].msg
       IN  CASE q = NoProducer \/ state[q] = "closed" ->
                  /\ panicked' = TRUE
                  /\ UNCHANGED <<sc, pset, sent, log, reported>>
             [] state[q] = "open" ->
                  /\ Produce(q, m)
                  /\ sent' = sent \cup {m}
                  /\ Goto(c, "idle")
                  /\ UNCHANGED <<reported, panicked>>
             [] OTHER ->
                  /\ reported' = reported \cup {m}
                  /\ Goto(c, "idle")
                  /\ UNCHANGED <<pset, sent, log, panicked>>
    /\ UNCHANGED <<producer, state, readers, watchers, pending, interrupted,
                   calls, faults>>

-----------------------------------------------------------------------------
(* os.Interrupt is delivered to every channel signal.Notify registered.    *)
Interrupt ==
    /\ ~panicked /\ Interrupts /\ ~interrupted
    /\ interrupted' = TRUE
    /\ pending' = watchers
    /\ UNCHANGED <<producer, state, pset, readers, watchers, sc, calls,
                   faults, sent, log, reported, panicked>>

(* A signal goroutine runs closeSend(): if producer != nil {               *)
(* producer.AsyncClose() }; AsyncClose of a producer already shutting down *)
(* panics when its shutdown closes Input() a second time.                  *)
CloseSend ==
    /\ ~panicked /\ pending > 0
    /\ pending' = pending - 1
    /\ CASE producer = NoProducer ->
              UNCHANGED <<state, panicked>>
         [] state[producer] = "open" ->
              /\ state' = [state EXCEPT ![producer] = "closing"]
              /\ UNCHANGED panicked
         [] OTHER ->
              /\ panicked' = TRUE
              /\ UNCHANGED state
    /\ UNCHANGED <<producer, pset, readers, watchers, interrupted, sc, calls,
                   faults, sent, log, reported>>

(* sarama's shutdown of q: flush the produce set, close Input() and        *)
(* Errors(); the goroutines ranging over Errors() return.                  *)
Shutdown(q) ==
    /\ Ends(q)
    /\ log' = log \cup ToSet(pset[q])
    /\ pset' = [pset EXCEPT ![q] = <<>>]
    /\ state' = [state EXCEPT ![q] = "closed"]
    /\ readers' = [readers EXCEPT ![q] = 0]
    /\ UNCHANGED <<producer, watchers, pending, interrupted, sc, calls,
                   faults, sent, reported, panicked>>

Step(c) == CheckNil(c) \/ Create(c) \/ Spawn(c) \/ SendInput(c)

Next == \/ \E c \in Callers : Call(c) \/ Step(c)
        \/ Interrupt \/ CloseSend
        \/ \E q \in Producers : Shutdown(q)

(* The Go runtime runs every goroutine, and sarama's goroutines finish a   *)
(* shutdown once started.  Calls and the interrupt are not forced.         *)
Fairness ==
    /\ \A c \in Callers : WF_vars(Step(c))
    /\ WF_vars(CloseSend)
    /\ \A q \in Producers : WF_vars(Shutdown(q))

Spec == Init /\ [][Next]_vars /\ Fairness

-----------------------------------------------------------------------------
(* SendMessage never crashes the process: no nil producer is used, no      *)
(* message is sent on a closed Input(), and no producer is closed twice.   *)
NoSendPanic == ~panicked

(* SendMessage creates one producer for the process: a second one, made by *)
(* callers that both saw nil, is never closed by closeSend.                *)
OneProducer == Cardinality(Made) <= 1

(* A call starts at most one goroutine that outlives it: the goroutines    *)
(* ranging over Errors() of the producer do not grow with every call.      *)
ErrorReadersBounded == \A q \in Producers : readers[q] <= 1

(* Every message SendMessage handed to the producer reaches the broker,    *)
(* or is reported on Errors(), unless the process crashed.                 *)
MessagesDelivered ==
    \A m \in Msgs : (m \in sent) ~> (m \in log \/ m \in reported \/ panicked)
=============================================================================
