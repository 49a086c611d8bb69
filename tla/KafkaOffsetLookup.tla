------------------------- MODULE KafkaOffsetLookup -------------------------
(***************************************************************************)
(* GetMessageLastOffset of src/lib/mq/kafka/consumer.go, called by         *)
(* application goroutines.  The package caches one sarama ClusterAdmin in  *)
(* the global groupCluster and reads and writes it without a lock: every   *)
(* mention of groupCluster in the function is a fresh read, so each one is *)
(* a step of its own and the callers interleave between them.              *)
(*                                                                         *)
(* The broker is the environment: it holds the group's committed offsets   *)
(* (Committed, fixed here: the lookup does not commit) and may fail a      *)
(* NewClusterAdmin or a ListConsumerGroupOffsets call, a bounded number of *)
(* times.  sarama fails every call on a closed admin, and its Close of an  *)
(* admin already closed returns ErrClosedClient.  A method call on the nil *)
(* interface value panics.  groupAddress is taken as configured.           *)
(***************************************************************************)
EXTENDS Integers, FiniteSets

CONSTANTS
    Callers,        \* goroutines calling GetMessageLastOffset
    Partitions,     \* the partitions a caller may ask about
    Committed,      \* Committed[p]: the group's committed offset, -1 if none
    MaxCalls,       \* bound on the calls, over all callers
    MaxAdmins,      \* bound on the ClusterAdmins NewClusterAdmin may create
    MaxFaults,      \* bound on the broker's failed calls
    Configured      \* the kafka section of the config lists an address

ASSUME MaxCalls \in Nat /\ MaxAdmins \in Nat /\ MaxFaults \in Nat
       /\ Configured \in BOOLEAN

NoAdmin == 0                    \* groupCluster == nil
Admins  == 1..MaxAdmins
(* What a call returned: -1 with an error, or an offset with none.  A     *)
(* caller's ret is {} until its first call returns.                        *)
Failed    == [err |-> TRUE, off |-> -1]
Offset(o) == [err |-> FALSE, off |-> o]

VARIABLES
    groupCluster,   \* the global: NoAdmin or the admin it holds
    opened,         \* admins NewClusterAdmin has created
    closed,         \* admins whose Close succeeded
    lk,             \* lk[c]: the pc, partition and result of c's call
    calls,          \* calls made so far
    faults,         \* broker faults so far
    panicked        \* a caller called a method on the nil groupCluster

vars == <<groupCluster, opened, closed, lk, calls, faults, panicked>>

Pcs == {"idle", "check", "create", "query", "close", "nil"}

TypeOK ==
    /\ groupCluster \in {NoAdmin} \cup Admins
    /\ opened \subseteq Admins /\ closed \subseteq opened
    /\ lk \in [Callers -> [pc: Pcs, part: Partitions,
                           ret: SUBSET ({Failed} \cup {Offset(Committed[p]) : p \in Partitions})]]
    /\ calls \in 0..MaxCalls /\ faults \in 0..MaxFaults
    /\ panicked \in BOOLEAN

Init ==
    /\ groupCluster = NoAdmin /\ opened = {} /\ closed = {}
    /\ lk = [c \in Callers |-> [pc |-> "idle", part |-> CHOOSE p \in Partitions : TRUE,
                                ret |-> {}]]
    /\ calls = 0 /\ faults = 0 /\ panicked = FALSE

At(c, l) == ~panicked /\ lk[c].pc = l
Goto(c, l) == lk' = [lk EXCEPT ![c].pc = l]
Return(c, r) == lk' = [lk EXCEPT ![c].pc = "idle", ![c].ret = {r}]
Fault == faults < MaxFaults /\ faults' = faults + 1

-----------------------------------------------------------------------------
(* GetMessageLastOffset(topic, groupId, partition) is called; without an  *)
(* address in the config it returns -1 and an error at once.               *)
Call(c) ==
    /\ At(c, "idle") /\ calls < MaxCalls
    /\ \E p \in Partitions :
           lk' = [lk EXCEPT ![c] = IF Configured
                                  THEN [pc |-> "check", part |-> p, ret |-> {}]
                                  ELSE [pc |-> "idle", part |-> p, ret |-> {Failed}]]
    /\ calls' = calls + 1
    /\ UNCHANGED <<groupCluster, opened, closed, faults, panicked>>

(* if groupCluster == nil                                                  *)
CheckNil(c) ==
    /\ At(c, "check")
    /\ Goto(c, IF groupCluster = NoAdmin THEN "create" ELSE "query")
    /\ UNCHANGED <<groupCluster, opened, closed, calls, faults, panicked>>

(* groupCluster, err = sarama.NewClusterAdmin(groupAddress, nil): the      *)
(* global is assigned whatever the call returns, nil on an error, even if  *)
(* another caller stored an admin meanwhile.                               *)
CreateAdmin(c) ==
    /\ At(c, "create")
    /\ \/ /\ Cardinality(opened) < MaxAdmins
          /\ LET a == Cardinality(opened) + 1
             IN  /\ opened' = opened \cup {a}
                 /\ groupCluster' = a
          /\ Goto(c, "query")
          /\ UNCHANGED faults
       \/ /\ Fault
          /\ groupCluster' = NoAdmin
          /\ Return(c, Failed)
          /\ UNCHANGED opened
    /\ UNCHANGED <<closed, calls, panicked>>

(* offResp, err := groupCluster.ListConsumerGroupOffsets(groupId, ..):     *)
(* on success resp := offResp.GetBlock(topic, partition), and the function *)
(* returns resp.Offset (the broker always answers the partition asked).    *)
Query(c) ==
    /\ At(c, "query")
    /\ \/ /\ groupCluster = NoAdmin
          /\ panicked' = TRUE
          /\ UNCHANGED <<lk, faults>>
       \/ /\ groupCluster \in closed
          /\ Goto(c, "close")
          /\ UNCHANGED <<faults, panicked>>
       \/ /\ groupCluster \in opened \ closed
          /\ Fault
          /\ Goto(c, "close")
          /\ UNCHANGED panicked
       \/ /\ groupCluster \in opened \ closed
          /\ Return(c, Offset(Committed[lk[c].part]))
          /\ UNCHANGED <<faults, panicked>>
    /\ UNCHANGED <<groupCluster, opened, closed, calls>>

(* err = groupCluster.Close(); if err == nil { groupCluster = nil }:       *)
(* a Close that fails returns its error and keeps the admin cached.        *)
CloseAdmin(c) ==
    /\ At(c, "close")
    /\ \/ /\ groupCluster = NoAdmin
          /\ panicked' = TRUE
          /\ UNCHANGED <<lk, closed>>
       \/ /\ groupCluster \in closed
          /\ Return(c, Failed)
          /\ UNCHANGED <<closed, panicked>>
       \/ /\ groupCluster \in opened \ closed
          /\ closed' = closed \cup {groupCluster}
          /\ Goto(c, "nil")
          /\ UNCHANGED panicked
    /\ UNCHANGED <<groupCluster, opened, calls, faults>>

(* groupCluster = nil; return -1, err                                      *)
ForgetAdmin(c) ==
    /\ At(c, "nil")
    /\ groupCluster' = NoAdmin
    /\ Return(c, Failed)
    /\ UNCHANGED <<opened, closed, calls, faults, panicked>>

Next == \E c \in Callers :
            \/ Call(c) \/ CheckNil(c) \/ CreateAdmin(c) \/ Query(c)
            \/ CloseAdmin(c) \/ ForgetAdmin(c)

Spec == Init /\ [][Next]_vars

-----------------------------------------------------------------------------
(* GetMessageLastOffset never calls a method on a nil groupCluster: the    *)
(* admin a caller found in its nil check is still there when it queries    *)
(* and when it closes, although another caller may close and nil it.       *)
NoLookupPanic == ~panicked

(* A caller about to query finds an open admin in the cache: an admin      *)
(* closed after a failed query is never handed to a later call.            *)
CachedAdminUsable ==
    \A c \in Callers :
        lk[c].pc = "query" /\ groupCluster # NoAdmin => groupCluster \notin closed

(* Every admin NewClusterAdmin created is closed or still cached: none is  *)
(* lost with its broker connections by an overwrite of the global.         *)
NoLeakedAdmin == opened \ closed \subseteq {groupCluster}
=============================================================================
