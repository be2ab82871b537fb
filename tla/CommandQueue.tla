---------------------------- MODULE CommandQueue ----------------------------
(***************************************************************************)
(* The bounded queue between the request handlers and the command actor    *)
(* (app/src/queue.rs, actor.rs, factory.rs) and the tokio mpsc channel     *)
(* below it, whose capacity is a FIFO semaphore: a sender acquires one     *)
(* permit, the permit travels with the message and recv releases it.       *)
(* `wait_for_pending_commands` acquires as many permits as the channel has *)
(* slots and gives them back at once.                                      *)
(*                                                                         *)
(* The channel and the semaphore are external; they are modelled as far as *)
(* the queue's promises depend on them.                                    *)
(***************************************************************************)
EXTENDS Integers, Sequences, FiniteSets, FiniteSetsExt, SeqOps

CONSTANTS Client,   \* request handlers, each with a clone of the queue
          Capacity, \* max_buffered_commands
          MaxOps    \* bound: operations per client

ASSUME ClientAssumption == IsFiniteSet(Client)
ASSUME CapacityAssumption == Capacity \in Nat \ {0}
ASSUME OpsAssumption == MaxOps \in Nat

VARIABLES queue,    \* messages in the channel
          permits,  \* free permits of the semaphore
          waiters,  \* FIFO of [client, need, got]: acquisitions not yet served
          closed,   \* has the receiver been dropped?
          state,    \* client -> ready, acquiring, granted, failed or gone
          op,       \* client -> the operation in progress or finished last
          count,    \* client -> operations started
          actor,    \* idle, busy, stopped or panicked
          killshot, \* was the shutdown signal sent?
          (* history *)
          sent,     \* commands accepted by the channel, in order
          handled,  \* how many of them the actor has handled
          target    \* client -> Len(sent) when its wait began

channel == <<queue, permits, waiters, closed>>
clients == <<state, op, count>>
hist == <<sent, handled, target>>
vars == <<channel, clients, actor, killshot, hist>>

Need(c) == IF op[c] = "send" THEN 1 ELSE Capacity

Init ==
    /\ queue = <<>> /\ permits = Capacity /\ waiters = <<>> /\ closed = FALSE
    /\ state = [c \in Client |-> "ready"]
    /\ op = [c \in Client |-> "none"]
    /\ count = [c \in Client |-> 0]
    /\ actor = "idle" /\ killshot = FALSE
    /\ sent = <<>> /\ handled = 0
    /\ target = [c \in Client |-> 0]

-----------------------------------------------------------------------------
(***************************************************************************)
(* The semaphore.                                                          *)
(***************************************************************************)

(* What each of the acquisitions ws still lacks. *)
Lacking(ws) == [i \in DOMAIN ws |-> ws[i].need - ws[i].got]

(* Faulty: what comes back is noted but nobody is woken. *)
ServedNone(ws, k) == 0

(* How many acquisitions at the front of ws k more permits complete. *)
Served(ws, k) == Max({i \in 0..Len(ws) : Sums(Lacking(ws))[i] <= k})

(* k permits come back while ws are waiting and st is what the clients do: *)
(* the oldest acquisition takes what it lacks, then the next one; what is  *)
(* left when nobody waits is free.                                         *)
Release(ws, k, st) ==
    LET m    == Served(ws, k)
        left == k - Sums(Lacking(ws))[m]
        rest == SubSeq(ws, m + 1, Len(ws))
    IN  /\ waiters' = IF rest = <<>> THEN <<>> ELSE [rest EXCEPT ![1].got = @ + left]
        /\ permits' = IF rest = <<>> THEN permits + left ELSE permits
        /\ state' = [c \in Client |->
                        IF \E i \in 1..m : ws[i].client = c THEN "granted" ELSE st[c]]

(* The acquisition at place i gives up its place. *)
Without(ws, i) == SubSeq(ws, 1, i - 1) \o SubSeq(ws, i + 1, Len(ws))

-----------------------------------------------------------------------------
(***************************************************************************)
(* CommandQueue::send and CommandQueue::wait_for_pending_commands.         *)
(***************************************************************************)

(* A permit of `need` slots: at once, or after queueing with what is free. *)
Acquire(c, need) ==
    \/ /\ closed
       /\ state' = [state EXCEPT ![c] = "failed"]
       /\ UNCHANGED <<permits, waiters>>
    \/ /\ ~closed /\ permits >= need
       /\ permits' = permits - need
       /\ state' = [state EXCEPT ![c] = "granted"]
       /\ UNCHANGED waiters
    \/ /\ ~closed /\ permits < need
       /\ waiters' = Append(waiters, [client |-> c, need |-> need, got |-> permits])
       /\ permits' = 0
       /\ state' = [state EXCEPT ![c] = "acquiring"]

Begin(c, operation) ==
    /\ state[c] = "ready" /\ count[c] < MaxOps
    /\ op' = [op EXCEPT ![c] = operation]
    /\ count' = [count EXCEPT ![c] = @ + 1]

Send(c) ==
    /\ Begin(c, "send")
    /\ Acquire(c, 1)
    /\ UNCHANGED <<queue, closed, actor, killshot, hist>>

(* Faulty: one free slot is enough. *)
WaitForOneSlot(c) ==
    /\ Begin(c, "wait")
    /\ Acquire(c, 1)
    /\ target' = [target EXCEPT ![c] = Len(sent)]
    /\ UNCHANGED <<queue, closed, actor, killshot, sent, handled>>

WaitForPendingCommands(c) ==
    /\ Begin(c, "wait")
    /\ Acquire(c, Capacity)
    /\ target' = [target EXCEPT ![c] = Len(sent)]
    /\ UNCHANGED <<queue, closed, actor, killshot, sent, handled>>

(* The permit is used: the message enters the channel, unless the receiver *)
(* went away in the meantime, when it is dropped without an error.         *)
Push(c) ==
    /\ state[c] = "granted" /\ op[c] = "send"
    /\ state' = [state EXCEPT ![c] = "ready"]
    /\ IF closed THEN UNCHANGED <<queue, sent>>
       ELSE /\ queue' = Append(queue, <<c, count[c]>>)
            /\ sent' = Append(sent, <<c, count[c]>>)
    /\ UNCHANGED <<permits, waiters, closed, op, count, actor, killshot, handled, target>>

(* The permits of a wait are dropped as soon as they are there. *)
WaitDone(c) ==
    /\ state[c] = "granted" /\ op[c] = "wait"
    /\ Release(waiters, Capacity, [state EXCEPT ![c] = "ready"])
    /\ op' = [op EXCEPT ![c] = "waited"]
    /\ UNCHANGED <<queue, closed, count, actor, killshot, hist>>

(* send or reserve_many returned an error: signal the shutdown. *)
Fail(c) ==
    /\ state[c] = "failed"
    /\ state' = [state EXCEPT ![c] = "ready"]
    /\ killshot' = TRUE
    /\ UNCHANGED <<channel, op, count, actor, hist>>

(* Faulty: the permits of a cancelled acquisition are forgotten. *)
CancelLeaking(c) ==
    /\ \/ /\ state[c] = "acquiring"
          /\ \E i \in DOMAIN waiters : /\ waiters[i].client = c
                                       /\ waiters' = Without(waiters, i)
       \/ state[c] = "granted" /\ UNCHANGED waiters
    /\ state' = [state EXCEPT ![c] = "gone"]
    /\ UNCHANGED <<queue, permits, closed, op, count, actor, killshot, hist>>

(* The request is dropped while its future waits: what it holds goes back. *)
Cancel(c) ==
    /\ \/ /\ state[c] = "acquiring"
          /\ \E i \in DOMAIN waiters :
                /\ waiters[i].client = c
                /\ Release(Without(waiters, i), waiters[i].got, [state EXCEPT ![c] = "gone"])
       \/ /\ state[c] = "granted"
          /\ Release(waiters, Need(c), [state EXCEPT ![c] = "gone"])
    /\ UNCHANGED <<queue, closed, op, count, actor, killshot, hist>>

(* A handler ends and drops its clone of the queue. *)
Leave(c) ==
    /\ state[c] = "ready"
    /\ state' = [state EXCEPT ![c] = "gone"]
    /\ UNCHANGED <<channel, op, count, actor, killshot, hist>>

-----------------------------------------------------------------------------
(***************************************************************************)
(* CommandActor::work.                                                     *)
(***************************************************************************)

(* Faulty: the newest command first. *)
RecvNewest ==
    /\ actor = "idle" /\ queue # <<>>
    /\ queue' = SubSeq(queue, 1, Len(queue) - 1)
    /\ Release(waiters, 1, state)
    /\ actor' = "busy"
    /\ UNCHANGED <<closed, op, count, killshot, hist>>

(* recv: the slot is free again before the command is handled. *)
Recv ==
    /\ actor = "idle" /\ queue # <<>>
    /\ queue' = Tail(queue)
    /\ Release(waiters, 1, state)
    /\ actor' = "busy"
    /\ UNCHANGED <<closed, op, count, killshot, hist>>

(* Faulty: `if let` in place of `while let`. *)
HandleCommandOnce ==
    /\ actor = "busy"
    /\ actor' = "stopped"
    /\ handled' = handled + 1
    /\ UNCHANGED <<channel, clients, killshot, sent, target>>

HandleCommand ==
    /\ actor = "busy"
    /\ actor' = "idle"
    /\ handled' = handled + 1
    /\ UNCHANGED <<channel, clients, killshot, sent, target>>

(* A panic in the handler unwinds through `work` and drops the receiver:   *)
(* messages are lost, waiting senders get an error.                        *)
Panic ==
    /\ actor = "busy"
    /\ actor' = "panicked"
    /\ closed' = TRUE
    /\ queue' = <<>> /\ waiters' = <<>>
    /\ state' = [c \in Client |-> IF state[c] = "acquiring" THEN "failed" ELSE state[c]]
    /\ UNCHANGED <<permits, op, count, killshot, hist>>

(* recv returns None once every sender is gone and the channel is empty.   *)
Stop ==
    /\ actor = "idle" /\ queue = <<>>
    /\ \A c \in Client : state[c] = "gone"
    /\ actor' = "stopped"
    /\ UNCHANGED <<channel, clients, killshot, hist>>

(* The panic leaves `run`, and with it the process or the test: the tasks  *)
(* of the clients are dropped wherever they wait.                          *)
Unwind ==
    /\ actor = "panicked"
    /\ \E c \in Client : state[c] # "gone"
    /\ state' = [c \in Client |-> "gone"]
    /\ UNCHANGED <<channel, op, count, actor, killshot, hist>>

ClientStep(c) == Push(c) \/ WaitDone(c) \/ Fail(c)

ActorStep == Recv \/ HandleCommand \/ Panic \/ Unwind \/ Stop

Next ==
    \/ ActorStep
    \/ \E c \in Client : \/ ClientStep(c)
                         \/ Send(c) \/ WaitForPendingCommands(c)
                         \/ Cancel(c) \/ Leave(c)

Spec == Init /\ [][Next]_vars

(* The runtime polls every task that is ready; nothing forces a client to  *)
(* start an operation, to give up or to leave.                             *)
FairSpec ==
    /\ Spec
    /\ WF_vars(ActorStep)
    /\ \A c \in Client : WF_vars(ClientStep(c))

-----------------------------------------------------------------------------
(* What is set aside for those who wait, and what is granted and not used. *)
SetAside(ws) == [i \in DOMAIN ws |-> ws[i].got]
Held(st) == [c \in Client |-> IF st[c] = "granted" THEN Need(c) ELSE 0]

(* No slot of the channel is ever lost or counted twice: free permits,     *)
(* permits set aside for a waiter, granted ones and messages add up, also  *)
(* after cancelled sends and waits.                                        *)
PermitsConserved ==
    ~closed => permits + Len(queue) + Total(SetAside(waiters)) + SumOver(Held(state), Client)
                 = Capacity

(* When wait_for_pending_commands returns, the actor has taken every       *)
(* command that was queued at the call, and only the last of them may      *)
(* still be in its hands: handlers run in tasks of their own, and the slot *)
(* of a command is free before the command has run.                        *)
WaitLeavesAtMostOne ==
    \A c \in Client : op[c] = "waited" =>
        handled >= target[c] - (IF actor = "busy" \/ closed THEN 1 ELSE 0)

(* With its permits, waiters and cancellations the queue implements the    *)
(* mailbox: commands are taken one at a time and in the order in which     *)
(* they were accepted, never more of them wait than there are slots, and   *)
(* only a panic drops any (CommandQueue, CommandActor::work).              *)
Box == INSTANCE Mailbox WITH
          Message  <- Client \X (1..MaxOps),
          accepted <- sent,
          inbox    <- queue,
          busy     <- actor = "busy",
          finished <- handled,
          broken   <- closed

ImplementsMailbox == Box!Spec

(* An operation that waits for slots gets them or an error: senders and    *)
(* waiters are never stuck, whatever the mixture of sizes.                 *)
OperationsComplete ==
    \A c \in Client : state[c] \in {"acquiring", "granted", "failed"}
                        ~> state[c] \in {"ready", "gone"}

(* A command that entered the channel is handled unless the actor panics.  *)
AcceptedIsHandled ==
    \A n \in 1..(MaxOps * Cardinality(Client)) :
        Len(sent) >= n ~> (handled >= n \/ actor = "panicked")
=============================================================================
