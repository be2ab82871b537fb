-------------------------------- MODULE Node --------------------------------
(***************************************************************************)
(* The node as the consensus client (op-node) and the users see it: the    *)
(* JSON-RPC handlers, which run in tasks of their own, the command queue,  *)
(* and behind it the Application, whose actions handle one command at a    *)
(* time.                                                                   *)
(*                                                                         *)
(* A handler that changes something only puts a command in the queue and   *)
(* answers at once.  engine_forkchoiceUpdatedV3 answers VALID together     *)
(* with a payload id before anything is built, and the answer to a request *)
(* for block zero is on its way before that block is stored; the queue is  *)
(* memory and dies with the process.                                       *)
(*                                                                         *)
(* The consensus client is external: it learns the genesis block, then for *)
(* every block asks for a build on its head, fetches the payload, submits  *)
(* it with engine_newPayloadV3 and makes it its head.                      *)
(***************************************************************************)
EXTENDS Application

CONSTANTS RawTx,       \* what users submit: signed transactions and Unsupported
          Unsupported, \* an EIP-4844 transaction
          Capacity,    \* max_buffered_commands
          IdBase       \* bound on timestamps, to number the payload ids

ASSUME NodeAssumption ==
    /\ Unsupported \notin Tx
    /\ RawTx \subseteq Canonical \cup {Unsupported}
    /\ Capacity \in Nat \ {0}
    /\ IdBase \in Nat

(* What makes the numbering of the payload ids injective, as SHA-256 is.   *)
ASSUME IdAssumption == \A p \in Payload : p.timestamp \in 1..IdBase

VARIABLES queue,    \* commands waiting for the actor
          (* the consensus client *)
          phase,    \* syncing, ready, building or sealed
          head,     \* hash of the block it takes for the head
          asked,    \* attributes of the build it asked for on that head
          asked_id, \* the payload id it was given for them
          fetched,  \* hash of the block it fetched last
          (* history *)
          accepted, \* transactions that eth_sendRawTransaction answered for
          lost,     \* did the process ever end?
          changed   \* did the client ever change a request it repeated?

client == <<phase, head, asked, asked_id, fetched>>
seen == <<accepted, lost, changed>>
rpc == <<queue, client, seen>>
nodeVars == <<vars, rpc>>

NoAttributes == [timestamp |-> 0, transactions |-> <<>>]

GenesisHash == BlockHash(GenesisBlock.header)

Message ==
    [command : {"AddTransaction"}, tx : RawTx]
      \cup [command : {"GenesisUpdate"}]
      \cup [command : {"StartBlockBuild"}, attributes : Payload, id : PayloadId]

(* SHA-256 over the head, the timestamp and fields that never change here, *)
(* as a number: different heads and timestamps give different ids.  The    *)
(* transactions of the attributes are not part of it.                      *)
NewPayloadId(parent, timestamp) == parent.keccak256.number * IdBase + timestamp

NodeInit ==
    /\ Init
    /\ queue = <<>>
    /\ phase = "syncing" /\ head = NoHash /\ fetched = NoHash
    /\ asked = NoAttributes /\ asked_id = 0
    /\ accepted = {} /\ lost = FALSE /\ changed = FALSE

-----------------------------------------------------------------------------
(***************************************************************************)
(* Requests.                                                               *)
(***************************************************************************)

(* The servers are bound once initialize_app has returned. *)
Serving == pc \notin {"down", "panicked", "genesis_state", "genesis_evm"}

(* CommandQueue::send: waits for a slot. *)
Enqueue(message) ==
    /\ Len(queue) < Capacity
    /\ queue' = Append(queue, message)

SendRawTransaction(tx) ==
    /\ Serving
    /\ Enqueue([command |-> "AddTransaction", tx |-> tx])
    /\ accepted' = accepted \cup {tx}
    /\ UNCHANGED <<vars, client, lost, changed>>

(* Faulty: with the queue full the update is dropped (try_send).           *)
GetGenesisBlockDropping ==
    /\ Serving
    /\ \/ Enqueue([command |-> "GenesisUpdate"])
       \/ Len(queue) = Capacity /\ UNCHANGED queue
    /\ IF phase = "syncing" THEN phase' = "ready" /\ head' = GenesisHash
       ELSE UNCHANGED <<phase, head>>
    /\ UNCHANGED <<vars, asked, asked_id, fetched, seen>>

(* eth_getBlockByNumber 0x0: op-geth's answer is passed on and its block   *)
(* becomes this node's genesis block.  Anybody may ask at any time.        *)
GetGenesisBlock ==
    /\ Serving
    /\ Enqueue([command |-> "GenesisUpdate"])
    /\ IF phase = "syncing" THEN phase' = "ready" /\ head' = GenesisHash
       ELSE UNCHANGED <<phase, head>>
    /\ UNCHANGED <<vars, asked, asked_id, fetched, seen>>

(* engine_forkchoiceUpdatedV3 with attributes.  The head is not looked at  *)
(* except to form the payload id.                                          *)
ForkchoiceUpdated(attributes) ==
    /\ Serving
    /\ phase = "ready" /\ phase' = "building"
    /\ attributes.timestamp > head.keccak256.timestamp
    /\ asked' = attributes
    /\ changed' = (changed \/ asked \notin {NoAttributes, attributes})
    /\ asked_id' = NewPayloadId(head, attributes.timestamp)
    /\ asked_id' \in PayloadId
    /\ Enqueue([command |-> "StartBlockBuild", attributes |-> attributes, id |-> asked_id'])
    /\ UNCHANGED <<vars, head, fetched, accepted, lost>>

(* engine_getPayloadV3: the block, or "Unknown payload", upon which the    *)
(* client asks for the build again.                                        *)
GetPayload ==
    /\ Serving
    /\ phase = "building"
    /\ IF asked_id \in DOMAIN payloads
       THEN phase' = "sealed" /\ fetched' = payloads[asked_id]
       ELSE phase' = "ready" /\ UNCHANGED fetched
    /\ UNCHANGED <<vars, queue, head, asked, asked_id, seen>>

(* engine_newPayloadV3: VALID when a block of that hash is stored; its     *)
(* fields are then compared with the stored ones, and the client sends     *)
(* what it was given.  The forkchoice update that follows has no           *)
(* attributes and changes nothing.                                         *)
NewPayload ==
    /\ Serving
    /\ phase = "sealed" /\ phase' = "ready"
    /\ fetched \in HashesOf(blocks)
    /\ head' = fetched
    /\ asked' = NoAttributes
    /\ UNCHANGED <<vars, queue, asked_id, fetched, seen>>

-----------------------------------------------------------------------------
(***************************************************************************)
(* The actor and the process.                                              *)
(***************************************************************************)
Handle(message) ==
    \/ /\ message.command = "AddTransaction"
       /\ IF message.tx = Unsupported THEN AddUnsupportedTransaction
          ELSE AddTransaction(message.tx)
    \/ /\ message.command = "GenesisUpdate"
       /\ GenesisUpdate
    \/ /\ message.command = "StartBlockBuild"
       /\ \/ BuildKnownPayload(message.id)
          \/ StartBlockBuild(message.attributes, message.id)
          \/ BuildWithoutParent(message.id)

(* The actor takes the oldest command; a panic takes the queue along. *)
HandleCommand ==
    /\ queue # <<>>
    /\ Handle(Head(queue))
    /\ queue' = IF pc' = "panicked" THEN <<>> ELSE Tail(queue)
    /\ lost' = (lost \/ pc' = "panicked")
    /\ UNCHANGED <<client, accepted, changed>>

(* A command in progress, or the start of the process. *)
Work ==
    /\ Start \/ GenesisState \/ GenesisEvm \/ BuildStep
    /\ UNCHANGED rpc

EndProcess ==
    /\ Crash
    /\ queue' = <<>>
    /\ lost' = TRUE
    /\ UNCHANGED <<client, accepted, changed>>

NodeNext ==
    \/ \E tx \in RawTx : SendRawTransaction(tx)
    \/ GetGenesisBlock
    \/ \E p \in Payload : ForkchoiceUpdated(p)
    \/ GetPayload \/ NewPayload
    \/ HandleCommand \/ Work \/ EndProcess

NodeSpec == NodeInit /\ [][NodeNext]_nodeVars

(* The actor, the process that panics and the one restarted keep going;    *)
(* nobody owes a kill.  The client keeps asking and its requests get their *)
(* slot, the queue being first come first served.  Users owe nothing.      *)
NodeFairSpec ==
    /\ NodeSpec
    /\ WF_nodeVars(HandleCommand) /\ WF_nodeVars(Work)
    /\ WF_nodeVars(ExecutionPanics /\ EndProcess)
    /\ SF_nodeVars(\E p \in Payload : ForkchoiceUpdated(p))
    /\ SF_nodeVars(GetPayload)

-----------------------------------------------------------------------------
(* Commands and client keep to the values the handlers give them. *)
NodeTypeOK ==
    /\ queue \in Seq(Message) /\ Len(queue) <= Capacity
    /\ phase \in {"syncing", "ready", "building", "sealed"}
    /\ asked_id \in PayloadId \cup {0}
    /\ asked \in Payload \cup {NoAttributes}
    /\ accepted \subseteq RawTx
    /\ lost \in BOOLEAN /\ changed \in BOOLEAN

(* expect("Parent block should exist") in start_block_build: a build that  *)
(* reaches the actor finds the genesis block in place.                     *)
ParentExists ==
    (pc = "idle" /\ queue # <<>> /\ Head(queue).command = "StartBlockBuild"
        /\ ~IsKnown(Head(queue).id)) => blocks # <<>>

(* ... which the order of the queue ensures until a process ends.          *)
CleanParentExists == ~lost => ParentExists

(* What the client was given stays: its head and the payload in its hands  *)
(* are blocks of the chain, across crashes and repeated genesis updates,   *)
(* so engine_newPayloadV3 never answers "Unknown block hash" to it.        *)
ClientBlocksStored ==
    /\ head \in HashesOf(blocks) \cup {NoHash, GenesisHash}
    /\ phase = "sealed" => fetched \in HashesOf(blocks)

(* A transaction that eth_sendRawTransaction answered for is on its way to *)
(* a block or in one, as long as the process lives.                        *)
CleanAccounted ==
    ~lost => \A tx \in accepted \ {Unsupported} :
        \/ \E i \in DOMAIN queue : queue[i].command = "AddTransaction" /\ queue[i].tx = tx
        \/ tx \in mem_pool \cup Range(pending) \cup Range(included)
        \/ \E i \in DOMAIN blocks : tx \in Range(blocks[i].header.transactions)

(* A client that repeats its request unchanged gets a block on top of the  *)
(* head it named, with its timestamp and, but for what earlier blocks have,*)
(* with the transactions it listed, although the builder looks neither at  *)
(* the head nor, when the id is known, at the attributes.                  *)
CleanAsRequested ==
    (~torn /\ ~changed /\ phase = "sealed") =>
        \E i \in DOMAIN blocks :
            /\ fetched = BlockHash(blocks[i].header)
            /\ blocks[i].header.parent_hash = head
            /\ blocks[i].header.timestamp = asked.timestamp
            /\ \A tx \in Range(asked.transactions) \ {Undecodable} :
                  \E j \in 1..i : tx \in Range(blocks[j].header.transactions)

(* Of the transactions that the client lists and no receipt is stored for, *)
(* none ends the process and the first has room for the L1 fee parameters. *)
Buildable(attributes) ==
    LET surviving == SelectSeq(attributes.transactions, LAMBDA tx : ~IsDropped(tx))
    IN  /\ Range(surviving) \cap Unexecutable = {}
        /\ surviving # <<>> => Head(surviving) \notin Short

(* A client that keeps asking gets its payload, over kills, panics and     *)
(* queues lost with them, or comes to ask for a list on which every build  *)
(* panics, for it is back with every retry.  Two more ways to go without   *)
(* are left out: a kill that cost the node its genesis block, and users    *)
(* who keep sending unsupported transactions (none in RawTx).              *)
PayloadDelivered ==
    (phase = "building" /\ blocks # <<>>) ~>
        (phase = "sealed" \/ ~Buildable(asked))
=============================================================================
