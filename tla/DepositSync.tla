------------------------------ MODULE DepositSync ------------------------------
(***************************************************************************)
(* The deposit service (crates/gateway/src/deposit.rs), the start and the  *)
(* reconnection of it in main.rs, and what it shares with submissions: the *)
(* ledger under the state's mutex, the balance rows and the sync cursor.   *)
(*                                                                         *)
(* A step is what the task does between two awaits. Deposits are credited  *)
(* under the lock; their rows and the cursor are written after it, one by  *)
(* one, and submissions may come in between. RPC calls and writes may      *)
(* fail, the stream may end and the process may die at any step.           *)
(***************************************************************************)
EXTENDS Ledger, Sequences

CONSTANTS Chains,       \* the chains to explore: sequences of blocks, a block
                        \* being a sequence of deposits [user, token, amount]
          CHUNK_SIZE,
          contract_deploy_block,
          OrderSize,    \* the collateral of an order
          MaxLag,       \* bound: how far behind the node of a new connection is
          MaxFaults     \* bound: failed calls, ended streams, crashes

ASSUME SyncAssumption ==
  /\ CHUNK_SIZE \in Nat \ {0} /\ contract_deploy_block \in Nat \ {0}
  /\ OrderSize \in Amounts /\ MaxLag \in Nat /\ MaxFaults \in Nat

Deposits == [user : Users, token : Tokens, amount : Amounts]

\* The events of a block, as the node delivers them.
EventsOf(blocks, b) ==
  [j \in DOMAIN blocks[b] |-> [deposit |-> blocks[b][j], block_number |-> b]]

EventsIn(blocks, from_block, to_block) ==
  LET upto[b \in (from_block - 1)..to_block] ==
        IF b < from_block THEN <<>> ELSE upto[b - 1] \o EventsOf(blocks, b)
  IN  upto[to_block]

\* What events of later blocks deposit for a user.
Counted(e, block, user, token) ==
  IF e.block_number > block /\ e.deposit.user = user /\ e.deposit.token = token
    THEN e.deposit.amount ELSE 0

Deposited(events, block, user, token) ==
  LET upto[i \in 0..Len(events)] ==
        IF i = 0 THEN 0 ELSE upto[i - 1] + Counted(events[i], block, user, token)
  IN  upto[Len(events)]

\* There are no deposits before the contract is there, and a token's deposits can be
\* counted in a word.
ASSUME ChainsAssumption ==
  \A blocks \in Chains :
    /\ blocks \in Seq(Seq(Deposits)) /\ contract_deploy_block <= Len(blocks)
    /\ \A b \in 1..(contract_deploy_block - 1) : blocks[b] = <<>>
    /\ \A u \in Users, t \in Tokens : Deposited(EventsIn(blocks, 1, Len(blocks)), 0, u, t) < Word

VARIABLES
  chain,            \* the blocks, from block 1
  node,             \* the last block the gateway's node has seen
  stream,           \* the subscription: deposits not taken yet, or NoStream
  \* AppState and what is stored
  ledger,
  resting,          \* the users and tokens with collateral in an order
  db,               \* [balances, last_synced_block]
  serving,          \* the server has started
  \* locals of the deposit task
  phase,            \* "head", "subscribe", "sync" (historical) or "live"
  head, current, last_synced, last_persisted_block,
  writing,          \* the writes left in the closure of spawn_blocking
  \* bookkeeping
  faults,
  exact             \* no synchronisation so far began in a wrong state

chain_vars == <<chain, node, stream>>
state_vars == <<ledger, resting, db, serving>>
task_vars == <<phase, head, current, last_synced, last_persisted_block, writing>>
vars == <<chain_vars, state_vars, task_vars, faults, exact>>

\* last_synced_block of a database without one.
NoBlock == 0

NoStream == <<[block_number |-> NoBlock]>>

Rows == [kind : {"row"}, user : Users, token : Tokens, balance : Balances]
Cursors == [kind : {"cursor"}, block : Nat]

ZeroLedger == [u \in Users |-> [t \in Tokens |-> [available |-> 0, reserved |-> 0]]]

Init ==
  /\ chain \in Chains /\ node \in DOMAIN chain /\ stream = NoStream
  /\ ledger = ZeroLedger /\ resting = {}
  /\ db = [balances |-> ZeroLedger, last_synced_block |-> NoBlock]
  /\ serving = FALSE
  /\ phase = "head" /\ head = 0 /\ current = 0
  /\ last_synced = 0 /\ last_persisted_block = 0 /\ writing = <<>>
  /\ faults = 0 /\ exact = TRUE

-----------------------------------------------------------------------------
(* The chain                                                               *)

\* Mutant: the range leaves its last block out.
DepositsBefore(from_block, to_block) == EventsIn(chain, from_block, to_block - 1)

\* get_deposits_in_range: the logs of these blocks, in order.
DepositsIn(from_block, to_block) == EventsIn(chain, from_block, to_block)

\* The node sees the next block, and a subscription gets its deposits.
NodeAdvances ==
  /\ node < Len(chain)
  /\ node' = node + 1
  /\ stream' = IF stream = NoStream THEN NoStream ELSE stream \o DepositsIn(node + 1, node + 1)
  /\ UNCHANGED <<chain, state_vars, task_vars, faults, exact>>

\* What was deposited for a user up to a block.
OnChain(user, token, block) == Deposited(EventsIn(chain, 1, block), 0, user, token)

Held(balance) == Add(balance.available, balance.reserved)

\* Balances that count the deposits of the blocks up to this one, each once.
Agrees(balances, block) ==
  \A u \in Users, t \in Tokens : Held(balances[u][t]) = OnChain(u, t, block)

-----------------------------------------------------------------------------
(* The deposit task                                                        *)

\* get_block_number, at the start and after every backoff.
GetHead ==
  /\ phase = "head"
  /\ head' = node /\ phase' = "subscribe"
  /\ UNCHANGED <<chain_vars, state_vars, current, last_synced, last_persisted_block,
                 writing, faults, exact>>

\* Mutant: the synchronised block is synchronised again.
StartAtCursor ==
  IF db.last_synced_block = NoBlock THEN contract_deploy_block ELSE db.last_synced_block

StartBlock ==
  IF db.last_synced_block = NoBlock THEN contract_deploy_block ELSE db.last_synced_block + 1

\* The subscription, then the first lines of sync_historical. What follows is
\* right if ledger and rows hold exactly the blocks up to the cursor, and no deposit
\* came between the head that was read and the subscription.
Subscribe ==
  /\ phase = "subscribe"
  /\ stream' = <<>> /\ current' = StartBlock /\ phase' = "sync"
  /\ exact' = (/\ exact
               /\ Agrees(ledger, db.last_synced_block)
               /\ Agrees(db.balances, db.last_synced_block)
               /\ \A b \in (head + 1)..node : b <= db.last_synced_block \/ chain[b] = <<>>)
  /\ UNCHANGED <<chain, node, state_vars, head, last_synced, last_persisted_block,
                 writing, faults>>

CreditAll(balances, deposits) ==
  LET upto[i \in 0..Len(deposits)] ==
        IF i = 0 THEN balances
        ELSE Credit(upto[i - 1], deposits[i].deposit.user, deposits[i].deposit.token,
                    deposits[i].deposit.amount)
  IN  upto[Len(deposits)]

\* The row of a deposit's balance, copied while the lock is held.
BalanceSave(balances, d) ==
  [kind |-> "row", user |-> d.deposit.user, token |-> d.deposit.token,
   balance |-> balances[d.deposit.user][d.deposit.token]]

CursorSave(block) == [kind |-> "cursor", block |-> block]

ChunkEnd == Min({current + CHUNK_SIZE - 1, head})

\* One chunk: its deposits are fetched and credited, its writes begin.
SyncChunk ==
  /\ phase = "sync" /\ writing = <<>> /\ current <= head
  /\ LET deposits == DepositsIn(current, ChunkEnd)
     IN  /\ ledger' = CreditAll(ledger, deposits)
         /\ writing' = [i \in DOMAIN deposits |-> BalanceSave(ledger', deposits[i])]
                         \o <<CursorSave(ChunkEnd)>>
  /\ current' = ChunkEnd + 1
  /\ UNCHANGED <<chain_vars, resting, db, serving, phase, head, last_synced,
                 last_persisted_block, faults, exact>>

\* Mutant: the head alone is the boundary.
HeadAsBoundary == head

\* The cursor may be ahead of the head of another connection.
Boundary == Max({db.last_synced_block, head})

\* The historical deposits are in: the live loop starts, and the server with the
\* first one.
GoLive ==
  /\ phase = "sync" /\ writing = <<>> /\ current > head
  /\ phase' = "live" /\ serving' = TRUE
  /\ last_synced' = Boundary /\ last_persisted_block' = Boundary
  /\ UNCHANGED <<chain_vars, ledger, resting, db, head, current, writing, faults, exact>>

\* An event the historical synchronisation covered.
SkipCovered ==
  /\ phase = "live" /\ writing = <<>> /\ stream # <<>>
  /\ Head(stream).block_number <= last_synced
  /\ stream' = Tail(stream)
  /\ UNCHANGED <<chain, node, state_vars, task_vars, faults, exact>>

\* Mutant: the cursor stays a block behind.
AdvanceToPrevious(d) ==
  IF d.block_number > last_persisted_block THEN <<CursorSave(d.block_number - 1)>> ELSE <<>>

AdvanceBlock(d) ==
  IF d.block_number > last_persisted_block THEN <<CursorSave(d.block_number)>> ELSE <<>>

CreditLive ==
  /\ phase = "live" /\ writing = <<>> /\ stream # <<>>
  /\ LET d == Head(stream)
     IN  /\ d.block_number > last_synced
         /\ ledger' = CreditAll(ledger, <<d>>)
         /\ writing' = <<BalanceSave(ledger', d)>> \o AdvanceBlock(d)
         /\ last_persisted_block' = Max({last_persisted_block, d.block_number})
  /\ stream' = Tail(stream)
  /\ UNCHANGED <<chain, node, resting, db, serving, phase, head, current, last_synced,
                 faults, exact>>

\* save_balance: INSERT OR REPLACE, whatever was stored since the copy.
SaveBalance ==
  /\ writing # <<>> /\ Head(writing).kind = "row"
  /\ db' = [db EXCEPT !.balances[Head(writing).user][Head(writing).token] = Head(writing).balance]
  /\ writing' = Tail(writing)
  /\ UNCHANGED <<chain_vars, ledger, resting, serving, phase, head, current, last_synced,
                 last_persisted_block, faults, exact>>

SetLastSyncedBlock ==
  /\ writing # <<>> /\ Head(writing).kind = "cursor"
  /\ db' = [db EXCEPT !.last_synced_block = Head(writing).block]
  /\ writing' = Tail(writing)
  /\ UNCHANGED <<chain_vars, ledger, resting, serving, phase, head, current, last_synced,
                 last_persisted_block, faults, exact>>

Task == \/ GetHead \/ Subscribe \/ SyncChunk \/ GoLive \/ SkipCovered \/ CreditLive
        \/ SaveBalance \/ SetLastSyncedBlock

-----------------------------------------------------------------------------
(* Faults                                                                  *)

\* Mutant: the stream of the old connection is kept.
KeepStream ==
  /\ faults < MaxFaults /\ faults' = faults + 1
  /\ node' \in Max({1, node - MaxLag})..node
  /\ phase' = "head" /\ writing' = <<>>
  /\ UNCHANGED <<chain, stream, head, current, last_synced, last_persisted_block, resting, db, exact>>

\* A new connection may reach a node that is behind.
NewConnection ==
  /\ faults < MaxFaults /\ faults' = faults + 1
  /\ node' \in Max({1, node - MaxLag})..node
  /\ stream' = NoStream /\ phase' = "head" /\ writing' = <<>>
  /\ UNCHANGED <<chain, head, current, last_synced, last_persisted_block, resting, db, exact>>

\* An RPC call or a write fails, or the stream ends. Once the server has started,
\* the task is started anew after a backoff; before, an error ends the process.
Reconnect ==
  /\ serving
  /\ NewConnection
  /\ UNCHANGED <<ledger, serving>>

\* The process dies, or ends with an error, and is started again: main loads the
\* balances and goes on to read the head.
Restart ==
  /\ NewConnection
  /\ ledger' = db.balances /\ serving' = FALSE

-----------------------------------------------------------------------------
(* Submissions and cancels, as far as they touch balances                  *)

\* The transaction of a handler stores a snapshot of the whole ledger.
SaveSnapshot == db' = [db EXCEPT !.balances = ledger']

SubmitOrder(user, token) ==
  /\ serving /\ <<user, token>> \notin resting
  /\ CanReserve(ledger, user, token, OrderSize)
  /\ ledger' = Reserve(ledger, user, token, OrderSize)
  /\ resting' = resting \cup {<<user, token>>}
  /\ SaveSnapshot
  /\ UNCHANGED <<chain_vars, serving, task_vars, faults, exact>>

CancelOrder(user, token) ==
  /\ serving /\ <<user, token>> \in resting
  /\ ledger' = Release(ledger, user, token, OrderSize)
  /\ resting' = resting \ {<<user, token>>}
  /\ SaveSnapshot
  /\ UNCHANGED <<chain_vars, serving, task_vars, faults, exact>>

Next ==
  \/ NodeAdvances
  \/ Task
  \/ Reconnect
  \/ Restart
  \/ \E u \in Users, t \in Tokens : SubmitOrder(u, t)
  \/ \E u \in Users, t \in Tokens : CancelOrder(u, t)

\* The node goes on, and the task has nothing to wait for but its calls.
Fairness == WF_vars(NodeAdvances) /\ WF_vars(Task)

Spec == Init /\ [][Next]_vars /\ Fairness

-----------------------------------------------------------------------------
(* Properties                                                              *)

TypeOK ==
  /\ chain \in Chains /\ node \in DOMAIN chain
  /\ ledger \in Ledgers /\ db.balances \in Ledgers
  /\ resting \subseteq Users \X Tokens
  /\ db.last_synced_block \in 0..Len(chain)
  /\ phase \in {"head", "subscribe", "sync", "live"}
  /\ phase \in {"sync", "live"} <=> stream # NoStream
  /\ phase = "live" => serving
  /\ \A i \in DOMAIN writing : writing[i] \in Rows \cup Cursors
  /\ writing # <<>> => phase \in {"sync", "live"}
  /\ head \in 0..Len(chain) /\ current \in 0..(Len(chain) + 1)
  /\ faults \in 0..MaxFaults

\* The deposits of the stream that the live loop will not skip.
StillToCome(user, token) == Deposited(stream, last_synced, user, token)

\* Every deposit is credited exactly once, by the historical synchronisation, by
\* the live loop, or by one and not the other where they meet: with those still
\* in the stream, the ledger holds the deposits of all blocks passed.
EachDepositOnce ==
  exact =>
    /\ phase = "sync" => Agrees(ledger, current - 1)
    /\ phase = "live" =>
         \A u \in Users, t \in Tokens :
           Held(ledger[u][t]) + StillToCome(u, t) = OnChain(u, t, Max({node, last_synced}))

\* Between two writes of the task, when no deposit of the cursor's block is left in
\* the stream, the rows hold exactly the blocks up to the cursor: a crash now
\* neither loses nor repeats a deposit.
CursorMatchesRows ==
  /\ exact /\ phase \in {"sync", "live"} /\ writing = <<>>
  /\ \A i \in DOMAIN stream : stream[i].block_number # db.last_synced_block
  => Agrees(db.balances, db.last_synced_block)

\* The cursor does not go back, across reconnections and restarts.
CursorMovesForward == [][db'.last_synced_block >= db.last_synced_block]_vars

\* However often calls fail and the process dies, in the end the loop is live and
\* every deposit is credited.
EventuallyCredited ==
  <>[](phase = "live" /\ (exact => Agrees(ledger, Len(chain))))

-----------------------------------------------------------------------------
(* What the README says, and the code does not do                          *)

\* "The gateway server watches for those deposits and tracks balances in a local
\* SQLite database" (README.md): between two writes of the task the stored
\* balances are those of the ledger.
BalancesStored == phase = "live" /\ writing = <<>> => db.balances = ledger
=============================================================================
