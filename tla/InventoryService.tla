------------------------- MODULE InventoryService --------------------------
(***************************************************************************)
(* The inventory thread (src/inventory/inventory_service.cpp): it takes    *)
(* SPLIT, MERGE and REDEEM requests one at a time, turns each into a       *)
(* transaction (through the relayer or straight to an RPC node), polls for *)
(* its outcome and then corrects the TokenInventory that T1's fills, the   *)
(* account poller and the SELL gate share.  The chain and the exchange's   *)
(* matching are the environment; a call to them may fail, and may fail     *)
(* after it has had its effect.                                            *)
(***************************************************************************)
EXTENDS Integers, Sequences

CONSTANTS QueueCap,     \* capacity of the request queue
          MaxPolls,     \* relayer_max_poll_attempts
          MaxEvents     \* bound on commands, redemptions, fills and account polls

VARIABLE inv

\* tokens: the request names both tokens; hex: its condition id decodes.
OpRequests ==
    [op : {"SPLIT", "MERGE", "REDEEM"}, qty : 0 .. 2, tokens : BOOLEAN, hex : BOOLEAN]

NamedRequest(op, qty) == [op |-> op, qty |-> qty, tokens |-> TRUE, hex |-> TRUE]

Holdings == [up : Int, down : Int, usdc : Int]

\* How many pairs of tokens a request makes.
Amount(r) == CASE r.op = "SPLIT" -> r.qty [] r.op = "MERGE" -> -r.qty [] OTHER -> 0

Amounts == -2 .. 2

\* late: the transactions that the service no longer follows and that the
\* chain may still execute, by amount.  given_up, skipped: the pairs made by
\* operations that the service did not book, because it stopped following
\* them or because the request does not name its tokens.
InvInit ==
    \E transport \in {"rpc", "relayer", "none"}, dry_run \in BOOLEAN :
        inv = [transport |-> transport, dry_run |-> dry_run,
             queue |-> <<>>, events |-> 0, drained |-> TRUE,
             stop_requested |-> FALSE, stopped |-> FALSE,
             test_phase |-> "WAIT_FOR_BBO",
             req |-> NamedRequest("REDEEM", 0),
             phase |-> "idle", label |-> "op", attempt |-> 0, tx |-> "none",
             usdc_approved |-> FALSE,
             inventory |-> [up |-> 1, down |-> 1, usdc |-> 2],
             chain |-> [up |-> 1, down |-> 1, usdc |-> 2],
             fills |-> {}, balance |-> -1,
             late |-> [n \in Amounts |-> 0], given_up |-> 0, skipped |-> 0,
             redeemed |-> FALSE, polled |-> FALSE]

\* A split or a merge, as the chain and the inventory see it.
Moved(holdings, n) == [holdings EXCEPT !.up = @ + n, !.down = @ + n, !.usdc = @ - n]

QueueFull(s) == Len(s.queue) >= QueueCap

\* Mutant: a request is queued whether or not there is room.
try_request_anyway(s, r) == [s EXCEPT !.queue = Append(@, r)]

try_request(s, r) == IF QueueFull(s) THEN s ELSE [s EXCEPT !.queue = Append(@, r)]

submit_inventory_tx(s, label) ==
    [s EXCEPT !.phase = IF s.transport = "rpc" THEN "gas" ELSE "payload",
              !.label = label, !.attempt = 0, !.tx = "none"]

\* Redeeming credits the larger side, whichever side won.
update_inventory(s) ==
    LET held == s.inventory
        larger == IF held.up > held.down THEN held.up ELSE held.down
    IN  IF ~s.req.tokens THEN [s EXCEPT !.skipped = @ + Amount(s.req)]
        ELSE IF s.req.op = "REDEEM" THEN
            [s EXCEPT !.inventory = [up |-> 0, down |-> 0, usdc |-> held.usdc + larger],
                      !.redeemed = TRUE]
        ELSE [s EXCEPT !.inventory = Moved(@, Amount(s.req))]

\* Mutant: every end that the relayer reports counts as done.
is_confirmed_if_terminal(state) == state # ""

is_confirmed(state) == state = "STATE_CONFIRMED"

\* A transaction without a final state is given up: its effect is on the
\* chain, or may be later.
gives_up(s) ==
    LET n == Amount(s.req)
    IN  CASE s.tx = "confirmed" -> [s EXCEPT !.given_up = @ + n]
          [] s.tx = "pending" /\ s.req.op # "REDEEM" -> [s EXCEPT !.late[n] = @ + 1]
          [] s.tx = "pending" /\ s.req.op = "REDEEM" -> [s EXCEPT !.redeemed = TRUE]
          [] OTHER -> s

\* A transaction's final state is back.
tx_returns(s, state) ==
    LET done == IF is_confirmed(state) THEN update_inventory(s)
                ELSE IF state = "" THEN gives_up(s) ELSE s
    IN  IF s.label = "approve"
        THEN submit_inventory_tx([s EXCEPT !.usdc_approved = TRUE], "op")
        ELSE [done EXCEPT !.phase = "idle", !.tx = "none", !.attempt = 0, !.label = "op",
                          !.req = NamedRequest("REDEEM", 0)]

ensure_usdc_approved(s) ==
    submit_inventory_tx(s, IF s.req.op = "SPLIT" /\ ~s.usdc_approved
                           THEN "approve" ELSE "op")

handle_request(s, r) ==
    LET t == [s EXCEPT !.req = r]
    IN  IF s.transport = "none" \/ ~r.hex THEN s
        ELSE IF s.dry_run THEN [update_inventory(t) EXCEPT !.req = s.req]
        ELSE ensure_usdc_approved(t)

\* eth_gasPrice and its ceiling, then eth_getTransactionCount.
submit_direct_rpc_tx(s, ok) ==
    IF ~ok THEN tx_returns(s, "")
    ELSE [s EXCEPT !.phase = IF s.phase = "gas" THEN "nonce" ELSE "submit"]

submit_proxy_tx(s, ok) ==
    IF ~ok THEN tx_returns(s, "") ELSE [s EXCEPT !.phase = "submit"]

\* taken: the transaction is on its way; answered: and the caller hears so.
send_transaction(s, taken, answered) ==
    LET t == [s EXCEPT !.tx = IF taken THEN "pending" ELSE "none"]
    IN  IF taken /\ answered THEN [t EXCEPT !.phase = "poll"] ELSE tx_returns(t, "")

immediately_failed(s) == tx_returns(s, "STATE_FAILED")

poll_transaction(s, heard) ==
    LET t == [s EXCEPT !.attempt = @ + 1]
    IN  CASE s.stop_requested -> tx_returns(s, "")
          [] ~s.stop_requested /\ heard /\ s.tx = "confirmed" -> tx_returns(t, "STATE_CONFIRMED")
          [] ~s.stop_requested /\ heard /\ s.tx = "failed" -> tx_returns(t, "STATE_FAILED")
          [] OTHER -> IF t.attempt = MaxPolls THEN tx_returns(t, "") ELSE t
-----------------------------------------------------------------------------
\* The inventory test strategy asks for one operation after the other; a
\* refused request or an overdue hold ends it, the outcomes of its requests
\* are not looked at.
test_asks(s, r, next) ==
    IF QueueFull(s) THEN [s EXCEPT !.test_phase = "DONE"]
    ELSE [try_request(s, r) EXCEPT !.test_phase = next]

handle_wait_for_bbo ==
    /\ inv.test_phase = "WAIT_FOR_BBO"
    /\ inv' = test_asks(inv, NamedRequest("SPLIT", 2), "WAIT_SPLIT_HOLD")

check_timeout ==
    /\ inv.test_phase = "WAIT_SPLIT_HOLD"
    /\ inv' = [inv EXCEPT !.test_phase = "DONE"]

handle_wait_split_hold ==
    /\ inv.test_phase = "WAIT_SPLIT_HOLD"
    /\ inv' = test_asks(inv, NamedRequest("MERGE", 1), "WAIT_RESOLVED")

handle_wait_resolved ==
    /\ inv.test_phase = "WAIT_RESOLVED"
    /\ inv' = test_asks(inv, NamedRequest("REDEEM", 0), "DONE")

\* A UI command leaves the tokens of the request empty.
T2TakesInventoryCommand ==
    /\ inv.events < MaxEvents
    /\ \E op \in {"SPLIT", "MERGE", "REDEEM"}, hex \in BOOLEAN :
          /\ hex \/ op = "MERGE"
          /\ inv' = [try_request(inv, [op |-> op, qty |-> 1, tokens |-> FALSE, hex |-> hex])
                       EXCEPT !.events = @ + 1]

\* The rotation coordinator asks too, some time after it has left a market,
\* and does not look at the answer.  It and T2 may push onto the queue at
\* once, which loses a request as if it had not been made.
fire_redeem ==
    /\ inv.events < MaxEvents
    /\ inv' = [try_request(inv, NamedRequest("REDEEM", 0)) EXCEPT !.events = @ + 1]

\* The inner loop takes requests until the queue is empty; only the outer
\* one looks at stop_requested_.
InvTakes ==
    /\ ~inv.stopped /\ inv.phase = "idle" /\ inv.queue # <<>>
    /\ inv.drained => ~inv.stop_requested
    /\ inv' = handle_request([inv EXCEPT !.queue = Tail(@), !.drained = FALSE], Head(inv.queue))

InvDrained ==
    /\ inv.phase = "idle" /\ inv.queue = <<>> /\ ~inv.drained
    /\ inv' = [inv EXCEPT !.drained = TRUE]

InvStops ==
    /\ inv.stop_requested /\ inv.drained /\ ~inv.stopped
    /\ inv' = [inv EXCEPT !.stopped = TRUE]

ReadsGasAndNonce ==
    /\ inv.phase \in {"gas", "nonce"}
    /\ \E ok \in BOOLEAN : inv' = submit_direct_rpc_tx(inv, ok)

GetsRelayPayload ==
    /\ inv.phase = "payload"
    /\ \E ok \in BOOLEAN : inv' = submit_proxy_tx(inv, ok)

SendsRawTransaction ==
    /\ inv.transport = "rpc" /\ inv.phase = "submit"
    /\ \E taken, answered \in BOOLEAN : inv' = send_transaction(inv, taken, answered)

SubmitsToRelayer ==
    /\ inv.transport = "relayer" /\ inv.phase = "submit"
    /\ \/ \E taken, answered \in BOOLEAN : inv' = send_transaction(inv, taken, answered)
       \/ inv' = immediately_failed(inv)

PollsReceipt ==
    /\ inv.transport = "rpc" /\ inv.phase = "poll"
    /\ \E heard \in BOOLEAN : inv' = poll_transaction(inv, heard)

PollsRelayer ==
    /\ inv.transport = "relayer" /\ inv.phase = "poll"
    /\ \E heard \in BOOLEAN : inv' = poll_transaction(inv, heard)

InvStopRequested ==
    /\ ~inv.stop_requested
    /\ inv' = [inv EXCEPT !.stop_requested = TRUE]

\* The chain executes or reverts the transaction that the service follows; a
\* redemption pays the side that won.
ChainExecutes ==
    /\ inv.tx = "pending"
    /\ \/ inv' = [inv EXCEPT !.tx = "failed"]
       \/ /\ inv.label = "approve" \/ inv.req.op # "REDEEM"
          /\ inv' = [inv EXCEPT !.tx = "confirmed",
                            !.chain = IF inv.label = "approve" THEN @
                                      ELSE Moved(@, Amount(inv.req))]
       \/ /\ inv.label = "op" /\ inv.req.op = "REDEEM"
          /\ \E won \in {"up", "down"} :
                inv' = [inv EXCEPT !.tx = "confirmed",
                               !.chain = [up |-> 0, down |-> 0, usdc |-> @.usdc + @[won]],
                               !.redeemed = TRUE]

\* The chain executes a transaction after the service has given it up.
ChainExecutesLate ==
    \E n \in Amounts :
        /\ inv.late[n] > 0
        /\ inv' = [inv EXCEPT !.late[n] = @ - 1, !.chain = Moved(@, n), !.given_up = @ + n]

\* A fill, a buy of one token or a sale of the other, moves the account at
\* once and reaches T1 later.
Filled(holdings, fill) ==
    [holdings EXCEPT ![fill.token] = @ + fill.n, !.usdc = @ - fill.n]

ExchangeFills ==
    /\ inv.events < MaxEvents
    /\ \E token \in {"up", "down"} :
          LET fill == [id |-> inv.events, token |-> token,
                       n |-> IF token = "up" THEN 1 ELSE -1]
          IN  inv' = [inv EXCEPT !.events = @ + 1, !.fills = @ \cup {fill},
                             !.chain = Filled(@, fill)]

T1AppliesFill ==
    \E fill \in inv.fills :
        inv' = [inv EXCEPT !.fills = @ \ {fill}, !.inventory = Filled(@, fill)]

\* The account poller reads the balance, and stores it when the answer is
\* back.
PollerReads ==
    /\ inv.events < MaxEvents /\ inv.balance < 0 /\ inv.chain.usdc >= 0
    /\ inv' = [inv EXCEPT !.events = @ + 1, !.balance = inv.chain.usdc]

PollerStores ==
    /\ inv.balance >= 0
    /\ inv' = [inv EXCEPT !.balance = -1, !.inventory.usdc = inv.balance, !.polled = TRUE]

InvNext ==
    \/ handle_wait_for_bbo \/ check_timeout \/ handle_wait_split_hold
    \/ handle_wait_resolved \/ T2TakesInventoryCommand \/ fire_redeem
    \/ InvTakes \/ InvDrained \/ InvStops
    \/ ReadsGasAndNonce \/ SendsRawTransaction \/ PollsReceipt
    \/ GetsRelayPayload \/ SubmitsToRelayer \/ PollsRelayer
    \/ InvStopRequested \/ ChainExecutes \/ ChainExecutesLate \/ ExchangeFills \/ T1AppliesFill
    \/ PollerReads \/ PollerStores

InvSpec == InvInit /\ [][InvNext]_inv
-----------------------------------------------------------------------------
\* Everything is in its domain, and a service that has stopped has no
\* transaction in hand.
InvTypeOK ==
    /\ inv.inventory \in Holdings /\ inv.chain \in Holdings
    /\ inv.late \in [Amounts -> Nat] /\ inv.given_up \in Int /\ inv.skipped \in Int
    /\ inv.phase \in {"idle", "gas", "nonce", "payload", "submit", "poll"}
    /\ inv.tx \in {"none", "pending", "confirmed", "failed"}
    /\ Len(inv.queue) <= QueueCap /\ (\A k \in DOMAIN inv.queue : inv.queue[k] \in OpRequests)
    /\ inv.test_phase \in {"WAIT_FOR_BBO", "WAIT_SPLIT_HOLD", "WAIT_RESOLVED", "DONE"}
    /\ inv.attempt \in 0 .. MaxPolls
    /\ inv.stopped => inv.phase = "idle" /\ inv.tx = "none"

\* Once T1 has applied every fill and the service is idle, the positions that
\* the SELL gate reads are those of the chain less exactly the pairs of the
\* operations that the service did not book, and so is the balance unless the
\* poller has overwritten it: whatever is submitted late, times out or is
\* executed after it was given up, a transaction is booked once at most, and
\* only if it took effect, and no fill that crosses one is lost.  It is not
\* claimed for a dry run, nor once a redemption has taken effect.  The pairs
\* not booked are those given up and those skipped: every split or merge that
\* the UI asks for is skipped when it is confirmed, because T2 builds its
\* request without the two token ids (strategy_scheduler.cpp 640-646,
\* inventory_service.cpp 602-607), so after one the inventory stays wrong.
InventoryFollowsChain ==
    (/\ inv.phase = "idle" /\ inv.fills = {}
     /\ ~inv.dry_run /\ ~inv.redeemed) =>
        LET booked == Moved(inv.chain, -(inv.given_up + inv.skipped))
        IN  /\ inv.inventory.up = booked.up /\ inv.inventory.down = booked.down
            /\ ~inv.polled => inv.inventory.usdc = booked.usdc
=============================================================================
