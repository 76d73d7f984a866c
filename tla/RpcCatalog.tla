----------------------------- MODULE RpcCatalog -----------------------------
(***************************************************************************)
(* What each remote call of the API servers does (tron-apis): the handler  *)
(* of every gRPC method (rpc_services.rs), the HTTP routes that reach the  *)
(* same handlers (http_routes.rs, http_rpc.rs), the cursor each one reads, *)
(* and the reads it makes (wallet_query.rs, provider.rs).  A handler never *)
(* keeps a view: every read asks the context for the view that is          *)
(* published at that moment, so a plan is a sequence of separate reads:    *)
(*   "get"     a record that must be there, else the answer is NotFound    *)
(*   "latest"  the height of the newest block, the key of the next read    *)
(*   "flag"    a property that has a default                               *)
(*   "scan"    a range of rows, refused when it is over the work cap       *)
(*   "each"    every record of a list or block range, all must be there    *)
(*   "view"    one view kept for a whole execution                         *)
(***************************************************************************)
EXTENDS TLC, Sequences, FiniteSets

\* How a handler works: it queries or asks the provider on the server's own
\* task, does so in the blocking pool, builds an unsigned transaction,
\* broadcasts a signed one, or refuses.
Query(op) == [kind |-> "query", op |-> op]
Provide(op) == [kind |-> "provide", op |-> op]
Blocking(op) == [kind |-> "blocking", op |-> op]
Build == [kind |-> "build", op |-> "create_extension"]
Broadcast == [kind |-> "broadcast", op |-> "broadcast_raw"]
Unimplemented == [kind |-> "refuse", op |-> "unimplemented"]

\* Wallet: accounts, transfers and the broadcast of a signed transaction.
WalletAccounts ==
    [get_account |-> Query("account"), get_account_by_id |-> Query("account_by_id"),
    get_account_balance |-> Provide("account_balance"),
    get_block_balance_trace |-> Provide("block_balance_trace"),
    broadcast_transaction |-> Broadcast]
    @@ [m \in {"create_transaction", "create_transaction2"} |-> Build]

\* Wallet: account, witness and asset transactions are only built.
WalletIssuance ==
    [m \in {"update_account", "set_account_id", "update_account2",
    "vote_witness_account", "update_setting", "update_energy_limit",
    "vote_witness_account2", "create_asset_issue", "create_asset_issue2",
    "update_witness", "update_witness2", "create_account", "create_account2",
    "create_witness", "create_witness2", "transfer_asset", "transfer_asset2"} |->
    Build]

\* Wallet: staking, asset and proposal transactions are only built.
WalletStaking ==
    [m \in {"participate_asset_issue", "participate_asset_issue2", "freeze_balance",
    "freeze_balance2", "freeze_balance_v2", "unfreeze_balance", "unfreeze_balance2",
    "unfreeze_balance_v2", "unfreeze_asset", "unfreeze_asset2", "withdraw_balance",
    "withdraw_balance2", "withdraw_expire_unfreeze", "delegate_resource",
    "un_delegate_resource", "cancel_all_unfreeze_v2", "update_asset",
    "update_asset2", "proposal_create", "proposal_approve", "proposal_delete"} |->
    Build]

\* Wallet: exchange and market.
WalletTrading ==
    [get_market_order_by_id |-> Query("market_order"),
    get_market_order_by_account |-> Query("market_orders_by_account"),
    get_market_price_by_pair |-> Query("market_prices"),
    get_market_order_list_by_pair |-> Query("market_orders_by_pair"),
    get_market_pair_list |-> Query("market_pairs")]
    @@ [m \in {"exchange_create", "exchange_inject", "exchange_withdraw",
    "exchange_transaction", "market_sell_asset", "market_cancel_order"} |-> Build]
    @@ [m \in {"buy_storage", "buy_storage_bytes", "sell_storage"} |->
    Unimplemented]

\* Wallet: nodes, assets and resources.
WalletAssets ==
    [list_nodes |-> Provide("list_nodes"),
    get_asset_issue_by_account |-> Query("assets_by_account"),
    get_account_net |-> Provide("account_net"),
    get_account_resource |-> Provide("account_resource"),
    get_asset_issue_by_name |-> Query("asset_by_name"),
    get_asset_issue_list_by_name |-> Query("assets_by_name"),
    get_asset_issue_by_id |-> Query("asset_by_id")]

\* Wallet: blocks and transactions.
WalletBlocks ==
    [get_now_block |-> Query("now_block"), get_now_block2 |-> Query("now_block"),
    get_block_by_num |-> Query("block_by_num"),
    get_block_by_num2 |-> Query("block_by_num"),
    get_transaction_count_by_block_num |-> Query("transaction_count_by_block"),
    get_block_by_id |-> Query("block_by_id"),
    get_block_by_limit_next |-> Query("blocks"),
    get_block_by_limit_next2 |-> Provide("block_range_extension"),
    get_block_by_latest_num |-> Query("latest_blocks"),
    get_block_by_latest_num2 |-> Provide("latest_block_extensions"),
    get_transaction_by_id |-> Query("transaction")]

\* Wallet: smart contracts.
WalletContracts ==
    [get_contract |-> Provide("contract"),
    get_contract_info |-> Provide("contract_info"),
    trigger_constant_contract |-> Blocking("trigger_constant"),
    estimate_energy |-> Blocking("estimate_energy")]
    @@ [m \in {"deploy_contract", "trigger_contract", "clear_contract_abi"} |->
    Build]

\* Wallet: witnesses and delegated resources.
WalletDelegation ==
    [list_witnesses |-> Query("witnesses"),
    get_paginated_now_witness_list |-> Query("paginated_witnesses"),
    get_delegated_resource |-> Query("delegated_resource"),
    get_delegated_resource_v2 |-> Query("delegated_resource"),
    get_delegated_resource_account_index |-> Query("delegated_resource_index"),
    get_delegated_resource_account_index_v2 |-> Query("delegated_resource_index"),
    get_can_delegated_max_size |-> Provide("delegated_max"),
    get_available_unfreeze_count |-> Query("available_unfreeze_count"),
    get_can_withdraw_unfreeze_amount |-> Query("withdrawable_unfreeze_amount")]

\* Wallet: proposals, exchanges, asset lists, totals.
WalletGovernance ==
    [list_proposals |-> Query("proposals"),
    get_paginated_proposal_list |-> Query("paginated_proposals"),
    get_proposal_by_id |-> Query("proposal"), list_exchanges |-> Query("exchanges"),
    get_paginated_exchange_list |-> Query("paginated_exchanges"),
    get_exchange_by_id |-> Query("exchange"),
    get_chain_parameters |-> Query("chain_parameters"),
    get_asset_issue_list |-> Query("assets"),
    get_paginated_asset_issue_list |-> Query("paginated_assets"),
    total_transaction |-> Query("total_transactions"),
    get_next_maintenance_time |-> Query("next_maintenance_time"),
    get_transaction_info_by_id |-> Query("transaction_info")]

\* Wallet: signatures, node information, rewards.
WalletPermissions ==
    [get_transaction_sign_weight |-> Provide("sign_weight"),
    get_transaction_approved_list |-> Provide("approved_list"),
    get_node_info |-> Provide("node_info"), get_reward_info |-> Provide("reward"),
    get_brokerage_info |-> Provide("brokerage")]
    @@ [m \in {"account_permission_update", "update_brokerage"} |-> Build]

\* Wallet: shielded transactions and keys, all in the blocking pool.
WalletShielded ==
    [create_shielded_transaction |-> Blocking("shielded_transaction"),
    get_merkle_tree_voucher_info |-> Blocking("voucher"),
    scan_note_by_ivk |-> Blocking("scan_ivk"),
    scan_and_mark_note_by_ivk |-> Blocking("scan_mark"),
    scan_note_by_ovk |-> Blocking("scan_ovk"),
    get_spending_key |-> Blocking("spending_key"),
    get_expanded_spending_key |-> Blocking("expanded_spending_key"),
    get_ak_from_ask |-> Blocking("ak_from_ask"),
    get_nk_from_nsk |-> Blocking("nk_from_nsk"),
    get_incoming_viewing_key |-> Blocking("incoming_viewing_key"),
    get_diversifier |-> Blocking("diversifier"),
    get_new_shielded_address |-> Blocking("new_address"),
    get_zen_payment_address |-> Blocking("payment_address"),
    get_rcm |-> Blocking("rcm"), is_spend |-> Blocking("is_spend"),
    create_shielded_transaction_without_spend_auth_sig |-> Blocking("shielded_transaction"),
    get_shield_transaction_hash |-> Blocking("shield_hash"),
    create_spend_auth_sig |-> Blocking("spend_auth"),
    create_shield_nullifier |-> Blocking("nullifier")]

\* Wallet: shielded TRC-20.
WalletShieldedTrc20 ==
    [create_shielded_contract_parameters |-> Blocking("shielded_trc20"),
    create_shielded_contract_parameters_without_ask |-> Blocking("shielded_trc20_without_ask"),
    scan_shielded_trc20_notes_by_ivk |-> Blocking("scan_trc20_ivk"),
    scan_shielded_trc20_notes_by_ovk |-> Blocking("scan_trc20_ovk"),
    is_shielded_trc20_contract_note_spent |-> Blocking("trc20_spent"),
    get_trigger_input_for_shielded_trc20_contract |-> Blocking("trigger_input")]

\* Wallet: the pending pool, prices and the extended block query.
WalletChain ==
    [create_common_transaction |-> Query("extension"),
    get_transaction_info_by_block_num |-> Query("transaction_infos_by_block"),
    get_burn_trx |-> Query("burn_trx"),
    get_transaction_from_pending |-> Query("pending_transaction"),
    get_transaction_list_from_pending |-> Query("pending_ids"),
    get_pending_size |-> Query("pending_size"), get_block |-> Provide("get_block"),
    get_bandwidth_prices |-> Query("bandwidth_prices"),
    get_energy_prices |-> Query("energy_prices"),
    get_memo_fee |-> Query("memo_fee")]

\* WalletSolidity: accounts, witnesses, assets, blocks.
SolidityLedger ==
    [get_account |-> Query("account"), get_account_by_id |-> Query("account_by_id"),
    list_witnesses |-> Query("witnesses"),
    get_paginated_now_witness_list |-> Query("paginated_witnesses"),
    get_asset_issue_list |-> Query("assets"),
    get_paginated_asset_issue_list |-> Query("paginated_assets"),
    get_asset_issue_by_name |-> Query("asset_by_name"),
    get_asset_issue_list_by_name |-> Query("assets_by_name"),
    get_asset_issue_by_id |-> Query("asset_by_id"),
    get_now_block |-> Query("now_block"), get_now_block2 |-> Query("now_block"),
    get_block_by_num |-> Query("block_by_num"),
    get_block_by_num2 |-> Query("block_by_num"),
    get_transaction_count_by_block_num |-> Query("transaction_count_by_block"),
    get_delegated_resource |-> Query("delegated_resource"),
    get_delegated_resource_v2 |-> Query("delegated_resource")]

\* WalletSolidity: resources, exchanges, transactions, shielded notes.
SolidityShielded ==
    [get_delegated_resource_account_index |-> Query("delegated_resource_index"),
    get_delegated_resource_account_index_v2 |-> Query("delegated_resource_index"),
    get_can_delegated_max_size |-> Provide("delegated_max"),
    get_available_unfreeze_count |-> Query("available_unfreeze_count"),
    get_can_withdraw_unfreeze_amount |-> Query("withdrawable_unfreeze_amount"),
    get_exchange_by_id |-> Query("exchange"), list_exchanges |-> Query("exchanges"),
    get_transaction_by_id |-> Query("transaction"),
    get_transaction_info_by_id |-> Query("transaction_info"),
    get_merkle_tree_voucher_info |-> Blocking("voucher"),
    scan_note_by_ivk |-> Blocking("scan_ivk"),
    scan_and_mark_note_by_ivk |-> Blocking("scan_mark"),
    scan_note_by_ovk |-> Blocking("scan_ovk"), is_spend |-> Blocking("is_spend"),
    scan_shielded_trc20_notes_by_ivk |-> Blocking("scan_trc20_ivk"),
    scan_shielded_trc20_notes_by_ovk |-> Blocking("scan_trc20_ovk"),
    is_shielded_trc20_contract_note_spent |-> Blocking("trc20_spent")]

\* WalletSolidity: rewards, calls, market and prices.
SolidityMarket ==
    [get_reward_info |-> Provide("reward"),
    get_brokerage_info |-> Provide("brokerage"),
    trigger_constant_contract |-> Blocking("trigger_constant"),
    estimate_energy |-> Blocking("estimate_energy"),
    get_transaction_info_by_block_num |-> Query("transaction_infos_by_block"),
    get_market_order_by_id |-> Query("market_order"),
    get_market_order_by_account |-> Query("market_orders_by_account"),
    get_market_price_by_pair |-> Query("market_prices"),
    get_market_order_list_by_pair |-> Query("market_orders_by_pair"),
    get_market_pair_list |-> Query("market_pairs"),
    get_burn_trx |-> Query("burn_trx"), get_block |-> Provide("get_block"),
    get_bandwidth_prices |-> Query("bandwidth_prices"),
    get_energy_prices |-> Query("energy_prices")]

\* WalletExtension refuses everything.
ServiceExtension ==
    [m \in {"get_transactions_from_this", "get_transactions_from_this2",
    "get_transactions_to_this", "get_transactions_to_this2"} |-> Unimplemented]

\* Database: what a replica fetches from its trust node.
ServiceDatabase ==
    [get_block_reference |-> Query("block_reference"),
    get_dynamic_properties |-> Provide("dynamic_properties"),
    get_now_block |-> Query("now_block"),
    get_block_by_num |-> Query("block_by_num")]

\* Monitor.
ServiceMonitor ==
    [get_stats_info |-> Provide("metrics")]

\* TronZksnark refuses everything.
ServiceZksnark ==
    [m \in {"check_zksnark_proof"} |-> Unimplemented]

\* execute_http_route: accounts, assets and blocks.
HttpIssuance ==     {"get_account", "create_transaction", "broadcast_transaction",
    "update_account", "vote_witness_account", "create_asset_issue",
    "update_witness", "create_account", "create_witness", "transfer_asset",
    "participate_asset_issue", "freeze_balance", "unfreeze_balance",
    "unfreeze_asset", "withdraw_balance", "update_asset", "list_nodes",
    "get_asset_issue_by_account", "get_account_net", "get_asset_issue_by_name",
    "get_asset_issue_list_by_name", "get_asset_issue_by_id", "get_now_block",
    "get_block_by_num", "get_block_by_id", "get_block_by_limit_next",
    "get_block_by_latest_num", "get_transaction_by_id",
    "get_transaction_info_by_id", "get_transaction_count_by_block_num"}

\* execute_http_route: witnesses, contracts, proposals, exchanges.
HttpGovernance ==     {"list_witnesses", "get_paginated_now_witness_list",
    "get_asset_issue_list", "get_paginated_asset_issue_list",
    "get_paginated_proposal_list", "get_paginated_exchange_list",
    "total_transaction", "get_next_maintenance_time", "deploy_contract",
    "trigger_contract", "trigger_constant_contract", "estimate_energy",
    "get_contract", "get_contract_info", "clear_contract_abi", "proposal_create",
    "proposal_approve", "proposal_delete", "list_proposals", "get_proposal_by_id",
    "exchange_create", "exchange_inject", "exchange_transaction",
    "exchange_withdraw", "get_exchange_by_id", "list_exchanges",
    "get_chain_parameters", "get_account_resource", "get_transaction_sign_weight"}

\* execute_http_route: permissions, delegation, shielded keys and TRC-20.
HttpShielded ==     {"get_transaction_approved_list", "account_permission_update",
    "get_node_info", "update_setting", "update_energy_limit",
    "get_delegated_resource", "get_delegated_resource_v2",
    "get_can_delegated_max_size", "get_available_unfreeze_count",
    "get_can_withdraw_unfreeze_amount", "get_delegated_resource_account_index",
    "get_delegated_resource_account_index_v2", "set_account_id",
    "get_account_by_id", "get_expanded_spending_key", "get_ak_from_ask",
    "get_nk_from_nsk", "get_spending_key", "get_new_shielded_address",
    "get_diversifier", "get_incoming_viewing_key", "get_zen_payment_address",
    "get_rcm", "create_spend_auth_sig", "is_shielded_trc20_contract_note_spent",
    "create_shielded_contract_parameters",
    "create_shielded_contract_parameters_without_ask",
    "scan_shielded_trc20_notes_by_ivk", "scan_shielded_trc20_notes_by_ovk",
    "get_trigger_input_for_shielded_trc20_contract"}

\* execute_http_route: rewards, market, prices, staking.
HttpMarket ==     {"get_brokerage_info", "get_reward_info", "update_brokerage",
    "create_common_transaction", "get_transaction_info_by_block_num",
    "market_sell_asset", "market_cancel_order", "get_market_order_by_account",
    "get_market_order_by_id", "get_market_price_by_pair",
    "get_market_order_list_by_pair", "get_market_pair_list", "get_account_balance",
    "get_block_balance_trace", "get_burn_trx", "get_transaction_from_pending",
    "get_transaction_list_from_pending", "get_pending_size", "get_energy_prices",
    "get_bandwidth_prices", "get_block", "get_memo_fee", "freeze_balance_v2",
    "unfreeze_balance_v2", "withdraw_expire_unfreeze", "delegate_resource",
    "un_delegate_resource", "cancel_all_unfreeze_v2"}

\* execute_http_route: the /walletsolidity arms.
HttpSolidity ==     {"get_account", "list_witnesses",
    "get_paginated_now_witness_list", "get_asset_issue_list",
    "get_paginated_asset_issue_list", "get_asset_issue_by_name",
    "get_asset_issue_by_id", "get_asset_issue_list_by_name", "get_now_block",
    "get_block_by_num", "get_delegated_resource", "get_delegated_resource_v2",
    "get_can_delegated_max_size", "get_available_unfreeze_count",
    "get_can_withdraw_unfreeze_amount", "get_delegated_resource_account_index",
    "get_delegated_resource_account_index_v2", "get_exchange_by_id",
    "list_exchanges", "get_account_by_id", "get_block_by_id",
    "get_block_by_limit_next", "get_block_by_latest_num",
    "scan_shielded_trc20_notes_by_ivk", "scan_shielded_trc20_notes_by_ovk",
    "is_shielded_trc20_contract_note_spent", "trigger_constant_contract",
    "estimate_energy", "get_transaction_info_by_block_num"}

\* execute_http_route: market, transactions, prices and shielded notes of /walletsolidity.
HttpSolidityRest ==     {"get_market_order_by_account", "get_market_order_by_id",
    "get_market_price_by_pair", "get_market_order_list_by_pair",
    "get_market_pair_list", "get_transaction_by_id", "get_transaction_info_by_id",
    "get_transaction_count_by_block_num", "get_node_info", "get_brokerage_info",
    "get_reward_info", "get_burn_trx", "get_bandwidth_prices", "get_energy_prices",
    "get_block", "get_merkle_tree_voucher_info", "scan_and_mark_note_by_ivk",
    "scan_note_by_ivk", "scan_note_by_ovk", "is_spend"}

Wallet ==
    WalletAccounts @@ WalletIssuance @@ WalletStaking @@ WalletTrading @@ WalletAssets
    @@ WalletBlocks @@ WalletContracts @@ WalletDelegation @@ WalletGovernance
    @@ WalletPermissions @@ WalletShielded @@ WalletShieldedTrc20 @@ WalletChain
WalletSolidity == SolidityLedger @@ SolidityShielded @@ SolidityMarket

\* The services a gRPC server plan registers.  A Pbft plan serves the very
\* same WalletSolidity handlers.
GrpcServices(plan) ==
    [Database |-> ServiceDatabase]
    @@ IF plan = "Full"
       THEN [Wallet |-> Wallet, WalletExtension |-> ServiceExtension,
             Monitor |-> ServiceMonitor, TronZksnark |-> ServiceZksnark]
       ELSE [WalletSolidity |-> WalletSolidity]
            @@ IF plan = "StandaloneSolidity"
               THEN [WalletExtension |-> ServiceExtension, Monitor |-> ServiceMonitor]
               ELSE <<>>

\* The arms of /walletsolidity that call a Wallet handler.
ReadThroughWallet ==
    {"get_block_by_id", "get_block_by_limit_next", "get_block_by_latest_num", "get_node_info"}
HttpWallet ==
    [m \in HttpIssuance \cup HttpGovernance \cup HttpShielded \cup HttpMarket |-> Wallet[m]]
HttpWalletSolidity ==
    [m \in HttpSolidity \cup HttpSolidityRest |->
        IF m \in ReadThroughWallet THEN Wallet[m] ELSE WalletSolidity[m]]

\* HTTP_ROUTES: the routes of each surface.
FullRoutes ==
    HttpWallet @@ [get_stats_info |-> ServiceMonitor["get_stats_info"],
                   validate_address |-> Unimplemented]
SolidityRoutes ==
    [m \in (HttpSolidity \cup HttpSolidityRest)
              \ {"scan_and_mark_note_by_ivk", "get_merkle_tree_voucher_info",
                 "scan_note_by_ivk", "scan_note_by_ovk", "is_spend"} |-> HttpWalletSolidity[m]]
PbftRoutes ==
    [m \in (HttpSolidity \cup HttpSolidityRest)
              \ {"get_transaction_info_by_block_num", "get_paginated_now_witness_list"} |->
        HttpWalletSolidity[m]]
HttpRoutes(surface) ==
    CASE surface = "Full" -> FullRoutes
      [] surface = "Solidity" -> SolidityRoutes
      [] OTHER -> PbftRoutes

\* The cursor a handler reads.  Only the query helper looks at the cursor an
\* HTTP route asks for; the Wallet's provider calls name the head.
CursorOf(api, handler, route) ==
    IF handler.kind = "query" /\ route # "none" THEN route
    ELSE IF handler.op = "dynamic_properties" THEN "Solidity"
    ELSE IF api = "WalletSolidity"
         THEN (IF route # "none" THEN route ELSE "Solidity") ELSE "Head"

-----------------------------------------------------------------------------
\* wallet_query.rs: the reads of each query.
AccountQueries ==
    [account |-> <<"get">>, account_by_id |-> <<"get", "get">>, asset_by_id |-> <<"get">>]
    @@ [q \in {"assets_by_name", "asset_by_name", "assets_by_account", "assets",
               "paginated_assets"} |-> <<"scan">>]
GovernanceQueries ==
    [proposal |-> <<"get">>, exchange |-> <<"flag", "get">>]
    @@ [q \in {"witnesses", "paginated_witnesses", "proposals", "paginated_proposals"} |->
           <<"scan">>]
    @@ [q \in {"exchanges", "paginated_exchanges"} |-> <<"flag", "scan">>]
MarketQueries ==
    [market_order |-> <<"get">>, market_orders_by_account |-> <<"get", "each">>,
     market_prices |-> <<"scan">>, market_orders_by_pair |-> <<"scan", "each">>,
     market_pairs |-> <<"scan">>]
TransactionQueries ==
    [transaction |-> <<"get">>, transaction_info |-> <<"get">>,
     transaction_infos_by_block |-> <<"scan">>]
    @@ [q \in {"pending_size", "pending_ids", "pending_transaction"} |-> <<>>]
BlockQueries ==
    [block_by_num |-> <<"get", "get">>, block_by_id |-> <<"get">>,
     now_block |-> <<"latest", "get", "get">>, blocks |-> <<"each">>,
     latest_blocks |-> <<"latest", "each">>, transaction_count_by_block |-> <<"get", "get">>]
ResourceQueries ==
    [delegated_resource |-> <<"scan">>, delegated_resource_index |-> <<"get">>,
     available_unfreeze_count |-> <<"get">>, withdrawable_unfreeze_amount |-> <<"get">>]
PropertyQueries ==
    [total_transactions |-> <<>>, extension |-> <<>>, chain_parameters |-> <<"flag", "flag">>,
     block_reference |-> <<"latest", "flag">>]
    @@ [q \in {"next_maintenance_time", "burn_trx", "bandwidth_prices", "energy_prices",
               "memo_fee"} |-> <<"flag">>]

\* provider.rs: the reads of each provider call.
AccountProvisions ==
    [block_balance_trace |-> <<"get", "get", "get">>, list_nodes |-> <<>>,
     block_range_extension |-> <<"each">>, latest_block_extensions |-> <<"latest", "each">>,
     contract |-> <<"get">>, contract_info |-> <<"get", "flag", "flag">>]
    @@ [p \in {"account_balance", "delegated_max"} |-> <<"get">>]
    @@ [p \in {"account_net", "account_resource"} |-> <<"get", "flag", "flag">>]
CallProvisions ==
    [trigger_constant |-> <<"flag", "view">>, estimate_energy |-> <<"view", "flag">>]
SignatureProvisions == [p \in {"sign_weight", "approved_list"} |-> <<"get", "flag">>]
NoteProvisions ==
    [p \in {"reward", "brokerage", "is_spend", "trc20_spent"} |-> <<"flag">>]
    @@ [p \in {"rcm", "spend_auth", "shield_hash", "nullifier", "trigger_input"} |-> <<>>]
ScanProvisions ==
    [scan_mark |-> <<"each", "flag">>, voucher |-> <<"each">>, scan_trc20_ivk |-> <<"scan", "flag">>,
     scan_trc20_ovk |-> <<"scan">>]
    @@ [p \in {"scan_ivk", "scan_ovk"} |-> <<"each">>]
ProofProvisions ==
    [p \in {"shielded_trc20", "shielded_trc20_without_ask"} |-> <<>>]
    @@ [shielded_transaction |-> <<"view">>, get_block |-> <<"latest", "get", "get">>]
NodeProvisions ==
    [dynamic_properties |-> <<"flag">>, node_info |-> <<>>, metrics |-> <<"latest">>]
KeyProvisions ==
    [p \in {"spending_key", "expanded_spending_key", "ak_from_ask", "nk_from_nsk",
            "incoming_viewing_key", "diversifier", "new_address", "payment_address"} |-> <<>>]

Plans ==
    AccountQueries @@ GovernanceQueries @@ MarketQueries @@ TransactionQueries @@ BlockQueries
    @@ ResourceQueries @@ PropertyQueries @@ AccountProvisions @@ CallProvisions
    @@ SignatureProvisions @@ NoteProvisions @@ ScanProvisions @@ ProofProvisions
    @@ NodeProvisions @@ KeyProvisions
    @@ [create_extension |-> <<"view">>, broadcast_raw |-> <<>>, unimplemented |-> <<>>]

-----------------------------------------------------------------------------
\* The history calls a lite node closes.
LiteBoth ==
    {"get_merkle_tree_voucher_info", "get_transaction_by_id",
     "get_transaction_count_by_block_num", "get_transaction_info_by_id", "is_spend",
     "scan_and_mark_note_by_ivk", "scan_note_by_ivk", "scan_note_by_ovk", "get_block_by_num",
     "get_market_order_by_account", "get_market_order_by_id", "get_market_price_by_pair",
     "get_market_order_list_by_pair", "get_market_pair_list",
     "scan_shielded_trc20_notes_by_ivk", "scan_shielded_trc20_notes_by_ovk",
     "is_shielded_trc20_contract_note_spent"}
LiteGrpc ==
    [Wallet |-> LiteBoth \cup {"get_block_by_id", "get_block_by_latest_num",
         "get_block_by_latest_num2", "get_block_by_limit_next", "get_block_by_limit_next2",
         "get_block_by_num2", "total_transaction"},
     WalletSolidity |-> LiteBoth \cup {"get_block_by_num2"},
     Database |-> {"get_block_by_num"}]
LiteHttp ==
    LiteBoth \cup {"get_block_by_id", "get_block_by_latest_num", "get_block_by_limit_next",
                   "get_transaction_info_by_block_num", "total_transaction"}

\* Every handler has a plan, every closed call exists, and no route of the
\* solidity and PBFT surfaces reaches a handler that writes.
ASSUME CatalogComplete ==
    /\ \A api \in {Wallet, WalletSolidity, ServiceDatabase, ServiceMonitor} :
          \A m \in DOMAIN api : api[m].op \in DOMAIN Plans
    /\ LiteGrpc["Wallet"] \subseteq DOMAIN Wallet
    /\ LiteGrpc["WalletSolidity"] \subseteq DOMAIN WalletSolidity
    /\ \A surface \in {"Solidity", "Pbft"} : \A m \in DOMAIN HttpRoutes(surface) :
          HttpRoutes(surface)[m].kind \in {"query", "provide", "blocking"}
=============================================================================
