----------------------------- MODULE DetectorsV2 -----------------------------
(***************************************************************************)
(* The detectors that only ultra-deep-v2 runs: the corpus patterns, the    *)
(* bytecode of what has no source, ultra_deep_v2.py and the lending        *)
(* oracles.  One operator per class, with the class's name.  A score that  *)
(* is no multiple of a half is rounded down to one: every bound it is      *)
(* compared with is such a multiple.                                       *)
(***************************************************************************)
EXTENDS DetectorRules

(* corpus_patterns.py *)

\* _candidate: a lead, of functions that are public or external.
Corpus(all, none, impact, conf) ==
    Rule({"ultra_deep_v2", "external"} \cup all, none, impact, conf, {"lead_only"})

CorpusCalls ==
    { Corpus({"swap_call"}, {"minimum_out"}, 14, 10),
      Corpus({"swap_call"}, {"deadline"}, 11, 9),
      Corpus({"chainlink_read"}, {"staleness_checked"}, 14, 12),
      Corpus({"loops_over_length", "external_or_state"}, {"loop_capped"}, 13, 9),
      Corpus({"low_level_call"}, {"success_checked"}, 13, 10) }

\* A signature may miss one of the three.
CorpusChecks ==
    { Corpus({"privileged_setter_fn", "address_parameter"}, {"zero_address_check"}, 11, 11),
      Corpus({"value_words", "divides_before_multiplying"}, {"library_math"}, 13, 8) }
    \cup { Corpus({"signature_checked"}, missing, 16, 11)
            : missing \in { {"nonce", "domain_separator"}, {"nonce", "deadline"},
                            {"domain_separator", "deadline"} } }

CorpusPattern == CorpusCalls \cup CorpusChecks

(* bytecode_periphery.py *)

\* _IMPACT_BY_RULE, with the confidence _risk_signals gives bytecode that has
\* verified source or not, and _SOURCE_VERIFIED_SAFE_RULES: the rules that hold
\* for verified source too.
BytecodeSignals ==
    { [signal |-> "delegatecall_executor", impact |-> 18, verified |-> 8,  unverified |-> 12, safe |-> TRUE],
      [signal |-> "callcode",              impact |-> 18, verified |-> 11, unverified |-> 11, safe |-> TRUE],
      [signal |-> "tx_origin_flow",        impact |-> 16, verified |-> 11, unverified |-> 11, safe |-> TRUE],
      [signal |-> "approval_spender",      impact |-> 17, verified |-> 7,  unverified |-> 10, safe |-> FALSE],
      [signal |-> "upgrade_surface",       impact |-> 16, verified |-> 6,  unverified |-> 9,  safe |-> FALSE],
      [signal |-> "selfdestruct",          impact |-> 15, verified |-> 9,  unverified |-> 9,  safe |-> FALSE],
      [signal |-> "clone_of_unverified",   impact |-> 11, verified |-> 8,  unverified |-> 8,  safe |-> FALSE] }

\* A clone whose implementation is known is scanned by itself.
BytecodePeriphery ==
    LET tags     == {"lead_only", "confirmable", "no_access_control"}
        known(b) == IF b.signal = "clone_of_unverified" THEN {"implementation_known"} ELSE {}
    IN  { Rule({"bytecode", b.signal}, {"source_verified"} \cup known(b), b.impact, b.unverified, tags)
          : b \in BytecodeSignals }
        \cup { Rule({"bytecode", b.signal, "source_verified"}, {}, b.impact, b.verified, tags)
                : b \in {s \in BytecodeSignals : s.safe} }

(* economic_oracle_lending.py *)

\* _compound_price_oracle_findings: a time-weighted price and a circuit breaker
\* each cost some confidence.
CompoundPriceOracle ==
    LET read == {"lending", "compound_price_fn", "compound_words", "mutable_price"}
    IN  { Lead(read, {"twap_words", "circuit_breaker"}, 17, 14),
          Lead(read \cup {"twap_words"}, {"circuit_breaker"}, 17, 12),
          Lead(read \cup {"circuit_breaker"}, {"twap_words"}, 17, 12),
          Lead(read \cup {"twap_words", "circuit_breaker"}, {}, 17, 11) }

\* _lending_flow_findings.
LendingFlow ==
    LET read == {"lending", "oracle_read", "liquidity_words", "borrow_sink"}
    IN  { Lead(read, {"circuit_breaker"}, 17, 13), Lead(read \cup {"circuit_breaker"}, {}, 17, 11) }

\* _erc4626_lending_oracle_findings.
Erc4626LendingOracle ==
    { Lead({"lending", "borrow_words", "vault_rate_read", "price_words_or_name"}, {"circuit_breaker"}, 17, 13),
      Lead({"lending", "borrow_words", "vault_rate_read", "price_words_or_name", "circuit_breaker"}, {}, 17, 11) }

\* "lending" for the words of the source or the roles of the protocol graph.
EconomicOracleLending == CompoundPriceOracle \cup LendingFlow \cup Erc4626LendingOracle

(* ultra_deep_v2.py *)
SettlementBoundaryMismatch ==
    { Lead({"proof_words", "array_parameter", "count_parameter_bounds_loop", "array_indexed"},
           {"lengths_compared", "count_hashed"}, 18, 9) }
BridgeRetryDomainBinding ==
    { Lead({"bridge_words", "replay_marked", "hash_call"}, {"three_domain_anchors"}, 18, 10) }
DecimalUnitMismatch ==
    { Lead({"oracle_read", "fixed_scale", "mul_or_div"},
           {"internal", "normalized", "normalizes_elsewhere"}, 15, 9) }
ZeroValueTransferFromBypass ==
    { Lead({"external", "payment_fn", "transfers_amount_parameter", "reward_sink"}, {"zero_amount_guard"}, 15, 10) }
ZeroTransferRewardCheckpoint ==
    { Confirmable({"transfer_hook_fn", "settles_in_callee", "callee_appends_record"},
                  {"zero_amount_guard", "checkpoint_no_op_guard"}, 18, 12) }
ComponentShareAccounting ==
    { Lead({"redeem_fn", "loops_over_components", "balance_share_math", "transfer"}, {g}, 16, 9)
      : g \in {"debit_before_transfer", "internal_accounting"} }
SingleVerifierBridgeConfig ==
    { Lead({"bridge_config_words", "threshold_of_one"}, {"access_control"}, 16, 8),
      Rule({"bridge_config_words", "threshold_of_one", "access_control"}, {}, 16, 8,
           {"lead_only", "has_access_control", "documented_centralization"}) }
AllowanceDrainRouter ==
    { Confirmable({"external", "calls_parameter_target", "forwards_parameter_data"},
                  {"access_control", "target_allowlisted"}, 17, 12) }
Erc777HookBalanceBypass ==
    { Confirmable({"hook_token_words", "external", "deposit_words", "transfer_from", "balance_written_after"},
                  {"non_reentrant", "balance_written_before"}, 18, 12) }
ReadOnlyReserveReentrancy ==
    { Lead({"interacts_somewhere", "external", "valuation_words", "live_reserve_read"},
           {"read_lock", "twap_words"}, 16, 8) }
BridgeKeeperMutation ==
    { Lead({"keeper_words", "external", "bridge_words", "decoded_target_call"}, {"target_allowlisted"}, 19, 10) }
BridgeZeroRootAcceptance ==
    { Confirmable({"root_words", "bridge_words_somewhere", g}, {"zero_root_rejected"}, 19, 12)
      : g \in {"initializer_sets_root", "process_gates_root"} }
VerifierAddressSpoof ==
    { Lead({"verifier_parameter", "verify_words", "verifier_parameter_called"}, {"verifier_allowlisted"}, 18, 10) }
VyperNonreentrantCompiler ==
    { Confirmable({"vyper_bad_version", "vyper_nonreentrant"}, {}, 18, 14) }
ThinLiquiditySpotOracle ==
    { Lead({"spot_read", "value_words"}, {"depth_or_twap_guard"}, 17, 11) }
LendingExchangeRateDonation ==
    { Confirmable({"exchange_rate_words", "donatable_balance", "divides_by_supply"}, {"vault_mitigation"}, 17, 12) }
ClmmTickBoundaryRounding ==
    { Lead({"swap_math_fn", "tick_words", "rounding_words"}, {"boundary_guard"}, 17, 9) }
InvariantPrecisionLoss ==
    { Lead({"invariant_words", "divides_before_multiplying"}, {"library_math"}, 16, 9) }
UnsafeMintMath ==
    { Lead({"external", "mint_fn", "mints", "unchecked_mint_math"}, {"mint_guard"}, 16, 9) }
FlashCycleRoundingWithdraw ==
    { Lead({"redeem_fn", "rounds_up", "transfer"}, {g}, 16, 9) : g \in {"debit_before_transfer", "dust_guard"} }
MultisigDelegatecallPayload ==
    { Rule({"multisig_words", "delegatecalls_payload"}, {"delegatecall_blocked"}, 18, 7,
           {"lead_only", "documented_centralization"}) }
CustodySweepCentralization ==
    { Rule({"sweep_fn", "single_admin", "whole_balance"}, {"timelock_words"}, 14, 6,
           {"lead_only", "documented_centralization"}) }
AmmPairReserveDesync ==
    { Confirmable({"pair_balance_moved", "syncs_pair"}, {"view", "deferred_burn"}, 18, 14),
      Confirmable({"pair_balance_moved", "syncs_pair", "deferred_burn"}, {"view"}, 18, 16) }
Erc4626DualAssetRedeemDoubleCount ==
    { Confirmable({"total_assets_quotes_other_leg", "redeem_fn", "vault_rate_read", "transfers_other_leg"},
                  {"view"}, 18, 15) }
RedemptionAfterSupplyBurn ==
    { Confirmable({"redeem_fn", "burns", "supply_read_after_burn", "pool_read_after_burn", "pays_after_burn"},
                  {"view"}, 18, 14) }
WhitelistClaimReplay ==
    { Lead({"claim_fn", "whitelist_checked", "claim_value"}, {"view", "claim_marker"}, 16, 12) }
BalanceSnapshotRewardInflation ==
    { Lead({"reward_fn", "live_balance_read", "reward_sink"}, {"view", "reward_checkpoint"}, 16, 11) }
RfqSignerInventoryMismatch ==
    { Confirmable({"order_words", "signature_checked", "signer_of_receiver", "transfers_from_maker"},
                  {"view", "signer_bound_to_maker"}, 18, 15) }
PermissionlessBatchExecutor ==
    { Confirmable({"batch_fn", "array_parameter", "loops", "low_level_call"},
                  {"view", "internal", "access_control", "inline_auth"}, 18, 14) }
SpotPricedLeverageLiquidationCap ==
    { Lead({"liquidation_capped", "leverage_fn", "spot_read", "writes_debt"}, {"view", "twap_words"}, 17, 13) }
=============================================================================
