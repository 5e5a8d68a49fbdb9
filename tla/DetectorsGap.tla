---------------------------- MODULE DetectorsGap -----------------------------
(***************************************************************************)
(* The gap-hunt detectors of the profile "deep": one operator per class of *)
(* the registry's waves and backlog batches, with the class's name.        *)
(***************************************************************************)
EXTENDS DetectorRules, Sequences

UnsafeDowncast ==
    { Rule({"narrowing_cast", "cast_of_parameter", "state_or_value_write"}, {"cast_bounded"}, 14, 9, {}),
      Rule({"narrowing_cast", "cast_of_parameter"}, {"cast_bounded", "state_or_value_write"}, 10, 9, {}),
      Rule({"narrowing_cast"}, {"cast_bounded", "cast_of_parameter"}, 10, 7, {}) }

\* Its evidence holds a boolean under the name of the probe's value context.
DivideBeforeMultiply ==
    { Rule({"divide_before_multiply", "value_words"}, {}, 14, 8, {"own_value_context"}),
      Rule({"divide_before_multiply"}, {"value_words"}, 11, 8, {"own_value_context"}) }

WeakRandomness ==
    { Rule({"strong_block_entropy"}, {}, 14, 9, {}),
      Rule({"weak_block_entropy", "entropy_use"}, {"strong_block_entropy"}, 14, 9, {}) }

(* proxy_impl_safety.py *)
LooksUpgradeable == {"upgradeable", "init_modifier"}

UninitializedImplementation ==
    { Rule(LooksUpgradeable \cup {"initialize_fn"}, {"disable_initializers"}, 18, 12, {}) }
ConstructorStateInProxyImpl ==
    { Rule(LooksUpgradeable \cup {"initialize_fn", "immutable_declaration"}, {}, 14, 10, {}) }
MissingStorageGap ==
    { Rule({"abstract_contract", "upgradeable_base", "state_variable"}, {"storage_gap"}, 12, 8, {}) }

(* defi_hygiene.py *)
SwapSlippageDeadline == AnyOf({"zero_min_out", "deadline_is_now"}, {"swap"}, {}, 14, 10, {})
MaxApproveMutableSpender == { Rule({"max_approve", "setter_of_spender"}, {}, 16, 10, {}) }

(* hybrid_token.py *)
Erc404LedgerDesync ==
    AnyOf({"unit", "hybrid_hint"},
          {"erc20_ledger", "erc721_ledger", "transfer_fn", "balance_mutated"},
          {"nft_sync", "unit_recompute"}, 16, 10, {})

(* account_abstraction.py *)
LocalDigestRecovered == {"signature_recovered", "local_digest"}

PaymasterUserOpBinding ==
    { Rule(LocalDigestRecovered \cup {"validate_paymaster_user_op"}, {"call_data"}, 18, 12, {}) }
UserOpChainIdReplay ==
    { Rule(LocalDigestRecovered \cup {"validate_user_op"}, {"recovers_user_op_hash", "chain_id"}, 16, 10, {}) }
ValidateUserOpMissingPrefund ==
    { Rule({"validate_user_op", "missing_account_funds"}, {"value_send"}, 11, 9, {}) }
SessionKeyUnscoped ==
    { Rule({"session_context", "abi_decode", "call_target"}, {"scope_check"}, 14, 7, {}) }

(* staking_extra.py, lending_accrual.py, defi_lending_extra.py *)
EmergencyWithdrawStaleDebt ==
    { Rule({"emergency_fn", "stake_zeroed", "transfer"}, {"reward_debt_reset"}, 13, 9, {}),
      Rule({"emergency_fn", "stake_zeroed", "transfer", "reward_debt_reset"}, {"total_decremented"}, 13, 9, {}) }
InterestAccrualAsymmetry ==
    { Rule({"indexed_state", "accrual_fn", "mutator_fn", "indexed_write", "sibling_accrues"},
           {"reaches_accrual"}, 14, 9, {}) }
BorrowCapNotEnforced ==
    { Rule({"cap_declared", "borrow_fn", "total_borrowed_grows"}, {"cap_read"}, 14, 10, {}) }
BadDebtNoSocialization ==
    { Rule({"liquidation_fn", "underwater", "debt_zeroed"}, {"deficit_sink"}, 14, 8, {}) }
HealthFactorRounding ==
    { Rule({"health_fn", "collateral", "debt", "rounds_up", "at_least"}, {}, 12, 7, {}) }

(* bridge_extra.py *)
MessageReplayNoNonce ==
    { Rule({"receiver_fn", "message_id", "fund_effect"}, {"processed_marker"}, 16, 8, {}) }
RetryDomainBinding ==
    { Rule({"retry_fn", "origin_parameter", "auth_or_fund"}, {"only_endpoint", "hash_reconciled"}, 16, 8, {}) }

(* signature_extra.py, amm_extra.py, dos_patterns.py, reward_math.py *)
PermitMissingDeadline ==
    { Rule({"signature_recovered", "deadline_parameter", "deadline_signed"}, {"deadline_checked"}, 14, 7, {}) }
ClmmRoundingAsymmetry ==
    { Rule({"clmm", "deposit_rounds_down", "payout_fn", "rounds_up"}, {}, 14, 7, {}) }
PushPaymentDos ==
    { Rule({"critical_path_fn", "pushes_to_previous_actor"}, {"pull_payment"}, 14, 8, {}) }
RewardPerTokenZeroSupply ==
    { Rule({"reward_fn", "divides_by_supply"}, {"zero_supply_guard"}, 14, 8, {}) }

(* oracle_extra.py, claim_replay_extra.py *)
TwapZeroWindow ==
    { Rule({"twap", "window_zero"}, {}, 14, 9, {}),
      Rule({"twap", "window_constant_up_to_60"}, {"window_zero"}, 14, 9, {}) }
ClaimReplayNoMarker ==
    { Rule({"root_or_signer", "claim_fn", "external", "proof_verified", "value_move"},
           {"view", "consumed_marker"}, 17, 8, {}) }

(* analyzer_findings.py: what a tool reports, in the words of the tool.     *)
ImpactWord == [critical |-> 18, high |-> 16, medium |-> 12, low |-> 8,
               informational |-> 5, unstated |-> 8]
ConfWord   == [high |-> 13, medium |-> 10, low |-> 7, unstated |-> 8]

\* _adapt: Slither's critical checks and high-value findings are raised.
AnalyzerFindings ==
    LET said(i, c) == {"tool_finding", "impact_" \o i, "confidence_" \o c}
        rules(i, c) ==
            { Rule(said(i, c), {"slither_critical", "slither_high"}, ImpactWord[i], ConfWord[c], {}),
              Rule(said(i, c) \cup {"slither_high"}, {"slither_critical"},
                   IF ImpactWord[i] > 14 THEN ImpactWord[i] ELSE 14, ConfWord[c], {}),
              Rule(said(i, c) \cup {"slither_critical"}, {}, 18, ConfWord[c], {}) }
    IN  UNION { rules(i, c) : i \in DOMAIN ImpactWord, c \in DOMAIN ConfWord }
=============================================================================
