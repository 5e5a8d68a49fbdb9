-------------------------- MODULE DetectorRegistry ---------------------------
(***************************************************************************)
(* Which detectors a profile runs, under the names that the later steps    *)
(* know them by, and what those steps read from a name.                    *)
(***************************************************************************)
EXTENDS DetectorsCore, Detectors2026, DetectorsGap, DetectorsUltra, DetectorsZk,
        DetectorsV2

\* One list after the other; none names a detector of the other.
Together(f, g) ==
    [d \in DOMAIN f \cup DOMAIN g |-> IF d \in DOMAIN f THEN f[d] ELSE g[d]]

MVP_DETECTORS ==
    [ proxy_upgrade |-> ProxyUpgrade, timelock_roles |-> TimelockRoles,
      arbitrary_call |-> ArbitraryCall, permit_misuse |-> PermitMisuse,
      governance_blast_radius |-> GovernanceBlastRadius ]

ATTACK_CLASS_DETECTORS ==
    [ access_control |-> AccessControl, oracle_manipulation |-> OracleManipulation,
      arithmetic_logic |-> ArithmeticLogic, reentrancy |-> Reentrancy,
      signature_replay |-> SignatureReplay, token_logic |-> TokenLogic,
      time_logic |-> TimeLogic, bridge_accounting |-> BridgeAccounting,
      zk_verifier |-> ZkVerifier, solvency_check |-> SolvencyCheck,
      flashloan_governance |-> FlashloanGovernance ]

EXPLOIT_2026_DETECTORS ==
    [ hook_callback_auth |-> HookCallbackAuth, cross_chain_trust |-> CrossChainTrust,
      unprotected_initializer |-> UnprotectedInitializer,
      self_call_auth_bypass |-> SelfCallAuthBypass,
      encodepacked_collision |-> EncodePackedCollision,
      hook_pair_burn_sync |-> HookPairBurnSync,
      deposit_callback_cei |-> DepositCallbackCEI,
      receiver_hook_credit |-> ReceiverHookCredit,
      fot_swap_bounds |-> FeeOnTransferSwapBounds,
      asymmetric_safemath |-> AsymmetricSafeMath,
      memory_struct_persistence |-> MemoryStructPersistence,
      signer_allowlist |-> SignerAllowlist ]

\* The rest of FULL_DETECTORS.
GAP_DETECTORS ==
    [ delegatecall |-> Delegatecall, privacy_pool |-> PrivacyPool,
      unsafe_downcast |-> UnsafeDowncast, divide_before_multiply |-> DivideBeforeMultiply,
      weak_randomness |-> WeakRandomness,
      uninitialized_implementation |-> UninitializedImplementation,
      constructor_state_in_proxy_impl |-> ConstructorStateInProxyImpl,
      swap_missing_slippage_deadline |-> SwapSlippageDeadline,
      max_approve_mutable_spender |-> MaxApproveMutableSpender,
      erc404_ledger_desync |-> Erc404LedgerDesync,
      paymaster_userop_binding |-> PaymasterUserOpBinding,
      userop_chainid_replay |-> UserOpChainIdReplay,
      validateuserop_missing_prefund |-> ValidateUserOpMissingPrefund,
      emergency_withdraw_stale_debt |-> EmergencyWithdrawStaleDebt,
      borrow_cap_not_enforced |-> BorrowCapNotEnforced,
      bad_debt_no_socialization |-> BadDebtNoSocialization,
      missing_storage_gap |-> MissingStorageGap,
      message_replay_no_nonce |-> MessageReplayNoNonce,
      retry_domain_binding |-> RetryDomainBinding,
      session_key_unscoped |-> SessionKeyUnscoped,
      permit_missing_deadline |-> PermitMissingDeadline,
      health_factor_rounding |-> HealthFactorRounding,
      clmm_rounding_asymmetry |-> ClmmRoundingAsymmetry,
      push_payment_dos |-> PushPaymentDos,
      interest_accrual_asymmetry |-> InterestAccrualAsymmetry,
      reward_per_token_zero_supply |-> RewardPerTokenZeroSupply,
      twap_zero_window |-> TwapZeroWindow, claim_replay_no_marker |-> ClaimReplayNoMarker,
      analyzer_findings |-> AnalyzerFindings ]

FULL_DETECTORS ==
    Together(Together(MVP_DETECTORS, ATTACK_CLASS_DETECTORS),
             Together(EXPLOIT_2026_DETECTORS, GAP_DETECTORS))

ULTRA_EXTRA_DETECTORS ==
    [ ecrecover_zero |-> EcrecoverZero, eip1271_spoof |-> Eip1271Spoof,
      arbitrary_from_transferfrom |-> ArbitraryFromTransferFrom,
      cross_chain_receiver_source_auth |-> CrossChainReceiverSourceAuth,
      vault_share_donation_inflation |-> VaultShareDonationInflation,
      erc2771_msgsender_spoof |-> Erc2771MsgSenderSpoof,
      reinitializable_proxy_delegatecall |-> ReinitializableProxyDelegatecall,
      payable_multicall_msgvalue_reuse |-> PayableMulticallMsgValueReuse,
      signed_unsigned_cast_mismatch |-> SignedUnsignedCastMismatch,
      batch_array_length_mismatch |-> BatchArrayLengthMismatch,
      liquidation_collateral_not_cleared |-> LiquidationCollateralNotCleared ]

ULTRA_DEEP_V2_EXTRA_DETECTORS ==
    [ corpus_patterns |-> CorpusPattern, bytecode_periphery |-> BytecodePeriphery,
      amm_pair_reserve_desync |-> AmmPairReserveDesync,
      settlement_boundary_mismatch |-> SettlementBoundaryMismatch,
      bridge_retry_domain_binding |-> BridgeRetryDomainBinding,
      decimal_unit_mismatch |-> DecimalUnitMismatch,
      zero_value_transferfrom_bypass |-> ZeroValueTransferFromBypass,
      component_share_accounting |-> ComponentShareAccounting,
      single_verifier_bridge_config |-> SingleVerifierBridgeConfig,
      allowance_drain_router |-> AllowanceDrainRouter,
      zero_transfer_reward_checkpoint |-> ZeroTransferRewardCheckpoint,
      erc4626_dual_asset_redeem_double_count |-> Erc4626DualAssetRedeemDoubleCount,
      erc777_hook_balance_bypass |-> Erc777HookBalanceBypass,
      read_only_reserve_reentrancy |-> ReadOnlyReserveReentrancy,
      bridge_keeper_mutation |-> BridgeKeeperMutation,
      bridge_zero_root_acceptance |-> BridgeZeroRootAcceptance,
      verifier_address_spoof |-> VerifierAddressSpoof,
      vyper_nonreentrant_compiler |-> VyperNonreentrantCompiler,
      thin_liquidity_spot_oracle |-> ThinLiquiditySpotOracle,
      lending_exchange_rate_donation |-> LendingExchangeRateDonation,
      clmm_tick_boundary_rounding |-> ClmmTickBoundaryRounding,
      invariant_precision_loss |-> InvariantPrecisionLoss,
      unsafe_mint_math |-> UnsafeMintMath,
      flash_cycle_rounding_withdraw |-> FlashCycleRoundingWithdraw,
      multisig_delegatecall_payload |-> MultisigDelegatecallPayload,
      custody_sweep_centralization |-> CustodySweepCentralization,
      redemption_after_supply_burn |-> RedemptionAfterSupplyBurn,
      whitelist_claim_replay |-> WhitelistClaimReplay,
      balance_snapshot_reward_inflation |-> BalanceSnapshotRewardInflation,
      permissionless_batch_executor |-> PermissionlessBatchExecutor,
      rfq_signer_inventory_mismatch |-> RfqSignerInventoryMismatch,
      spot_priced_leverage_liquidation_cap |-> SpotPricedLeverageLiquidationCap,
      economic_oracle_lending |-> EconomicOracleLending ]

WEIRD_HUNT_DETECTORS ==
    [ actual_received_accounting |-> ActualReceivedAccounting,
      merkle_claim_binding |-> MerkleClaimBinding,
      bitmap_claim_collision |-> BitmapClaimCollision,
      bridge_replay_key |-> BridgeReplayKey, address_alias_bridge |-> AddressAliasBridge,
      oracle_freshness_sequencer |-> OracleFreshnessSequencer,
      twap_observation_cardinality |-> TwapObservationCardinality,
      forced_eth_accounting |-> ForcedEthAccounting,
      create2_metamorphic_trust |-> Create2MetamorphicTrust,
      trycatch_finalization |-> TryCatchFinalization,
      reward_debt_order |-> RewardDebtOrder,
      accumulator_zero_supply |-> AccumulatorZeroSupply,
      position_merge_split |-> PositionMergeSplit,
      governance_snapshot_bypass |-> GovernanceSnapshotBypass,
      pausability_bypass |-> PausabilityBypass,
      multicall_state_cache |-> MulticallStateCache,
      wad_ray_unit_mismatch |-> WadRayUnitMismatch,
      duplicate_batch_item |-> DuplicateBatchItem,
      weird_hunt_taint_value_flow |-> WeirdHuntTaintValueFlow ]

ULTRA_DETECTORS == Together(FULL_DETECTORS, ULTRA_EXTRA_DETECTORS)
V2_DETECTORS    ==
    Together(ULTRA_DETECTORS, Together(ULTRA_DEEP_V2_EXTRA_DETECTORS, WEIRD_HUNT_DETECTORS))

PROFILE_NAMES == {"deep", "ultra-deep", "ultra-deep-v2"}

\* get_detectors: a profile the map does not know runs the full set of "deep".
GetDetectors(profile) ==
    CASE profile = "ultra-deep-v2" -> V2_DETECTORS
      [] profile = "ultra-deep"    -> ULTRA_DETECTORS
      [] OTHER                     -> FULL_DETECTORS

(* What the name of a detector means to the score and to the fork checks.  *)

\* _STRUCTURAL_DETECTORS.
STRUCTURAL_DETECTORS ==
    { "access_control", "accumulator_zero_supply", "actual_received_accounting",
      "address_alias_bridge", "allowance_drain_router", "arbitrary_from_transferfrom",
      "bitmap_claim_collision", "bridge_keeper_mutation", "bridge_replay_key",
      "bridge_zero_root_acceptance", "bytecode_periphery", "clmm_tick_boundary_rounding",
      "create2_metamorphic_trust", "cross_chain_receiver_source_auth",
      "deposit_callback_cei", "duplicate_batch_item", "ecrecover_zero", "eip1271_spoof",
      "erc2771_msgsender_spoof", "erc777_hook_balance_bypass",
      "flash_cycle_rounding_withdraw", "flashloan_governance", "forced_eth_accounting",
      "governance_snapshot_bypass", "hook_pair_burn_sync", "invariant_precision_loss",
      "lending_exchange_rate_donation", "liquidation_collateral_not_cleared",
      "merkle_claim_binding", "multicall_state_cache", "multisig_delegatecall_payload",
      "oracle_freshness_sequencer", "pausability_bypass",
      "payable_multicall_msgvalue_reuse", "position_merge_split", "receiver_hook_credit",
      "reentrancy", "reinitializable_proxy_delegatecall", "reward_debt_order",
      "signed_unsigned_cast_mismatch", "solvency_check", "thin_liquidity_spot_oracle",
      "trycatch_finalization", "twap_observation_cardinality", "unsafe_mint_math",
      "vault_share_donation_inflation", "verifier_address_spoof",
      "vyper_nonreentrant_compiler", "wad_ray_unit_mismatch",
      "weird_hunt_taint_value_flow", "zero_transfer_reward_checkpoint",
      "zero_value_transferfrom_bypass" }

\* is_poc_eligible's generators.
POC_DETECTORS == {"proxy_upgrade", "arbitrary_call", "governance_blast_radius"}

(* What a candidate keeps of the code it was found in.                     *)

\* The detectors that put the function's body into evidence["snippet"].
KeepsSnippet ==
    (DOMAIN MVP_DETECTORS \cup DOMAIN ATTACK_CLASS_DETECTORS \cup DOMAIN ULTRA_EXTRA_DETECTORS
       \cup DOMAIN WEIRD_HUNT_DETECTORS
       \cup {"delegatecall", "privacy_pool", "unsafe_downcast", "divide_before_multiply",
             "weak_randomness", "corpus_patterns", "economic_oracle_lending"})
    \ {"timelock_roles", "governance_blast_radius", "zk_verifier", "flashloan_governance",
       "erc2771_msgsender_spoof"}

\* Of those, the ones whose snippet begins with the function's header.
KeepsHeader == DOMAIN WEIRD_HUNT_DETECTORS \cup {"proxy_upgrade"}

\* The detectors that give one title to whatever they find in a function.
OneTitle == {"arbitrary_call", "delegatecall", "single_verifier_bridge_config"}
=============================================================================
