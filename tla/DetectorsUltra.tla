---------------------------- MODULE DetectorsUltra ---------------------------
(***************************************************************************)
(* ultra_deep.py and weird_hunt.py: the detectors that only the ultra      *)
(* profiles run.  One operator per class, with the class's name.           *)
(***************************************************************************)
EXTENDS DetectorRules

(* ultra_deep.py *)
EcrecoverZero ==
    { Rule({"raw_ecrecover", "ecrecover_authorizes"}, {"oz_signature", "zero_address_check"}, 17, 14, {}) }
Eip1271Spoof ==
    { Rule({"is_valid_signature", "magic_value"}, {"signer_checked"}, 16, 12, {}) }
ArbitraryFromTransferFrom ==
    { Rule({"external", "transfers_from_parameter"}, {}, 17, 12, {}) }
CrossChainReceiverSourceAuth ==
    { Rule({"receiver_fn"}, {"only_endpoint", "peer_checked"}, 18, 11, {}) }
VaultShareDonationInflation ==
    { Rule({"share_fn", "balance_of_this", "supply", "mul_or_div"},
           {"vault_mitigation", "internal_accounting"}, 16, 12, {}) }
Erc2771MsgSenderSpoof ==
    { Rule({"trusted_forwarder", "multicall", "self_delegatecall"}, {}, 17, 12, {}) }
ReinitializableProxyDelegatecall ==
    { Rule({"initializer_fn", "wires_implementation", "delegatecall"}, {"initializer_guard"}, 18, 12, {}) }
PayableMulticallMsgValueReuse ==
    { Rule({"payable", "loops", "self_delegatecall"}, {}, 17, 12, {}) }
SignedUnsignedCastMismatch ==
    { Rule({"casts_signed_parameter"}, {"sign_checked"}, 15, 11, {}) }
BatchArrayLengthMismatch ==
    { Rule({"external", "two_arrays_indexed"}, {"lengths_compared"}, 10, 10, {}) }
LiquidationCollateralNotCleared ==
    { Rule({"liquidation_fn", "transfers_position"}, {"position_cleared"}, 16, 11, {}) }

(* weird_hunt.py *)

\* _finding: each of these is a rare lead.
Weird(all, none, impact, conf, tier) == Rule(all, none, impact, conf, {"rare_lead", tier})

ActualReceivedAccounting ==
    { Weird({"deposit_fn", "transfer_from", "credits_nominal_amount"}, {"balance_delta"}, 17, 10, "lead_only") }
MerkleClaimBinding ==
    { Weird({"merkle_words", "hash_call", "value_sink", "two_leaf_fields_missing"}, {}, 17, 10, "lead_only") }
BitmapClaimCollision ==
    { Weird({"claim_bitmap", "unwrapped_shift"}, {"word_modulo"}, 16, 11, "confirmable"),
      Weird({"claim_bitmap", "index_truncated"}, {}, 16, 11, "confirmable") }
BridgeReplayKey ==
    { Weird({"bridge_words", "replay_marked", "value_sink", "hash_call"}, {"four_domain_anchors"}, 18, 10, "lead_only") }
AddressAliasBridge ==
    { Weird({"cross_domain_words", "sender_trusted", s}, {"alias_helper"}, 16, 9, "lead_only")
      : s \in {"value_sink", "finalize_words"} }

\* One missing check is enough; the uptime of the sequencer counts on an L2.
OracleFreshnessSequencer ==
    LET read == {"latest_round_data", "value_words"}
    IN  { Weird(read, {c}, 16, 11, "confirmable")
          : c \in {"staleness_checked", "answered_in_round_checked", "positive_answer_checked"} }
        \cup { Weird(read \cup {"l2_chain"}, {"sequencer_checked"}, 16, 11, "confirmable") }

TwapObservationCardinality ==
    { Weird({"twap_words", "zero_window"}, {"cardinality_checked"}, 15, 9, "lead_only"),
      Weird({"twap_words", "period_parameter"}, {"minimum_period", "cardinality_checked"}, 15, 9, "lead_only") }
ForcedEthAccounting ==
    { Weird({"native_balance_of_this", "accounting_words"}, {"internal_accounting"}, 15, 10, "confirmable") }
Create2MetamorphicTrust ==
    { Weird({"create2_or_code_check", "trust_words"}, {"code_hash_bound"}, 16, 8, "lead_only") }
TryCatchFinalization ==
    { Weird({"try_catch", "consumed_before_try"}, {"catch_reverts"}, 16, 10, "confirmable") }
RewardDebtOrder ==
    { Weird({"reward_claim_fn", "debt_written_after_transfer"}, {"non_reentrant"}, 17, 11, "confirmable") }
AccumulatorZeroSupply ==
    { Weird({"reward_accumulator", "divides_by_supply"}, {"zero_supply_branch"}, 14, 10, "confirmable") }

\* The source must be cleared and its debts settled.
PositionMergeSplit ==
    { Weird({"split_merge_fn", "position_words", "position_state_words"}, {m}, 16, 9, "lead_only")
      : m \in {"source_cleared", "debt_or_checkpoint_words"} }
GovernanceSnapshotBypass ==
    { Weird({"vote_words", "current_votes"}, {"vote_snapshot"}, 16, 9, "lead_only") }
PausabilityBypass ==
    { Weird({"pausable_path_calls", "alternate_entry_fn", w}, {"pause_words"}, 15, 9, "lead_only")
      : w \in {"shares_paused_callee", "value_sink"} }
MulticallStateCache ==
    { Weird({"delegatecall", "payable_or_cached"}, {"value_consumed"}, 17, 10, "confirmable") }
WadRayUnitMismatch ==
    { Weird({"two_scales", "mul_or_div"}, {"normalized"}, 15, 9, "lead_only") }
DuplicateBatchItem ==
    { Weird({"array_parameter", "loops", "array_indexed", "moves_or_adds"}, {"duplicates_rejected"},
            15, 10, "confirmable") }

\* flows_to_sink: a flow of the taint report, of confidence 0.75 or more.
WeirdHuntTaintValueFlow ==
    { Weird({"calldata_flow_to_value", "flow_crosses_functions"}, {}, 16, 8, "lead_only") }
=============================================================================
