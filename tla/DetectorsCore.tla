---------------------------- MODULE DetectorsCore ----------------------------
(***************************************************************************)
(* The detectors of the profile "deep" from before the gap hunt: the MVP,  *)
(* the attack classes, delegatecall and the privacy pools.  One operator   *)
(* per class, with the class's name.                                       *)
(***************************************************************************)
EXTENDS DetectorRules, Sequences

Plus(b, n) == IF b THEN n ELSE 0

(* proxy_upgrade.py *)

\* UPGRADE_FUNCS: the impact of calling each, and whether it replaces code.
UPGRADE_FUNCS ==
    { [fn |-> "fn_upgrade",             impact |-> 18, code |-> TRUE],
      [fn |-> "fn_change_proxy_admin",  impact |-> 16, code |-> TRUE],
      [fn |-> "fn_transfer_ownership",  impact |-> 14, code |-> FALSE],
      [fn |-> "fn_renounce_ownership",  impact |-> 12, code |-> FALSE] }

\* A guarded function is a governance matter unless one key can replace code.
ProxyUpgrade ==
    LET guarded == {"has_access_control"}
        governed == guarded \cup {"governance_controlled", "documented_centralization"}
        on(u) == {u.fn, "callable"}
    IN  UNION { { Rule(on(u), {"access_control"}, u.impact, IF u.code THEN 12 ELSE 10, {"no_access_control"}) }
                \cup IF u.code
                     THEN { Rule(on(u) \cup {"access_control", "admin_is_eoa"}, {}, u.impact, 12, guarded),
                            Rule(on(u) \cup {"access_control"}, {"admin_is_eoa"}, u.impact, 4, governed) }
                     ELSE { Rule(on(u) \cup {"access_control"}, {}, u.impact, 4, governed) }
              : u \in UPGRADE_FUNCS }

(* timelock_roles.py: what the chain says of a role. *)

\* ROLES.
ROLES == [default_admin |-> 20, timelock_admin |-> 18, proposer |-> 18, canceller |-> 14]

\* An executor that anyone may be matters only if proposing is open too.
TimelockRoles ==
    LET reads == {"onchain", "roles_readable"}
        open(r) == "open_" \o r
    IN  { Rule(reads \cup {open(r)}, {}, ROLES[r], 14, {"dead_role"}) : r \in DOMAIN ROLES }
        \cup { Rule(reads \cup {open("executor"), open("proposer")}, {}, 10, 14, {"dead_role"}),
               Rule(reads \cup {open("executor")}, {open("proposer")}, 8, 10, {"dead_role"}),
               Rule(reads \cup {"min_delay"}, {open(r) : r \in DOMAIN ROLES \cup {"executor"}}, 4, 8, {}) }

(* arbitrary_call.py *)
ArbitraryCall ==
    { Rule({"callable", "low_level_call"} \cup (IF deleg THEN {"delegatecall"} ELSE {})
             \cup (IF user THEN {"parameter_in_body"} ELSE {})
             \cup (IF guarded THEN {"access_control"} ELSE {}),
           (IF deleg THEN {} ELSE {"delegatecall"}) \cup (IF user THEN {} ELSE {"parameter_in_body"})
             \cup (IF guarded THEN {} ELSE {"access_control"}),
           (IF deleg THEN 18 ELSE 14) - Plus(guarded, 2),
           4 + Plus(user, 6) + Plus(~guarded, 4),
           {IF guarded THEN "has_access_control" ELSE "no_access_control"}
             \cup IF user THEN {"user_controlled"} ELSE {})
      : deleg, user, guarded \in BOOLEAN }

(* permit_misuse.py *)
PermitMisuse ==
    { Rule({"permit_to_sender", "transfer_from"}, {}, 16, 8, {}),
      Rule({"permit_to_sender"}, {"transfer_from"}, 12, 6, {}),
      Rule({"permit", "transfer_from"}, {"permit_to_sender"}, 10, 4, {}) }

(* governance_blast_radius.py *)
GovernanceBlastRadius ==
    LET open == {"open_default_admin", "open_timelock_admin", "open_proposer"}
        other == {"open_executor", "open_canceller"}
    IN  { Rule({"dangerous_selector", "dangerous_unguarded"}, {}, 18, 12, {"unguarded"}) }
        \cup AnyOf(open, {"dangerous_selector", "onchain"}, {}, 18, 14, {"open_roles"})
        \cup AnyOf(other, {"dangerous_selector", "onchain"}, open, 12, 10, {"open_roles"})
        \cup { Rule({"dangerous_selector"}, open \cup other \cup {"dangerous_unguarded"}, 16, 4,
                    {"governance_controlled", "documented_centralization"}) }

(* access_control.py *)

\* What guards a function: its header, its body, and under the ultra profiles
\* a modifier or a guard that the semantic index knows.
Guarded(ultra) == {"access_control", "inline_auth"}
                  \cup IF ultra THEN {"semantic_guard", "guard_modifier"} ELSE {}

AccessControl ==
    { Rule({"uups", "authorize_upgrade_fn"}, {"access_control", "inline_auth", "reverts"}, 18, 16, {"confirmable"}),
      Rule({"external", "tx_origin_auth"}, {}, 14, 12, {}),
      Rule({"external", "initializer_fn"}, {"initializer_guard"}, 17, 9, {}),
      Rule({"external", "privileged_fn", "state_or_value_write"},
           Guarded(FALSE) \cup {"normal_user_asset_method", "ultra_profile"}, 18, 10, {}),
      Rule({"external", "privileged_fn", "state_or_value_write", "ultra_profile"},
           Guarded(TRUE) \cup {"normal_user_asset_method", "policy_hook"}, 18, 16, {}) }

(* oracle_manipulation.py: two words of DeFi in the code, "defi", gate all. *)
OracleManipulation ==
    { Rule({"defi", "spot_read", "price_words"}, {"ultra_profile"}, 17, 10, {}),
      Rule({"defi", "spot_read", "price_words", "ultra_profile"}, {}, 17, 14, {}),
      Rule({"defi", "spot_read", "lending_sink", "ultra_profile"}, {"price_words"}, 17, 14, {}),
      Rule({"defi", "spot_read", "twap_name"}, {}, 16, 12, {}),
      Rule({"defi", "chainlink_read"}, {"staleness_checked"}, 13, 10, {}),
      Rule({"defi", "balance_priced", "price_words"}, {"vault_mitigation"}, 16, 9, {}),
      Rule({"defi", "price_words_or_name", "aggregates", "spot_sub_read"}, {"twap_wrapped"}, 17, 12, {"confirmable"}),
      Rule({"defi", "share_mul_div", "balance_total_assets"}, {"vault_mitigation"}, 16, 13, {"confirmable"}) }

(* arithmetic_logic.py *)
ArithmeticLogic ==
    { Rule({"unchecked_math"}, {"library_math"}, 14, 8, {}),
      Rule({"mint_fn", "mints"}, {"idempotent"}, 17, 8, {}),
      Rule({"external", "mint_or_burn_fn"}, {"access_control", "inline_auth", "guard_modifier"}, 18, 10, {}) }

(* reentrancy.py *)

\* _interprocedural: the external call is made by a function it calls.
Interprocedural ==
    LET cei == {"calls_out_through_callee", "write_after_callee"}
        not == {"view", "external_call", "callback_then_accounting"}
    IN  { Rule(cei \cup {"non_reentrant"}, not, 10, 5, {}),
          Rule(cei \cup {"entry_non_reentrant"}, not \cup {"non_reentrant"}, 15, 9, {}),
          Rule(cei, not \cup {"non_reentrant", "entry_non_reentrant"}, 18, 12, {}) }

Reentrancy ==
    { Rule({"callback_then_accounting"}, {"view", "non_reentrant"}, 18, 12, {"confirmable"}),
      Rule({"external_call", "write_after_call"}, {"view", "non_reentrant"}, 18, 10, {}),
      Rule({"external_call", "write_after_call", "non_reentrant"}, {"view"}, 10, 5, {}) }
    \cup Interprocedural

(* signature_replay.py *)
SignatureReplay ==
    { Rule({"signature_checked"}, {"nonce", "deadline"}, 17, 9, {}),
      Rule({"raw_ecrecover"}, {"zero_address_check", "oz_signature"}, 16, 14, {"confirmable"}),
      Rule({"cached_domain_separator", "chain_id"}, {"chain_id_recomputed"}, 14, 10, {}) }
    \cup AnyOf({"nonce", "deadline"}, {"signature_checked"}, {"domain_separator"}, 13, 8, {})

(* token_logic.py: "token" for its words anywhere in the code. *)
TokenLogic ==
    { Rule({"token", "burns", "price_words"}, {}, 15, 8, {}),
      Rule({"token", "unchecked_transfer"}, {"safe_transfer"}, 10, 8, {}),
      Rule({"token", "transfer_from", "price_words"}, {"balance_delta"}, 12, 7, {}),
      Rule({"token", "transfer_hook"}, {}, 13, 7, {}) }

(* time_logic.py: all of it counts as a matter of governance. *)
TimeLogic ==
    { Rule({"time_variable", "sets_time", "setter_fn"}, {"monotonic"}, 15, 9, {"governance_controlled"}),
      Rule({"time_variable", "withdrawal_fn", "time_gate"}, {}, 13, 7, {"governance_controlled"}) }

(* bridge_accounting.py: "bridge" for two of its markers anywhere. *)
BridgeEntry ==
    AnyOf({"bridge_entry_fn", "root_words"}, {"bridge", "root_gate"}, {"zero_root_rejected"},
          18, 14, {"confirmable"})
BridgeRecovery ==
    { Rule({"bridge", "recovery_fn"}, {"state_cleared"}, 18, 8, {}),
      Rule({"bridge", "recovery_fn", "state_cleared"}, {"failure_checked"}, 16, 6, {}) }
BridgeFinalize ==
    LET pays == {"bridge", "finalize_fn", "external_call"}
    IN  { Rule(pays, {"proof_verified"}, 18, 8, {}),
          Rule(pays, {"replay_marked"}, 18, 8, {}),
          Rule(pays \cup {"replay_marked", "marked_after_transfer"}, {}, 16, 8, {}) }
BridgeAccounting == BridgeEntry \cup BridgeRecovery \cup BridgeFinalize

(* solvency_check.py, flashloan_governance.py *)
SolvencyCheck ==
    { Rule({"external", "solvency_write", "sibling_checks_health"}, {"view", "reaches_health_check"}, 16, 12, {}) }

FlashloanGovernance ==
    AnyOf({"emergency_commit", "arbitrary_execution"}, {"votes", "spot_balance"}, {"vote_snapshot"}, 18, 12, {})

(* delegatecall.py *)

\* Who may choose the target.
TargetSource == {"target_in_parameters", "target_from_calldata", "target_by_subscript", "target_tainted"}

\* A subscript of a table that only administrators write is not enough.
Delegatecall ==
    LET call == {"delegatecall"}
        not  == {"internal", "view", "target_is_this"}
        guards == {"access_control", "inline_auth", "semantic_guard"}
        by(s) == IF s = "target_by_subscript" THEN {"table_admin_set"} ELSE {}
        tags  == {"confirmable", "user_controlled"}
    IN  UNION { { Rule(call \cup {s}, not \cup by(s) \cup guards \cup ({"target_tainted"} \ {s}), 18,
                       IF s = "target_tainted" THEN 17 ELSE 16, tags),
                  Rule(call \cup {s, "target_tainted"}, not \cup by(s) \cup guards, 18, 17, tags) }
                \cup AnyOf(guards, call \cup {s}, not \cup by(s), 12, 8, {"lead_only", "user_controlled"})
              : s \in TargetSource }

(* privacy_pool.py: "privacy" for what _is_privacy_function accepts.       *)
PrivacyPool ==
    LET unbound == {"lead_only", "rare_lead"}
        plain   == {"confirmable", "rare_lead"}
    IN  { Rule({"privacy", "nullifier_written", "value_sink", "marked_after_transfer"}, {}, 18, 14, plain),
          Rule({"privacy", "nullifier_written", "value_sink"}, {"spent_check"}, 17, 12, plain),
          Rule({"privacy", "root_parameter", "proof"}, {"known_root_checked"}, 18, 12, plain),
          Rule({"privacy", "proof", "value_sink", "value_unbound_by_proof"}, {}, 17, 9, unbound),
          Rule({"privacy", "fee_and_amount", "value_sink"}, {"fee_bounded", "fee_bound_by_proof"}, 16, 10, unbound) }
=============================================================================
