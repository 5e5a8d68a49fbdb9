---------------------------- MODULE Detectors2026 ----------------------------
(***************************************************************************)
(* exploit_2026.py: a detector per incident class, all of them in the      *)
(* profile "deep".  One operator per class, with the class's name.         *)
(***************************************************************************)
EXTENDS DetectorRules

HookCallbackAuth ==
    { Confirmable({"hook_fn", "external", "value_sink"}, {"view", "caller_bound", "access_control"}, 18, 14),
      Lead({"callback_fn", "transfer_from", "pays_from_decoded_payer"}, {"view", "payer_verified"}, 16, 10) }

\* The handler's target is decoded from the message.
CrossChainTrust ==
    { Confirmable({"cross_chain_parameter", "compares_two_parameters"},
                  {"internal", "access_control"}, 18, 16),
      Confirmable({"handler_fn", "abi_decode", "calls_decoded_target"}, {"target_guarded"}, 18, 16) }

UnprotectedInitializer ==
    { Confirmable({"initializer_fn", "external", "owner_sink"},
                  {"init_modifier", "access_control", "initializer_guard"}, 18, 16) }

SelfCallAuthBypass ==
    { Confirmable({"self_call", "caller_bytes"}, {"selector_guard"}, 16, 16) }

\* Two dynamic parameters packed into one hash; the first use of it counts.
EncodePackedCollision ==
    LET packed == {"packs_two_dynamic"}
        not == {"packs_length"}
    IN  { Confirmable(packed \cup {"replay_sink"}, not, 17, 16),
          Confirmable(packed \cup {"signature_checked"}, not \cup {"replay_sink"}, 18, 15),
          Lead(packed \cup {"auth_words", "compares_or_returns"},
               not \cup {"replay_sink", "signature_checked"}, 14, 9) }

\* Under the ultra profiles any function that moves the pair's tokens counts.
HookPairBurnSync ==
    LET hook == {"transfer_hook_fn", "syncs_pair", "reduces_pair"}
        wide == {"ultra_profile", "moves_pair_tokens"}
    IN  { Confirmable(hook, {"view"}, 16, 16) }
        \cup UNION { { Confirmable(wide \cup {"syncs_pair_or_updates"}, {"view", f}, 18, 14),
                       Confirmable(wide, {"view", f, "syncs_pair_or_updates"}, 18, 14) } : f \in hook }

DepositCallbackCEI ==
    { Confirmable({"deposit_fn", "receiver_callback", "write_after_call"},
                  {"access_control", "non_reentrant", "write_before_call"}, 18, 14) }

ReceiverHookCredit ==
    { Confirmable({"received_hook_fn", "credits"}, {"access_control", "non_reentrant"}, 16, 12) }

FeeOnTransferSwapBounds ==
    { Lead({"fee_on_transfer_path"}, {"balance_delta"}, 14, 10) }

AsymmetricSafeMath ==
    { Confirmable({"solidity_before_0_8", "price_fn", "safe_mul", "raw_add"}, {}, 18, 14) }

MemoryStructPersistence ==
    { Confirmable({"struct_in_memory", "writes_its_field"}, {"view", "written_back"}, 14, 16) }

\* An internal or guarded function adds whom it is told to.
SignerAllowlist ==
    AnyOf({"adds_caller_to_set", "pushes_caller_to_set", "grants_role"}, {},
          {"access_control", "internal", "view", "sender_is_owner"}, 18, 16, {"confirmable"})
=============================================================================
