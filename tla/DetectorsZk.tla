----------------------------- MODULE DetectorsZk -----------------------------
(***************************************************************************)
(* zk_verifier.py: the integration of proof verifiers.  All of it is gated *)
(* by "zk", two points of _zk_score over the whole source; "proof_bound"   *)
(* stands for a value found in _binding_text, what is hashed or verified.  *)
(***************************************************************************)
EXTENDS DetectorRules

\* _zk_score: one strong word, or two weak ones.
ZkScored == { {"zk_strong_word"}, {"zk_two_weak_words"} }

\* _mk, for a function or a file of a zk contract; a view changes nothing.
OnChain(all, none, impact, conf)   == Confirmable({"zk"} \cup all, {"view"} \cup none, impact, conf)
Unbound(all, none, impact, conf)   == Lead({"zk"} \cup all, {"view"} \cup none, impact, conf)
Anywhere(all, none, impact, conf)  == Confirmable({"zk"} \cup all, none, impact, conf)

\* _function_rules: what a proof does not bind is a lead, since the circuit may.
ProofToValue ==
    { Unbound({"proof_words", "exit_fn", "amount_from_parameter"},
              {"amount_in_proof", "amount_from_state", "amount_required"}, 20, 10),
      Unbound({"recipient_parameter", "hash_call", "verify_call", "credits_recipient"}, {"recipient_in_proof"}, 16, 8),
      Unbound({"fee_and_relayer_parameters", "fee_paid"}, {"fee_in_proof", "fee_bounded"}, 16, 10),
      Unbound({"verify_call", "critical_parameter_used"}, {"critical_parameter_in_proof"}, 18, 10) }

VerifierUse ==
    { Anywhere({"verify_call_bare"}, {}, 18, 16),
      Anywhere({"verify_result_unused"}, {"verify_call_bare"}, 18, 16),
      Anywhere({"verify_fn", "returns_true"}, {"verifies_something"}, 20, 16),
      Anywhere({"verifier_staticcall"}, {"success_checked"}, 18, 14),
      Anywhere({"set_verifier_fn", "assigns_verifier", "external"}, {"access_control", "inline_auth"}, 18, 14),
      OnChain({"verifier_parameter", "verifier_parameter_called"}, {"verifier_allowlisted"}, 18, 14) }

SettlementGates ==
    { OnChain({"nullifier_words", "value_sink"}, {"spent_check"}, 18, 14),
      OnChain({"nullifier_words", "value_sink", "spent_check", "marked_after_transfer"}, {"non_reentrant"}, 18, 14),
      Unbound({"recipient_parameter", "nullifier_derived"}, {"recipient_in_nullifier", "pays_sender"}, 16, 8),
      OnChain({"execute_batch_fn", "public_data_read", "credits_balance"}, {"operations_hash_compared"}, 20, 14),
      OnChain({"escape_hatch_fn", "value_sink"}, {"liveness_gate", "access_control", "inline_auth"}, 12, 12) }

\* What a batch carries beside the proof.
BatchValues ==
    { Unbound({"amount_narrowed_in_proof", "amount_paid_in_full"}, {}, 10, 8),
      Lead({"zk", "settlement_words", "count_bounds_loop"}, {"count_in_proof"}, 18, 8),
      Unbound({"value_sink", "value_from_proof_data"}, {"proof_data_hash_compared"}, 18, 8) }

\* _file_rules: over the whole file.
FileRules ==
    { Anywhere({"root_parameter", "proof_words"}, {"known_root_checked", "stores_new_root"}, 18, 12),
      Lead({"zk", "commit_batch", "execute_batch", "value_sink"}, {"proven_gate"}, 18, 10),
      Anywhere({"scalar_field", "verify_takes_array"}, {"inputs_in_field"}, 12, 14) }

\* _groth16_vk: two keys that are the same point, or a point that is zero.
Groth16Vk == { Anywhere({"gamma_is_delta"}, {}, 20, 16), Anywhere({"zero_point"}, {}, 19, 12) }

\* _semantic_taint_rules, _circuit_note.
TaintRules  == { Lead({"zk", "calldata_flow_to_value", "proof_words"}, {"flow_in_proof"}, 18, 9) }
CircuitNote == { Rule({"zk", "zk_strong_word"}, {}, 4, 18, {"informational"}) }

ZkVerifier == ProofToValue \cup VerifierUse \cup SettlementGates \cup BatchValues \cup FileRules
              \cup Groth16Vk \cup TaintRules \cup CircuitNote
=============================================================================
