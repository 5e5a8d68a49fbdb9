-------------------------- MODULE Detection_proofs ---------------------------
(* That no flag is lost on the way from the detectors to the list of       *)
(* candidates and that no finding corroborates itself, for every target,   *)
(* profile and hypothesis.                                                 *)
EXTENDS Detection, WellFoundedInduction, TLAPS

----------------------------------------------------------------------------
(* The rules of the registry: every score is one of FindingCandidate's,    *)
(* and no detector calls its own finding corroborated.                     *)

Plain(R) == \A r \in R : r.impact \in 0..20 /\ r.conf \in 0..20 /\ "corroborated" \notin r.tags

USE DEF Plain, Rule, AnyOf, Confirmable, Lead

LEMMA ProxyUpgradePlain == Plain(ProxyUpgrade)
<1>1. \A u \in UPGRADE_FUNCS : u.impact \in 0..20
  BY DEF UPGRADE_FUNCS
<1>2. QED
  BY <1>1 DEF ProxyUpgrade

LEMMA TimelockRolesPlain == Plain(TimelockRoles)
<1>1. \A r \in DOMAIN ROLES : ROLES[r] \in 0..20
  BY DEF ROLES
<1>2. QED
  BY <1>1 DEF TimelockRoles

LEMMA ArbitraryCallPlain == Plain(ArbitraryCall)
<1>1. \A b \in BOOLEAN : /\ Plus(b, 2) \in 0..2 /\ Plus(b, 4) \in 0..4
                       /\ Plus(b, 6) \in 0..6 /\ Plus(~b, 4) \in 0..4
  BY DEF Plus
<1>2. QED
  BY <1>1 DEF ArbitraryCall

LEMMA ZkVerifierPlain == Plain(ZkVerifier)
<1>1. Plain(ProofToValue) /\ Plain(VerifierUse) /\ Plain(SettlementGates) /\ Plain(BatchValues)
  BY DEF ProofToValue, VerifierUse, SettlementGates, BatchValues, OnChain, Unbound, Anywhere
<1>2. Plain(FileRules) /\ Plain(Groth16Vk) /\ Plain(TaintRules) /\ Plain(CircuitNote)
  BY DEF FileRules, Groth16Vk, TaintRules, CircuitNote, Anywhere
<1>3. QED
  BY <1>1, <1>2 DEF ZkVerifier

LEMMA AnalyzerFindingsPlain == Plain(AnalyzerFindings)
<1>1. \A i \in DOMAIN ImpactWord : ImpactWord[i] \in 0..20
  BY DEF ImpactWord
<1>2. \A c \in DOMAIN ConfWord : ConfWord[c] \in 0..20
  BY DEF ConfWord
<1>3. QED
  BY <1>1, <1>2 DEF AnalyzerFindings

LEMMA BytecodePeripheryPlain == Plain(BytecodePeriphery)
<1>1. \A b \in BytecodeSignals : b.impact \in 0..20 /\ b.verified \in 0..20 /\ b.unverified \in 0..20
  BY DEF BytecodeSignals
<1>2. QED
  BY <1>1 DEF BytecodePeriphery

LEMMA MvpPlain == \A d \in DOMAIN MVP_DETECTORS : Plain(MVP_DETECTORS[d])
<1>1. Plain(PermitMisuse) /\ Plain(GovernanceBlastRadius)
  BY DEF PermitMisuse, GovernanceBlastRadius
<1>2. QED
  BY <1>1, ProxyUpgradePlain, TimelockRolesPlain, ArbitraryCallPlain DEF MVP_DETECTORS

LEMMA AttackClassPlain == \A d \in DOMAIN ATTACK_CLASS_DETECTORS : Plain(ATTACK_CLASS_DETECTORS[d])
<1>1. Plain(AccessControl) /\ Plain(OracleManipulation) /\ Plain(ArithmeticLogic)
      /\ Plain(Reentrancy) /\ Plain(SignatureReplay) /\ Plain(TokenLogic)
      /\ Plain(TimeLogic) /\ Plain(BridgeAccounting) /\ Plain(SolvencyCheck)
  BY DEF AccessControl, Guarded, OracleManipulation, ArithmeticLogic, Reentrancy,
         Interprocedural, SignatureReplay, TokenLogic, TimeLogic, BridgeAccounting,
         BridgeEntry, BridgeRecovery, BridgeFinalize, SolvencyCheck
<1>2. Plain(FlashloanGovernance)
  BY DEF FlashloanGovernance
<1>3. QED
  BY <1>1, <1>2, ZkVerifierPlain DEF ATTACK_CLASS_DETECTORS

LEMMA Exploit2026Plain == \A d \in DOMAIN EXPLOIT_2026_DETECTORS : Plain(EXPLOIT_2026_DETECTORS[d])
<1>1. Plain(HookCallbackAuth) /\ Plain(CrossChainTrust)
      /\ Plain(UnprotectedInitializer) /\ Plain(SelfCallAuthBypass)
      /\ Plain(EncodePackedCollision) /\ Plain(HookPairBurnSync)
      /\ Plain(DepositCallbackCEI) /\ Plain(ReceiverHookCredit)
      /\ Plain(FeeOnTransferSwapBounds)
  BY DEF HookCallbackAuth, CrossChainTrust, UnprotectedInitializer,
         SelfCallAuthBypass, EncodePackedCollision, HookPairBurnSync,
         DepositCallbackCEI, ReceiverHookCredit, FeeOnTransferSwapBounds
<1>2. Plain(AsymmetricSafeMath) /\ Plain(MemoryStructPersistence)
      /\ Plain(SignerAllowlist)
  BY DEF AsymmetricSafeMath, MemoryStructPersistence, SignerAllowlist
<1>3. QED
  BY <1>1, <1>2 DEF EXPLOIT_2026_DETECTORS

LEMMA GapPlain == \A d \in DOMAIN GAP_DETECTORS : Plain(GAP_DETECTORS[d])
<1>1. Plain(Delegatecall) /\ Plain(PrivacyPool) /\ Plain(UnsafeDowncast)
      /\ Plain(DivideBeforeMultiply) /\ Plain(WeakRandomness)
      /\ Plain(UninitializedImplementation) /\ Plain(ConstructorStateInProxyImpl)
      /\ Plain(SwapSlippageDeadline) /\ Plain(MaxApproveMutableSpender)
  BY DEF Delegatecall, PrivacyPool, UnsafeDowncast, DivideBeforeMultiply,
         WeakRandomness, UninitializedImplementation, ConstructorStateInProxyImpl,
         SwapSlippageDeadline, MaxApproveMutableSpender
<1>2. Plain(Erc404LedgerDesync) /\ Plain(PaymasterUserOpBinding)
      /\ Plain(UserOpChainIdReplay) /\ Plain(ValidateUserOpMissingPrefund)
      /\ Plain(EmergencyWithdrawStaleDebt) /\ Plain(BorrowCapNotEnforced)
      /\ Plain(BadDebtNoSocialization) /\ Plain(MissingStorageGap)
      /\ Plain(MessageReplayNoNonce)
  BY DEF Erc404LedgerDesync, PaymasterUserOpBinding, UserOpChainIdReplay,
         ValidateUserOpMissingPrefund, EmergencyWithdrawStaleDebt,
         BorrowCapNotEnforced, BadDebtNoSocialization, MissingStorageGap,
         MessageReplayNoNonce
<1>3. Plain(RetryDomainBinding) /\ Plain(SessionKeyUnscoped)
      /\ Plain(PermitMissingDeadline) /\ Plain(HealthFactorRounding)
      /\ Plain(ClmmRoundingAsymmetry) /\ Plain(PushPaymentDos)
      /\ Plain(InterestAccrualAsymmetry) /\ Plain(RewardPerTokenZeroSupply)
      /\ Plain(TwapZeroWindow)
  BY DEF RetryDomainBinding, SessionKeyUnscoped, PermitMissingDeadline,
         HealthFactorRounding, ClmmRoundingAsymmetry, PushPaymentDos,
         InterestAccrualAsymmetry, RewardPerTokenZeroSupply, TwapZeroWindow
<1>4. Plain(ClaimReplayNoMarker)
  BY DEF ClaimReplayNoMarker
<1>5. QED
  BY <1>1, <1>2, <1>3, <1>4, AnalyzerFindingsPlain DEF GAP_DETECTORS

LEMMA UltraExtraPlain == \A d \in DOMAIN ULTRA_EXTRA_DETECTORS : Plain(ULTRA_EXTRA_DETECTORS[d])
<1>1. Plain(EcrecoverZero) /\ Plain(Eip1271Spoof) /\ Plain(ArbitraryFromTransferFrom)
      /\ Plain(CrossChainReceiverSourceAuth) /\ Plain(VaultShareDonationInflation)
      /\ Plain(Erc2771MsgSenderSpoof) /\ Plain(ReinitializableProxyDelegatecall)
      /\ Plain(PayableMulticallMsgValueReuse) /\ Plain(SignedUnsignedCastMismatch)
  BY DEF EcrecoverZero, Eip1271Spoof, ArbitraryFromTransferFrom,
         CrossChainReceiverSourceAuth, VaultShareDonationInflation,
         Erc2771MsgSenderSpoof, ReinitializableProxyDelegatecall,
         PayableMulticallMsgValueReuse, SignedUnsignedCastMismatch
<1>2. Plain(BatchArrayLengthMismatch) /\ Plain(LiquidationCollateralNotCleared)
  BY DEF BatchArrayLengthMismatch, LiquidationCollateralNotCleared
<1>3. QED
  BY <1>1, <1>2 DEF ULTRA_EXTRA_DETECTORS

LEMMA V2ExtraPlain == \A d \in DOMAIN ULTRA_DEEP_V2_EXTRA_DETECTORS : Plain(ULTRA_DEEP_V2_EXTRA_DETECTORS[d])
<1>1. Plain(CorpusPattern) /\ Plain(AmmPairReserveDesync)
      /\ Plain(SettlementBoundaryMismatch) /\ Plain(BridgeRetryDomainBinding)
      /\ Plain(DecimalUnitMismatch) /\ Plain(ZeroValueTransferFromBypass)
      /\ Plain(ComponentShareAccounting) /\ Plain(SingleVerifierBridgeConfig)
      /\ Plain(AllowanceDrainRouter)
  BY DEF CorpusPattern, CorpusCalls, CorpusChecks, Corpus, AmmPairReserveDesync,
         SettlementBoundaryMismatch, BridgeRetryDomainBinding, DecimalUnitMismatch,
         ZeroValueTransferFromBypass, ComponentShareAccounting,
         SingleVerifierBridgeConfig, AllowanceDrainRouter
<1>2. Plain(ZeroTransferRewardCheckpoint) /\ Plain(Erc4626DualAssetRedeemDoubleCount)
      /\ Plain(Erc777HookBalanceBypass) /\ Plain(ReadOnlyReserveReentrancy)
      /\ Plain(BridgeKeeperMutation) /\ Plain(BridgeZeroRootAcceptance)
      /\ Plain(VerifierAddressSpoof) /\ Plain(VyperNonreentrantCompiler)
      /\ Plain(ThinLiquiditySpotOracle)
  BY DEF ZeroTransferRewardCheckpoint, Erc4626DualAssetRedeemDoubleCount,
         Erc777HookBalanceBypass, ReadOnlyReserveReentrancy, BridgeKeeperMutation,
         BridgeZeroRootAcceptance, VerifierAddressSpoof, VyperNonreentrantCompiler,
         ThinLiquiditySpotOracle
<1>3. Plain(LendingExchangeRateDonation) /\ Plain(ClmmTickBoundaryRounding)
      /\ Plain(InvariantPrecisionLoss) /\ Plain(UnsafeMintMath)
      /\ Plain(FlashCycleRoundingWithdraw) /\ Plain(MultisigDelegatecallPayload)
      /\ Plain(CustodySweepCentralization) /\ Plain(RedemptionAfterSupplyBurn)
      /\ Plain(WhitelistClaimReplay)
  BY DEF LendingExchangeRateDonation, ClmmTickBoundaryRounding,
         InvariantPrecisionLoss, UnsafeMintMath, FlashCycleRoundingWithdraw,
         MultisigDelegatecallPayload, CustodySweepCentralization,
         RedemptionAfterSupplyBurn, WhitelistClaimReplay
<1>4. Plain(BalanceSnapshotRewardInflation) /\ Plain(PermissionlessBatchExecutor)
      /\ Plain(RfqSignerInventoryMismatch) /\ Plain(SpotPricedLeverageLiquidationCap)
      /\ Plain(EconomicOracleLending)
  BY DEF BalanceSnapshotRewardInflation, PermissionlessBatchExecutor,
         RfqSignerInventoryMismatch, SpotPricedLeverageLiquidationCap,
         EconomicOracleLending, CompoundPriceOracle, LendingFlow, Erc4626LendingOracle
<1>5. QED
  BY <1>1, <1>2, <1>3, <1>4, BytecodePeripheryPlain DEF ULTRA_DEEP_V2_EXTRA_DETECTORS

LEMMA WeirdHuntPlain == \A d \in DOMAIN WEIRD_HUNT_DETECTORS : Plain(WEIRD_HUNT_DETECTORS[d])
<1>1. Plain(ActualReceivedAccounting) /\ Plain(MerkleClaimBinding)
      /\ Plain(BitmapClaimCollision) /\ Plain(BridgeReplayKey)
      /\ Plain(AddressAliasBridge) /\ Plain(OracleFreshnessSequencer)
      /\ Plain(TwapObservationCardinality) /\ Plain(ForcedEthAccounting)
      /\ Plain(Create2MetamorphicTrust)
  BY DEF ActualReceivedAccounting, MerkleClaimBinding, BitmapClaimCollision,
         BridgeReplayKey, AddressAliasBridge, OracleFreshnessSequencer,
         TwapObservationCardinality, ForcedEthAccounting, Create2MetamorphicTrust,
         Weird
<1>2. Plain(TryCatchFinalization) /\ Plain(RewardDebtOrder)
      /\ Plain(AccumulatorZeroSupply) /\ Plain(PositionMergeSplit)
      /\ Plain(GovernanceSnapshotBypass) /\ Plain(PausabilityBypass)
      /\ Plain(MulticallStateCache) /\ Plain(WadRayUnitMismatch)
      /\ Plain(DuplicateBatchItem)
  BY DEF TryCatchFinalization, RewardDebtOrder, AccumulatorZeroSupply,
         PositionMergeSplit, GovernanceSnapshotBypass, PausabilityBypass,
         MulticallStateCache, WadRayUnitMismatch, DuplicateBatchItem, Weird
<1>3. Plain(WeirdHuntTaintValueFlow)
  BY DEF WeirdHuntTaintValueFlow, Weird
<1>4. QED
  BY <1>1, <1>2, <1>3 DEF WEIRD_HUNT_DETECTORS

\* Whatever the profile, known to the registry or not.
LEMMA RulesPlain == \A name : \A d \in DOMAIN GetDetectors(name) : Plain(GetDetectors(name)[d])
<1> USE DEF Together
<1>1. \A d \in DOMAIN FULL_DETECTORS : Plain(FULL_DETECTORS[d])
  BY MvpPlain, AttackClassPlain, Exploit2026Plain, GapPlain DEF FULL_DETECTORS
<1>2. \A d \in DOMAIN ULTRA_DETECTORS : Plain(ULTRA_DETECTORS[d])
  BY <1>1, UltraExtraPlain DEF ULTRA_DETECTORS
<1>3. \A d \in DOMAIN V2_DETECTORS : Plain(V2_DETECTORS[d])
  BY <1>2, V2ExtraPlain, WeirdHuntPlain DEF V2_DETECTORS
<1>4. QED
  BY <1>1, <1>2, <1>3 DEF GetDetectors

----------------------------------------------------------------------------
(* The steps.                                                              *)

\* A set of scores has a strongest one.
LEMMA MaxOf ==
    ASSUME NEW S \in SUBSET Scores, S # {}
    PROVE  Max(S) \in S /\ \A x \in S : Max(S) >= x
<1> DEFINE Less  == OpToRel(<, Nat)
           Below == {20 - x : x \in S}
<1>1. Below \subseteq Nat /\ Below # {}
  <2>1. \A x \in S : 20 - x \in Nat
    BY DEF Scores
  <2>2. QED
    BY <2>1
<1>2. PICK m \in Below : \A y \in Below : <<y, m>> \notin Less
  BY <1>1, NatLessThanWellFounded, WFMin
<1>3. PICK x \in S : m = 20 - x
  OBVIOUS
<1>4. ASSUME NEW y \in S PROVE x >= y
  <2>1. 20 - y \in Nat /\ m \in Nat /\ <<20 - y, m>> \notin Less
    BY <1>1, <1>2
  <2>2. QED
    BY <2>1, <1>3 DEF Scores, OpToRel
<1>5. QED
  BY <1>4 DEF Max

\* Of some candidates one is in the first function.
LEMMA FirstCopy ==
    ASSUME DetectionAssumption, CandidatesInv, NEW C \in SUBSET cands, C # {}
    PROVE  \E c \in C : \A d \in C : c.unit <= d.unit
<1> DEFINE Less  == OpToRel(<, Nat)
           Where == {c.unit : c \in C}
<1>1. Where \subseteq Nat /\ Where # {}
  BY DEF DetectionAssumption, CandidatesInv, IsCandidate
<1>2. PICK m \in Where : \A y \in Where : <<y, m>> \notin Less
  BY <1>1, NatLessThanWellFounded, WFMin
<1>3. PICK c \in C : m = c.unit
  OBVIOUS
<1>4. ASSUME NEW d \in C PROVE c.unit <= d.unit
  <2>1. d.unit \in Nat /\ m \in Nat /\ <<d.unit, m>> \notin Less
    BY <1>1, <1>2
  <2>2. QED
    BY <2>1, <1>3 DEF OpToRel
<1>5. QED
  BY <1>4

\* What collapsing leaves of some copies is a candidate, one of them in name
\* and evidence and no weaker than any.
LEMMA RepresentativeOf ==
    ASSUME DetectionAssumption, CandidatesInv, NEW C \in SUBSET cands, C # {}
    PROVE  /\ IsCandidate(Representative(C))
           /\ \E first \in C : /\ Representative(C).by = first.by
                               /\ Representative(C).ev = first.ev
           /\ \A c \in C : /\ Representative(C).impact >= c.impact
                           /\ Representative(C).conf >= c.conf
<1> DEFINE first  == CHOOSE c \in C : \A d \in C : c.unit <= d.unit
           impact == Max({c.impact : c \in C})
           conf   == Max({c.conf : c \in C})
<1>1. first \in C
  BY FirstCopy
<1>2. IsCandidate(first)
  BY <1>1 DEF CandidatesInv
<1>3. impact \in Scores /\ \A c \in C : impact >= c.impact
  <2> DEFINE S == {c.impact : c \in C}
  <2>1. S \in SUBSET Scores /\ S # {} /\ \A c \in C : c.impact \in S
    BY DEF CandidatesInv, IsCandidate
  <2> HIDE DEF S
  <2>2. Max(S) \in S /\ \A x \in S : Max(S) >= x
    BY <2>1, MaxOf
  <2>3. QED
    BY <2>1, <2>2 DEF S
<1>4. conf \in Scores /\ \A c \in C : conf >= c.conf
  <2> DEFINE S == {c.conf : c \in C}
  <2>1. S \in SUBSET Scores /\ S # {} /\ \A c \in C : c.conf \in S
    BY DEF CandidatesInv, IsCandidate
  <2> HIDE DEF S
  <2>2. Max(S) \in S /\ \A x \in S : Max(S) >= x
    BY <2>1, MaxOf
  <2>3. QED
    BY <2>1, <2>2 DEF S
<1>5. Representative(C) = [first EXCEPT !.impact = impact, !.conf = conf]
  BY DEF Representative
<1> HIDE DEF first, impact, conf
<1>6. Representative(C) =
        [by |-> first.by, detector |-> first.detector, rule |-> first.rule, unit |-> first.unit,
         impact |-> impact, conf |-> conf, value |-> first.value, ev |-> first.ev]
  BY <1>2, <1>5 DEF IsCandidate
<1>7. QED
  BY <1>1, <1>2, <1>3, <1>4, <1>6 DEF IsCandidate

\* What a plain rule of a detector flags in a function of the target.
LEMMA CandidateOf ==
    ASSUME NEW d, NEW r, Plain({r}), NEW i \in DOMAIN units
    PROVE  /\ IsCandidate(Candidate(d, r, i))
           /\ "corroborated" \notin Candidate(d, r, i).ev
BY DEF Candidate, IsCandidate, Scores, STRUCTURAL_DETECTORS, POC_DETECTORS

\* More evidence, and nothing else, leaves it a candidate.
LEMMA WithMore ==
    ASSUME NEW c, IsCandidate(c), NEW more, NEW k, k = [c EXCEPT !.ev = @ \cup more]
    PROVE  /\ IsCandidate(k) /\ k.ev = c.ev \cup more
           /\ k.by = c.by /\ k.impact = c.impact /\ k.conf = c.conf
<1>1. k = [by |-> c.by, detector |-> c.detector, rule |-> c.rule, unit |-> c.unit,
           impact |-> c.impact, conf |-> c.conf, value |-> c.value, ev |-> c.ev \cup more]
  BY DEF IsCandidate
<1>2. QED
  BY <1>1 DEF IsCandidate

LEMMA RunOf ==
    ASSUME NEW d \in DOMAIN Detectors, NEW c \in Run(d)
    PROVE  IsCandidate(c) /\ "corroborated" \notin c.ev
<1>1. PICK r \in Detectors[d], i \in DOMAIN units : c = Candidate(d, r, i)
  BY DEF Run
<1>2. Plain({r})
  BY <1>1, RulesPlain DEF Detectors
<1>3. QED
  BY <1>1, <1>2, CandidateOf

LEMMA SameFlags ==
    ASSUME UNCHANGED <<units, profile, analyzers, failed>>
    PROVE  Flags' = Flags
BY DEF Flags, Run, Running, Detectors, Features

\* A step keeps the flags if every candidate has one after it that is as strong.
LEMMA FlagsKept ==
    ASSUME DetectionInv, at # "detect", UNCHANGED <<units, profile, analyzers, failed>>,
           \A c \in cands : IsCandidate(c), \A c \in cands' : IsCandidate(c),
           \A c \in cands : \E k \in cands' :
               k.by = c.by /\ k.impact >= c.impact /\ k.conf >= c.conf
    PROVE  FlagsInv'
<1>1. SUFFICES ASSUME NEW f \in Flags PROVE Kept(f)'
  BY SameFlags DEF FlagsInv
<1>2. PICK c \in cands : c.by = f.by /\ c.impact >= f.impact /\ c.conf >= f.conf
  BY <1>1 DEF DetectionInv, FlagsInv, Kept
<1>3. PICK k \in cands' : k.by = c.by /\ k.impact >= c.impact /\ k.conf >= c.conf
  BY <1>2
<1>4. f.impact \in Scores /\ f.conf \in Scores
  <2>1. PICK d \in Running : f \in Run(d)
    BY <1>1 DEF Flags
  <2>2. QED
    BY <2>1, RunOf DEF Running, IsCandidate
<1>5. QED
  BY <1>2, <1>3, <1>4 DEF Kept, IsCandidate, Scores

\* A step that looks at each candidate by itself and only adds to it.
LEMMA EachByItself ==
    ASSUME DetectionInv, at # "detect", UNCHANGED <<units, profile, analyzers, failed>>,
           \A k \in cands' : IsCandidate(k),
           \A c \in cands : \E k \in cands' :
               k.by = c.by /\ k.impact = c.impact /\ k.conf = c.conf
    PROVE  CandidatesInv' /\ FlagsInv'
<1>1. CandidatesInv'
  BY DEF DetectionInv, CandidatesInv, IsCandidate
<1>2. \A c \in cands : IsCandidate(c) /\ c.impact >= c.impact /\ c.conf >= c.conf
  BY DEF DetectionInv, CandidatesInv, IsCandidate, Scores
<1>3. \A c \in cands : \E k \in cands' :
        k.by = c.by /\ k.impact >= c.impact /\ k.conf >= c.conf
  BY <1>2
<1>4. FlagsInv'
  BY <1>2, <1>3, FlagsKept
<1>5. QED
  BY <1>1, <1>4

LEMMA InitInv == DetectionAssumption /\ Init => DetectionInv
BY DEF Init, DetectionInv, CandidatesInv, FlagsInv, MarksInv

LEMMA DetectorsStep == ASSUME DetectionInv, RunDetectors PROVE DetectionInv'
<1>1. PICK F \in SUBSET Running :
        failed' = F /\ cands' = UNION {Run(d) : d \in Running \ F}
  BY DEF RunDetectors
<1>2. \A c \in cands' : IsCandidate(c) /\ "corroborated" \notin c.ev
  BY <1>1, RunOf DEF Running
<1>3. Flags' = cands'
  <2>1. Running' = Running /\ \A d : Run(d)' = Run(d)
    BY DEF RunDetectors, Run, Running, Detectors, Features
  <2>2. QED
    BY <1>1, <2>1 DEF Flags
<1>4. CandidatesInv' /\ MarksInv'
  BY <1>2 DEF RunDetectors, DetectionInv, CandidatesInv, MarksInv, IsCandidate
<1>5. FlagsInv'
  <2>1. \A f \in cands' : f.impact >= f.impact /\ f.conf >= f.conf
    BY <1>2 DEF IsCandidate, Scores
  <2>2. QED
    BY <1>3, <2>1 DEF FlagsInv, Kept
<1>6. QED
  BY <1>4, <1>5 DEF DetectionInv

LEMMA ReasonerStep ==
    ASSUME DetectionAssumption, DetectionInv, RunReasoner PROVE DetectionInv'
<1>1. /\ cands \subseteq cands'
      /\ \A c \in cands' \ cands : IsCandidate(c) /\ "corroborated" \notin c.ev
  <2>1. CASE UNCHANGED cands
    BY <2>1
  <2>2. CASE \E i \in DOMAIN units, h \in Hypotheses, lead \in BOOLEAN : cands' = cands \cup
               { [Candidate("invariant_reasoner", Rule({}, {}, h.impact, h.conf, {"reasoner"}), i)
                    EXCEPT !.ev = @ \cup IF lead THEN {"lead_only"} ELSE {}] }
    <3>1. PICK i \in DOMAIN units, h \in Hypotheses, lead \in BOOLEAN : cands' = cands \cup
               { [Candidate("invariant_reasoner", Rule({}, {}, h.impact, h.conf, {"reasoner"}), i)
                    EXCEPT !.ev = @ \cup IF lead THEN {"lead_only"} ELSE {}] }
      BY <2>2
    <3> DEFINE r == Rule({}, {}, h.impact, h.conf, {"reasoner"})
               k == Candidate("invariant_reasoner", r, i)
               more == IF lead THEN {"lead_only"} ELSE {}
               new == [k EXCEPT !.ev = @ \cup more]
    <3>2. cands' = cands \cup {new} /\ "corroborated" \notin more
      BY <3>1
    <3>3. Plain({r})
      BY DEF DetectionAssumption
    <3> HIDE DEF r
    <3>4. IsCandidate(k) /\ "corroborated" \notin k.ev
      BY <3>3, CandidateOf
    <3> HIDE DEF k, more
    <3>5. IsCandidate(new) /\ new.ev = k.ev \cup more
      BY <3>4, WithMore
    <3>6. "corroborated" \notin new.ev
      BY <3>2, <3>4, <3>5
    <3>7. QED
      BY <3>2, <3>5, <3>6
  <2>3. QED
    BY <2>1, <2>2 DEF RunReasoner
<1>2. \A c \in cands' : IsCandidate(c) /\ "corroborated" \notin c.ev
  BY <1>1 DEF RunReasoner, DetectionInv, CandidatesInv, MarksInv
<1>3. CandidatesInv' /\ MarksInv'
  BY <1>2 DEF RunReasoner, DetectionInv, CandidatesInv, MarksInv, IsCandidate
<1>4. \A c \in cands : \E k \in cands' :
        k.by = c.by /\ k.impact >= c.impact /\ k.conf >= c.conf
  BY <1>1, <1>2 DEF IsCandidate, Scores
<1>5. FlagsInv'
  BY <1>1, <1>2, <1>4, FlagsKept DEF RunReasoner
<1>6. QED
  BY <1>3, <1>5 DEF DetectionInv

LEMMA ContextStep == ASSUME DetectionInv, AttachContext PROVE DetectionInv'
<1> DEFINE After(c) == [c EXCEPT !.value = IF "own_value_context" \in c.ev THEN "unknown" ELSE value]
<1>1. \A c \in cands : /\ IsCandidate(After(c)) /\ After(c).by = c.by /\ After(c).ev = c.ev
                       /\ After(c).impact = c.impact /\ After(c).conf = c.conf
  BY DEF DetectionInv, CandidatesInv, IsCandidate
<1>2. cands' = {After(c) : c \in cands}
  BY DEF AttachContext
<1> HIDE DEF After
<1>3. CandidatesInv' /\ FlagsInv'
  BY <1>1, <1>2, EachByItself DEF AttachContext
<1>4. MarksInv'
  BY <1>1, <1>2 DEF AttachContext, DetectionInv, MarksInv
<1>5. QED
  BY <1>3, <1>4 DEF DetectionInv

LEMMA SanityStep == ASSUME DetectionInv, ApplyCandidateSanity PROVE DetectionInv'
<1> DEFINE Said(c)  == IF IsSuppressed(c) THEN {"suppressed", "refuted"} ELSE {}
           After(c) == [c EXCEPT !.ev = @ \cup Said(c)]
<1>0. \A c : "corroborated" \notin Said(c)
  OBVIOUS
<1>1. \A c \in cands : /\ IsCandidate(After(c)) /\ After(c).by = c.by
                       /\ "corroborated" \in After(c).ev => "corroborated" \in c.ev
                       /\ After(c).impact = c.impact /\ After(c).conf = c.conf
  <2> HIDE DEF Said
  <2> QED
    BY <1>0 DEF DetectionInv, CandidatesInv, IsCandidate
<1>2. cands' = {After(c) : c \in cands}
  BY DEF ApplyCandidateSanity
<1> HIDE DEF After
<1>3. CandidatesInv' /\ FlagsInv'
  BY <1>1, <1>2, EachByItself DEF ApplyCandidateSanity
<1>4. MarksInv'
  BY <1>1, <1>2 DEF ApplyCandidateSanity, DetectionInv, MarksInv
<1>5. QED
  BY <1>3, <1>4 DEF DetectionInv

LEMMA MarkStep == ASSUME DetectionInv, MarkCorroboration PROVE DetectionInv'
<1> DEFINE Said(c)  == IF c \in Live /\ IsCorroborated(c) THEN {"corroborated"} ELSE {}
           After(c) == [c EXCEPT !.ev = @ \cup Said(c)]
<1>0. \A c : "corroborated" \in Said(c) => IsCorroborated(c)
  OBVIOUS
<1>1. \A c \in cands : /\ IsCandidate(After(c)) /\ After(c).by = c.by
                       /\ "corroborated" \in After(c).ev => "corroborated" \in c.ev \/ IsCorroborated(c)
                       /\ After(c).impact = c.impact /\ After(c).conf = c.conf
  <2> HIDE DEF Said
  <2> QED
    BY <1>0 DEF DetectionInv, CandidatesInv, IsCandidate
<1>2. cands' = {After(c) : c \in cands}
  BY DEF MarkCorroboration
<1> HIDE DEF After
<1>3. CandidatesInv' /\ FlagsInv'
  BY <1>1, <1>2, EachByItself DEF MarkCorroboration
<1>4. \A c \in cands : "corroborated" \in After(c).ev => \E other \in cands : other.by # c.by
  BY <1>1 DEF MarkCorroboration, DetectionInv, MarksInv, IsCorroborated, Live
<1>5. MarksInv'
  <2>1. ASSUME NEW k \in cands', "corroborated" \in k.ev
        PROVE  \E other \in cands' : other.by # k.by
    <3>1. PICK c \in cands : k = After(c)
      BY <1>2
    <3>2. PICK other \in cands : other.by # c.by
      BY <1>4, <2>1, <3>1
    <3>3. After(other) \in cands' /\ After(other).by # k.by
      BY <1>1, <1>2, <3>1, <3>2
    <3>4. QED
      BY <3>3
  <2>2. QED
    BY <2>1 DEF MarksInv, MarkCorroboration
<1>6. QED
  BY <1>3, <1>5 DEF DetectionInv

LEMMA CollapseStep ==
    ASSUME DetectionAssumption, DetectionInv, CollapseDuplicates PROVE DetectionInv'
<1> DEFINE Copies(c) == {d \in cands : ContentKey(d) = ContentKey(c)}
<1>1. \A c \in cands : Copies(c) \in SUBSET cands /\ c \in Copies(c)
                       /\ \A d \in Copies(c) : d.by = c.by
  BY DEF ContentKey
<1>2. cands' = {Representative(Copies(c)) : c \in cands}
  BY DEF CollapseDuplicates
<1> HIDE DEF Copies
<1>3. ASSUME NEW c \in cands
      PROVE  /\ IsCandidate(Representative(Copies(c)))
             /\ Representative(Copies(c)).by = c.by
             /\ Representative(Copies(c)).impact >= c.impact
             /\ Representative(Copies(c)).conf >= c.conf
             /\ \E first \in cands : /\ first.by = c.by
                                     /\ Representative(Copies(c)).ev = first.ev
  BY <1>1, RepresentativeOf DEF DetectionInv
<1>4. \A k \in cands' : IsCandidate(k)
  BY <1>2, <1>3
<1>5. CandidatesInv'
  BY <1>4 DEF CollapseDuplicates, DetectionInv, CandidatesInv, IsCandidate
<1>6. \A c \in cands : \E k \in cands' :
        k.by = c.by /\ k.impact >= c.impact /\ k.conf >= c.conf
  BY <1>2, <1>3
<1>7. FlagsInv'
  BY <1>4, <1>6, FlagsKept DEF CollapseDuplicates, DetectionInv, CandidatesInv
<1>8. MarksInv'
  <2>1. ASSUME NEW k \in cands', "corroborated" \in k.ev
        PROVE  \E other \in cands' : other.by # k.by
    <3>1. PICK c \in cands : k = Representative(Copies(c))
      BY <1>2
    <3>2. PICK first \in cands : first.by = k.by /\ "corroborated" \in first.ev
      BY <1>3, <2>1, <3>1
    <3>3. PICK other \in cands : other.by # first.by
      BY <3>2 DEF DetectionInv, MarksInv
    <3>4. PICK o \in cands' : o.by = other.by
      BY <1>6
    <3>5. QED
      BY <3>2, <3>3, <3>4
  <2>2. QED
    BY <2>1 DEF MarksInv, CollapseDuplicates
<1>9. QED
  BY <1>5, <1>7, <1>8 DEF DetectionInv

\* The invariant is inductive, one step for each stage of process_target.
LEMMA StepInv == DetectionAssumption /\ DetectionInv /\ [Next]_vars => DetectionInv'
<1> SUFFICES ASSUME DetectionAssumption, DetectionInv, [Next]_vars PROVE DetectionInv'
  OBVIOUS
<1>1. CASE RunDetectors
  BY <1>1, DetectorsStep
<1>2. CASE RunReasoner
  BY <1>2, ReasonerStep
<1>3. CASE AttachContext
  BY <1>3, ContextStep
<1>4. CASE ApplyCandidateSanity
  BY <1>4, SanityStep
<1>5. CASE MarkCorroboration
  BY <1>5, MarkStep
<1>6. CASE CollapseDuplicates
  BY <1>6, CollapseStep
<1>7. CASE UNCHANGED vars
  <2>1. Flags' = Flags
    BY <1>7, SameFlags DEF vars
  <2>2. QED
    BY <1>7, <2>1 DEF vars, DetectionInv, CandidatesInv, FlagsInv, MarksInv, IsCandidate, Kept
<1>8. QED
  BY <1>1, <1>2, <1>3, <1>4, <1>5, <1>6, <1>7 DEF Next

----------------------------------------------------------------------------
\* The candidates are well formed, every flag is kept and every mark is earned.
THEOREM DetectionInvariance == Spec => []DetectionInv
<1>1. DetectionAssumption
  BY DetectionAssumption
<1>2. Init => DetectionInv
  BY <1>1, InitInv
<1>3. DetectionInv /\ [Next]_vars => DetectionInv'
  BY <1>1, StepInv
<1>4. QED
  BY <1>2, <1>3, PTL DEF Spec

\* Whatever raises, is suppressed or is collapsed (scanner.py:743, dedup.py:88).
THEOREM FlagsCorrect == Spec => []EveryFlagSurvives
<1>1. DetectionInv => EveryFlagSurvives
  BY DEF DetectionInv, FlagsInv, EveryFlagSurvives
<1>2. QED
  BY <1>1, DetectionInvariance, PTL

\* Agreement needs another detector (scoring.py:381).
THEOREM CorroborationCorrect == Spec => []CorroborationIsIndependent
<1>1. DetectionInv => CorroborationIsIndependent
  BY DEF DetectionInv, MarksInv, CorroborationIsIndependent
<1>2. QED
  BY <1>1, DetectionInvariance, PTL
=============================================================================
