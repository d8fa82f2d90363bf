-------------------------- MODULE EvaluationProofs --------------------------
(***************************************************************************)
(* Proofs about SnapshotEvaluation for every input, pricing, bound and     *)
(* length of a chain.  The normaliser, the validator, the repository and   *)
(* the pipeline each decide which prior leg a new leg may be compared      *)
(* with; the lemmas say that the first decision satisfies the others.      *)
(***************************************************************************)
EXTENDS SnapshotEvaluation, FiniteSetTheorems, WellFoundedInduction, TLAPS

\* A snapshot is what was built from the input, and its legs had numbers for open interest.
SnapshotIsBuilt ==
    /\ input \in Inputs
    /\ snapshot # None => snapshot = Built /\ Normalisable(input.legs, input.contract)

-----------------------------------------------------------------------------
(* A leg and its prior *)

\* The leg the normaliser took is the one the validator finds, and the only one.
LEMMA OneLegLike ==
    ASSUME NEW prior, NEW q, NEW p,
           PriorAccepted(prior),
           p \in {prior.chain[i] : i \in Indices(prior.chain)},
           Key(p) = Key(q), p.sid = q.sid, p.expiry = q.expiry
    PROVE  \E i \in Indices(prior.chain) : LegsLike(q, prior) = {i} /\ prior.chain[i] = p
<1>1. PICK i \in Indices(prior.chain) : prior.chain[i] = p
    OBVIOUS
<1>2. i \in LegsLike(q, prior)
    BY <1>1 DEF LegsLike
<1>3. ASSUME NEW j \in LegsLike(q, prior)
      PROVE  j = i
    <2>1. j \in Indices(prior.chain) /\ Key(prior.chain[j]) = Key(prior.chain[i])
        BY <1>1 DEF LegsLike
    <2> QED
        BY <2>1 DEF PriorAccepted, Unique
<1> QED
    BY <1>1, <1>2, <1>3

\* Both rules accept the change of a leg that has a prior leg; a leg without one has none.
LEMMA DerivedLegAccepted ==
    ASSUME NEW s, NEW leg, NEW prior,
           prior = None \/ PriorAccepted(prior),
           s.id = "new",
           leg.oi \in Int \cup {None},
           NEW q, q = NormalizedLeg(leg, s.contract, s.seq, s.at, prior)
    PROVE  LET known == IF prior = None THEN {} ELSE {prior}
           IN  ChangeValid(s, q, known) /\ ChangeStorable(s, q, known)
<1> DEFINE priors == PriorLegs(leg, s.contract, s.seq, s.at, prior)
<1> DEFINE known == IF prior = None THEN {} ELSE {prior}
<1>1. CASE priors = {}
    <2>1. q.change = None /\ q.ref = None /\ q.gap = None
        BY <1>1 DEF NormalizedLeg
    <2> QED
        BY <2>1 DEF ChangeValid, ChangeStorable
<1>2. CASE priors # {}
    <2> DEFINE p == CHOOSE p \in priors : TRUE
    <2>1. p \in priors
        BY <1>2
    <2>2. prior # None /\ PriorAccepted(prior)
        BY <2>1 DEF PriorLegs
    <2>3. /\ p \in {prior.chain[i] : i \in Indices(prior.chain)}
          /\ prior.contract = s.contract /\ prior.seq < s.seq
          /\ IntervalUsable(s.at, prior.at)
          /\ Key(p) = Key(leg) /\ p.sid = leg.sid /\ p.expiry = s.contract.expiry
          /\ p.oi # None /\ leg.oi # None
        BY <2>1, <2>2 DEF PriorLegs
    <2>4. /\ q.sid = leg.sid /\ q.strike = leg.strike /\ q.side = leg.side
          /\ q.expiry = s.contract.expiry /\ q.at = s.at /\ q.oi = leg.oi
          /\ q.change = leg.oi - p.oi /\ q.ref = prior.id /\ q.gap = s.at - prior.at
        BY <1>2 DEF NormalizedLeg
    <2>5. p.at = prior.at /\ p.oi \in Nat /\ prior.id # "new"
        BY <2>2, <2>3 DEF PriorAccepted
    <2>6. q.change \in Int /\ q.change # None
        BY <2>3, <2>4, <2>5, RulesAssumption
    <2>7. known = {prior} /\ ReferenceOf(q.ref, known) = prior
        BY <2>2, <2>4 DEF ReferenceOf
    <2>8. s.at \in Int /\ prior.at \in Int /\ q.gap \in 1 .. MaxAge
        BY <2>3, <2>4 DEF IntervalUsable, Aware
    <2>9. q.gap \in 1 .. MaxInterval
        BY <2>8, RulesAssumption
    <2>10. Key(q) = Key(leg)
        BY <2>4 DEF Key
    <2> HIDE DEF p
    <2>11. PICK i \in Indices(prior.chain) :
               LegsLike(q, prior) = {i} /\ prior.chain[i] = p
        <3>1. Key(p) = Key(q) /\ p.sid = q.sid /\ p.expiry = q.expiry
            BY <2>3, <2>4, <2>10
        <3>2. PriorAccepted(prior) /\ p \in {prior.chain[j] : j \in Indices(prior.chain)}
            BY <2>2, <2>3
        <3> QED
            BY <3>1, <3>2, OneLegLike
    <2>12. Cardinality(LegsLike(q, prior)) = 1
        BY <2>11, FS_Singleton
    <2>13. (CHOOSE j \in LegsLike(q, prior) : TRUE) = i
        BY <2>11
    <2>14. ChangeValid(s, q, known)
        <3>1. q.ref # s.id
            BY <2>4, <2>5
        <3>2. LET r == ReferenceOf(q.ref, known)
              IN  /\ r # None /\ r.contract = s.contract /\ r.seq < s.seq
                  /\ Cardinality(LegsLike(q, r)) = 1
            BY <2>2, <2>3, <2>7, <2>12
        <3>3. LET r == ReferenceOf(q.ref, known)
                  o == r.chain[CHOOSE j \in LegsLike(q, r) : TRUE]
              IN  /\ s.at = q.at /\ r.at = o.at /\ q.gap = q.at - o.at
                  /\ o.oi # None /\ q.oi # None /\ q.change = q.oi - o.oi
            BY <2>3, <2>4, <2>5, <2>7, <2>11, <2>13
        <3> QED
            BY <2>6, <2>8, <3>1, <3>2, <3>3 DEF ChangeValid
    <2>15. ChangeStorable(s, q, known)
        <3>1. /\ prior # None /\ prior.contract = s.contract /\ prior.seq < s.seq
              /\ \E j \in LegsLike(q, prior) :
                    /\ q.at = s.at /\ prior.chain[j].at = prior.at
                    /\ q.gap = q.at - prior.chain[j].at
                    /\ q.change = q.oi - prior.chain[j].oi
            <4>1. i \in LegsLike(q, prior) /\ prior.chain[i] = p
                BY <2>11
            <4>2. /\ q.at = s.at /\ prior.chain[i].at = prior.at
                  /\ q.gap = q.at - prior.chain[i].at
                  /\ q.change = q.oi - prior.chain[i].oi
                BY <4>1, <2>4, <2>5
            <4> QED
                BY <4>1, <4>2, <2>2, <2>3
        <3> QED
            BY <2>6, <2>7, <2>9, <3>1 DEF ChangeStorable
    <2> QED
        BY <2>14, <2>15
<1> QED
    BY <1>1, <1>2

-----------------------------------------------------------------------------
(* The machine *)

LEMMA BuiltInductive == Spec => []SnapshotIsBuilt
<1>1. Init => SnapshotIsBuilt
    BY DEF Init, SnapshotIsBuilt
<1>2. SnapshotIsBuilt /\ [Next]_vars => SnapshotIsBuilt'
    <2> SUFFICES ASSUME SnapshotIsBuilt, [Next]_vars
                 PROVE  SnapshotIsBuilt'
        OBVIOUS
    <2> USE DEF SnapshotIsBuilt
    <2>1. CASE Build
        BY <2>1 DEF Build, Built, Normalisable
    <2>2. CASE UNCHANGED <<input, snapshot>>
        BY <2>2 DEF Built, Normalisable
    <2> QED
        BY <2>1, <2>2 DEF Next, NormaliserRaises, Ingest, SaveRaises, Analyse, AnalysisRaises,
                          PricingRaises,
                          Submit, Publish, vars
<1> QED
    BY <1>1, <1>2, PTL DEF Spec

\* A leg of the snapshot is a payload leg, normalised.
LEMMA LegOfPayload ==
    ASSUME snapshot = Built, Normalisable(input.legs, input.contract),
           NEW i \in Indices(snapshot.chain)
    PROVE  \E leg : /\ leg.oi \in Int \cup {None}
                    /\ snapshot.chain[i] = NormalizedLeg(leg, snapshot.contract, snapshot.seq,
                                                         snapshot.at, input.prior)
<1> DEFINE kept == Kept(input.legs, input.contract)
<1>1. Normalisable(input.legs, input.contract)
    OBVIOUS
<1>2. /\ snapshot.contract = input.contract /\ snapshot.at = input.at
      /\ snapshot.chain = NormalizedChain(input.legs, snapshot.contract, snapshot.seq,
                                         snapshot.at, input.prior)
    BY DEF Built
<1>3. /\ i \in Indices(kept)
      /\ snapshot.chain[i] = NormalizedLeg(kept[i], snapshot.contract, snapshot.seq,
                                           snapshot.at, input.prior)
    BY <1>2 DEF NormalizedChain, Indices
<1>4. kept[i].oi \in Int \cup {None}
    BY <1>1, <1>3 DEF Normalisable
<1> QED
    BY <1>3, <1>4

\* Every leg of what was built satisfies both rules.
LEMMA BuiltLegAccepted ==
    ASSUME input \in Inputs, snapshot = Built, Normalisable(input.legs, input.contract),
           NEW i \in Indices(snapshot.chain)
    PROVE  /\ ChangeValid(snapshot, snapshot.chain[i], Known)
           /\ ChangeStorable(snapshot, snapshot.chain[i], Known)
<1>1. PICK leg :
          /\ leg.oi \in Int \cup {None}
          /\ snapshot.chain[i] = NormalizedLeg(leg, snapshot.contract, snapshot.seq,
                                               snapshot.at, input.prior)
    BY LegOfPayload
<1>2. snapshot.id = "new" /\ (input.prior = None \/ PriorAccepted(input.prior))
    BY InputsAssumption DEF Built
<1> QED
    BY <1>1, <1>2, DerivedLegAccepted DEF Known

\* The three rules of what a change of open interest may refer to agree on every change the
\* normaliser derives, whatever the chains (normalization.py:369).
THEOREM DerivedChange == Spec => []DerivedChangeIsAccepted
<1>1. SnapshotIsBuilt => DerivedChangeIsAccepted
    BY BuiltLegAccepted DEF SnapshotIsBuilt, DerivedChangeIsAccepted
<1> QED
    BY <1>1, BuiltInductive, PTL

-----------------------------------------------------------------------------
(* What the verdict means for the rules that follow it *)

\* The verdict is the validator's, on what was built; a save that failed found the snapshot
\* out of order or not storable, and what was analysed is the pipeline's answer for an
\* accepted snapshot, or the one that ranks nothing and buys nothing.
VerdictHolds ==
    /\ stage = "built" => snapshot = Built /\ Normalisable(input.legs, input.contract)
    /\ stage \in {"received", "built"} => ~accepted
    /\ accepted => /\ snapshot = Built /\ Normalisable(input.legs, input.contract)
                   /\ Accepts(snapshot, Now, Known)
    /\ stage = "failed" /\ accepted => ~(InOrder(snapshot, Known) /\ Storable(snapshot, Known))
    /\ stage \in {"received", "built", "ingested", "failed"} => analysis = None
    /\ analysis # None =>
          \/ analysis.ranked = <<>> /\ analysis.state \notin Actions
          \/ /\ accepted
             /\ \E pricing \in Pricings :
                   analysis = Evaluated(snapshot, input.prior, pricing, Cost, Now)

\* The ranking is of all the candidates.
LEMMA RankedCandidates ==
    ASSUME NEW s, NEW prior, NEW pricing, NEW cost, NEW now
    PROVE  Evaluated(s, prior, pricing, cost, now).ranked = Candidates(s, prior, pricing)
    BY DEF Evaluated

\* Only the validator accepts, only an accepted snapshot is analysed.
LEMMA VerdictInductive == Spec => []VerdictHolds
<1>1. Init => VerdictHolds
    BY DEF Init, VerdictHolds
<1>2. VerdictHolds /\ [Next]_vars => VerdictHolds'
    <2> SUFFICES ASSUME VerdictHolds, [Next]_vars
                 PROVE  VerdictHolds'
        OBVIOUS
    <2> DEFINE accepts == Accepts(snapshot, Now, Known)
               storable == InOrder(snapshot, Known) /\ Storable(snapshot, Known)
               built == Built
               normalisable == Normalisable(input.legs, input.contract)
    <2>1. CASE Build
        BY <2>1 DEF Build, VerdictHolds, Built
    <2>2. CASE NormaliserRaises
        BY <2>2 DEF NormaliserRaises, VerdictHolds
    <2>3. ASSUME UNCHANGED <<input, snapshot>>
          PROVE  /\ built' = built /\ normalisable' = normalisable
                 /\ accepts' = accepts /\ storable' = storable
        BY <2>3 DEF Built, Now, Known
    <2>4. CASE Ingest
        BY <2>4, <2>3 DEF Ingest, VerdictHolds
    <2>5. CASE SaveRaises
        BY <2>5, <2>3 DEF SaveRaises, VerdictHolds
    <2>6. CASE Analyse
        <3>1. UNCHANGED <<input, snapshot, accepted>> /\ stage' = "analysed"
            BY <2>6 DEF Analyse
        <3>2. accepted' => /\ snapshot' = Built' /\ normalisable'
                           /\ Accepts(snapshot', Now', Known')
            BY <3>1, <2>3 DEF VerdictHolds
        <3>3. \/ analysis'.ranked = <<>> /\ analysis'.state \notin Actions
              \/ /\ accepted
                 /\ \E pricing \in Pricings :
                       analysis' = Evaluated(snapshot, input.prior, pricing, Cost, Now)
            BY <2>6 DEF Analyse, Actions
        <3>4. \/ analysis'.ranked = <<>> /\ analysis'.state \notin Actions
              \/ /\ accepted'
                 /\ \E pricing \in Pricings :
                       analysis' = Evaluated(snapshot', input'.prior, pricing, Cost, Now')
            BY <3>1, <3>3 DEF Now
        <3> QED
            BY <3>1, <3>2, <3>4 DEF VerdictHolds
    <2>7. CASE AnalysisRaises \/ PricingRaises \/ Submit \/ Publish \/ UNCHANGED vars
        BY <2>7, <2>3 DEF AnalysisRaises, PricingRaises, Submit, Publish, VerdictHolds, Now, vars
    <2> QED
        BY <2>1, <2>2, <2>4, <2>5, <2>6, <2>7 DEF Next
<1> QED
    BY <1>1, <1>2, PTL DEF Spec

\* Every column, mapping and reference the tables ask for, the validator has asked for, but
\* for the two that AcceptedIsStorable names.
LEMMA AcceptedStorable ==
    ASSUME NEW s, NEW now, NEW known,
           Accepts(s, now, known),
           s.technicals.timeframe,
           s.contract.kind = "COMMODITY" => s.market.spot = None,
           \A i \in Indices(s.chain) : ChangeStorable(s, s.chain[i], known)
    PROVE  Storable(s, known)
<1> USE DEF Accepts
<1>1. ColumnsHold(s)
    <2>1. s.market.spot = None \/ Positive(s.market.spot)
        BY DEF MarketValid, PricingUnderlying
    <2>2. /\ \A f \in {"futures", "close", "open", "high", "low", "vwap"} :
                Positive(s.market[f])
          /\ s.market.high >= s.market.low
        BY DEF MarketValid
    <2>3. /\ \A f \in {"ema9", "ema21", "wma44", "wma44Before", "atr", "volatility"} :
                Positive(s.technicals[f])
          /\ s.technicals.rsi \in 0 .. 100
          /\ s.technicals.completed
        BY DEF TechnicalsValid
    <2>4. /\ Positive(s.context.capital) /\ s.context.risk \in 1 .. 2
          /\ s.context.allocation \in 1 .. 100
          /\ Positive(s.context.high) /\ Positive(s.context.low)
          /\ s.context.high >= s.context.low
          /\ Positive(s.context.holding)
        BY RulesAssumption DEF ContextValid
    <2>5. \A i \in Indices(s.chain) : QuoteValid(s.chain[i])
        BY DEF ChainValid
    <2> QED
        BY <2>1, <2>2, <2>3, <2>4, <2>5 DEF ColumnsHold, QuoteValid
<1>2. ContractStorable(s.contract)
    <2>1. \A i \in Indices(s.contract.options) :
              LET o == s.contract.options[i]
              IN  o.strike # None /\ o.side # None /\ o.expiry = s.contract.expiry
                  /\ o.lot = s.contract.lot /\ o.tick = s.contract.tick
        BY RulesAssumption DEF ContractValid, OptionRecordValid, Positive
    <2>2. s.contract.options # <<>>
        <3>1. \A i \in Indices(s.chain) : MappedIn(s.contract, s.chain[i])
            BY DEF ChainValid
        <3>2. Indices(s.chain) # {}
            <4>1. SUFFICES ASSUME Indices(s.chain) = {}
                           PROVE  FALSE
                OBVIOUS
            <4>2. {s.chain[i].strike : i \in Indices(s.chain)} = {}
                BY <4>1
            <4>3. Cardinality({s.chain[i].strike : i \in Indices(s.chain)}) >= 5
                BY DEF ChainValid
            <4> QED
                BY <4>2, <4>3, FS_EmptySet
        <3>3. Indices(s.contract.options) # {}
            BY <3>1, <3>2 DEF MappedIn
        <3> QED
            BY <3>3 DEF Indices
    <2> QED
        BY <2>1, <2>2 DEF ContractStorable, ContractValid
<1>3. LegsStorable(s)
    BY DEF LegsStorable, ChainValid, QuoteValid
<1> QED
    BY <1>1, <1>2, <1>3 DEF Storable

\* The analytics and the read model ask for nothing else, but that nothing was observed
\* after the clock.
LEMMA AcceptedUsable ==
    ASSUME NEW s, NEW now, NEW known,
           Accepts(s, now, known), ObservedBy(s, now)
    PROVE  Analysable(s, now) /\ Displayable(s, TRUE, now)
<1> USE DEF Accepts
<1>1. \A i \in Indices(s.chain) :
          /\ s.chain[i].sid # None
          /\ MappedIn(s.contract, s.chain[i])
          /\ s.chain[i].expiry = s.contract.expiry
          /\ QuoteValid(s.chain[i])
    BY DEF ChainValid
<1>2. Aware(s.contract.expiry) /\ s.contract.expiry > now
    BY DEF ContractValid
<1>3. PricingKnown(s)
    <2>1. PolicyValid(s.contract)
        BY DEF ContractValid
    <2>2. s.contract.futures # None /\ s.contract.futures.exchange = s.contract.exchange
        BY DEF ContractValid, FutureValid
    <2>3. Positive(PricingUnderlying(s))
        BY DEF MarketValid
    <2> QED
        BY <2>1, <2>2, <2>3 DEF PolicyValid, PricingUnderlying, PricingKnown
<1>4. Analysable(s, now)
    <2>1. Aware(s.market.at)
        BY DEF MarketValid
    <2>2. s.chain # <<>> /\ Unique(Key, s.chain)
        BY DEF ChainValid
    <2> QED
        BY <1>1, <1>2, <1>3, <2>1, <2>2 DEF Analysable, QuoteValid
<1>5. FiveStrikesComplete(s)
    <2>1. Positive(PricingUnderlying(s)) /\ Positive(s.contract.interval)
        BY DEF MarketValid, ContractValid
    <2>2. /\ Cardinality({s.chain[i].strike : i \in Indices(s.chain)}) >= 5
          /\ RequiredKeys(s) \subseteq KeysOf(s.chain)
        BY DEF ChainValid
    <2>3. \A i \in Indices(s.chain) : QuoteComplete(s.chain[i])
        BY <1>1 DEF QuoteValid, QuoteComplete
    <2> QED
        BY <2>1, <2>2, <2>3 DEF FiveStrikesComplete
<1>6. Displayable(s, TRUE, now)
    <2>1. \A t \in ComponentTimes(s) : AgeWithin(t, now, MaxAge)
        BY DEF Coherent
    <2>2. now - s.contract.master.fetched <= MasterMaxAge
        BY RulesAssumption DEF ContractValid, MasterValid, AgeWithin
    <2> QED
        BY <1>2, <1>5, <2>1, <2>2 DEF Displayable
<1> QED
    BY <1>4, <1>6

\* A leg the pipeline has a premium for is one the normaliser found a prior leg of: the
\* pipeline looks for the security, the normaliser for the strike and side too, and the
\* contract, which is that of both snapshots, has one security for each.
LEMMA PremiumHasChange ==
    ASSUME NEW s, NEW now, NEW known, NEW prior, NEW leg,
           NEW q, q = NormalizedLeg(leg, s.contract, s.seq, s.at, prior),
           NEW i \in Indices(s.chain), q = s.chain[i],
           Accepts(s, now, known),
           prior = None \/ PriorAccepted(prior),
           HasPremium(PreviousLeg(s, q, prior))
    PROVE  q.change # None
<1> DEFINE p == PreviousLeg(s, q, prior)
           chain == IF prior = None THEN {} ELSE ToSet(prior.chain)
           like == {l \in chain : l.sid = q.sid}
<1>1. /\ like # {} /\ prior.contract = s.contract
      /\ prior.seq < s.seq /\ s.at - prior.at \in 1 .. MaxAge
      /\ p = CHOOSE l \in like : TRUE
    BY DEF PreviousLeg, HasPremium
<1>2. p \in like
    BY <1>1
<1>3. /\ prior # None /\ PriorAccepted(prior)
      /\ p \in {prior.chain[j] : j \in Indices(prior.chain)}
      /\ p.sid = q.sid
    BY <1>2 DEF ToSet, Indices
<1> HIDE DEF p
<1>4. /\ p.at = prior.at /\ p.oi \in Nat /\ p.expiry = s.contract.expiry
      /\ MappedIn(s.contract, p) /\ prior.at \in Int
    BY <1>1, <1>3 DEF PriorAccepted
<1>5. /\ q.sid = leg.sid /\ q.strike = leg.strike /\ q.side = leg.side /\ q.oi = leg.oi
      /\ q.expiry = s.contract.expiry
    BY DEF NormalizedLeg
<1>6. MappedIn(s.contract, q) /\ q.oi \in Nat /\ Aware(s.at)
    BY DEF Accepts, ChainValid, QuoteValid, EnvelopeValid, NonNegative
<1>7. Key(p) = Key(leg)
    <2>1. PICK j \in Indices(s.contract.options) :
              Key(s.contract.options[j]) = Key(p) /\ s.contract.options[j].sid = p.sid
        BY <1>4 DEF MappedIn
    <2>2. PICK k \in Indices(s.contract.options) :
              Key(s.contract.options[k]) = Key(q) /\ s.contract.options[k].sid = q.sid
        BY <1>6 DEF MappedIn
    <2>3. j = k
        <3>1. \A m, n \in Indices(s.contract.options) :
                  s.contract.options[m].sid = s.contract.options[n].sid => m = n
            BY DEF Accepts, ContractValid, Unique
        <3> QED
            BY <1>3, <2>1, <2>2, <3>1
    <2>4. Key(q) = Key(leg)
        BY <1>5 DEF Key
    <2> QED
        BY <2>1, <2>2, <2>3, <2>4
<1>8. IntervalUsable(s.at, prior.at)
    BY <1>1, <1>4, <1>6 DEF IntervalUsable, Aware
<1>9. p.oi # None /\ leg.oi # None
    BY <1>4, <1>5, <1>6, RulesAssumption
<1> DEFINE priors == PriorLegs(leg, s.contract, s.seq, s.at, prior)
<1>10. p \in priors
    BY <1>1, <1>3, <1>4, <1>5, <1>7, <1>8, <1>9 DEF PriorLegs
<1> DEFINE r == CHOOSE l \in priors : TRUE
<1>11. r \in priors
    BY <1>10
<1>12. q.change = leg.oi - r.oi
    <2>1. PriorLegs(leg, s.contract, s.seq, s.at, prior) # {}
        BY <1>10
    <2> QED
        BY <2>1 DEF NormalizedLeg
<1>13. r.oi \in Nat
    <2> HIDE DEF r
    <2>1. r \in {prior.chain[j] : j \in Indices(prior.chain)}
        BY <1>3, <1>11 DEF PriorLegs
    <2> QED
        BY <1>3, <2>1 DEF PriorAccepted
<1> QED
    BY <1>5, <1>6, <1>12, <1>13, RulesAssumption

-----------------------------------------------------------------------------
(* The theorems *)

\* The save of an accepted snapshot fails only for the three reasons AcceptedIsStorable
\* names, whatever the snapshot (save_ingestion, sqlite.py:953).
THEOREM StorableTheorem == Spec => []AcceptedIsStorable
<1>1. SnapshotIsBuilt /\ VerdictHolds => AcceptedIsStorable
    <2> SUFFICES ASSUME SnapshotIsBuilt, VerdictHolds, stage = "failed", accepted,
                        InOrder(snapshot, Known), snapshot.technicals.timeframe,
                        ~(snapshot.contract.kind = "COMMODITY" /\ snapshot.market.spot # None)
                 PROVE  FALSE
        BY DEF AcceptedIsStorable
    <2>1. /\ snapshot = Built /\ Normalisable(input.legs, input.contract)
          /\ Accepts(snapshot, Now, Known) /\ ~Storable(snapshot, Known)
        BY DEF VerdictHolds
    <2>2. \A i \in Indices(snapshot.chain) :
              ChangeStorable(snapshot, snapshot.chain[i], Known)
        BY <2>1, BuiltLegAccepted DEF SnapshotIsBuilt
    <2> QED
        BY <2>1, <2>2, AcceptedStorable
<1> QED
    BY <1>1, BuiltInductive, VerdictInductive, PTL

\* The analytics and the read model take every accepted snapshot that was not observed after
\* the clock, whatever the snapshot (chain.py:86, market_read_model.py:935).
THEOREM UsableTheorem == Spec => []AcceptedIsUsable
<1>1. VerdictHolds => AcceptedIsUsable
    BY AcceptedUsable DEF VerdictHolds, AcceptedIsUsable
<1> QED
    BY <1>1, VerdictInductive, PTL

\* Whatever the pricing model answers, a leg is eligible exactly when nothing was held against
\* it (pipeline.py:241).
THEOREM ReasonsTheorem == Spec => []ReasonsAreGiven
<1>1. SnapshotIsBuilt /\ VerdictHolds => ReasonsAreGiven
    <2> SUFFICES ASSUME SnapshotIsBuilt, VerdictHolds, analysis # None,
                        NEW i \in DOMAIN analysis.ranked
                 PROVE  analysis.ranked[i].eligible <=> analysis.ranked[i].reasons = {}
        BY DEF ReasonsAreGiven
    <2>1. analysis.ranked # <<>>
        OBVIOUS
    <2>2. /\ snapshot = Built /\ Normalisable(input.legs, input.contract)
          /\ Accepts(snapshot, Now, Known)
        BY <2>1 DEF VerdictHolds
    <2>3. PICK pricing \in Pricings :
              analysis.ranked = Candidates(snapshot, input.prior, pricing)
        BY <2>1, RankedCandidates DEF VerdictHolds
    <2> DEFINE q == snapshot.chain[i]
               p == PreviousLeg(snapshot, q, input.prior)
    <2>4. /\ i \in Indices(snapshot.chain)
          /\ analysis.ranked[i] = Candidate(snapshot, q, input.prior, pricing)
        BY <2>3 DEF Candidates, Indices
    <2>5. PICK leg : q = NormalizedLeg(leg, snapshot.contract, snapshot.seq, snapshot.at,
                                       input.prior)
        BY <2>2, <2>4, LegOfPayload
    <2>6. input.prior = None \/ PriorAccepted(input.prior)
        BY InputsAssumption DEF SnapshotIsBuilt
    <2>7. HasPremium(p) => q.change # None
        BY <2>2, <2>4, <2>5, <2>6, PremiumHasChange
    <2>8. analysis.ranked[i].reasons = {} => HasPremium(p)
        <3>1. analysis.ranked[i].reasons = Reasons(snapshot, q, p, pricing)
            BY <2>4 DEF Candidate
        <3>2. Reasons(snapshot, q, p, pricing) = {} => HasPremium(p)
            BY DEF Reasons
        <3> QED
            BY <3>1, <3>2
    <2>9. analysis.ranked[i].eligible <=>
              analysis.ranked[i].reasons = {} /\ Comparable(q, p)
        <3> DEFINE reasons == Reasons(snapshot, q, p, pricing)
                   held == Comparable(q, p)
        <3>1. analysis.ranked[i].eligible = (reasons = {} /\ held)
            <4>1. Candidate(snapshot, q, input.prior, pricing) =
                      [leg |-> q, delta |-> Delta(snapshot, q, pricing),
                       evidence |-> Evidence(snapshot, q, p, pricing),
                       score |-> Score(Evidence(snapshot, q, p, pricing)),
                       reasons |-> reasons, eligible |-> reasons = {} /\ held]
                BY Zenon DEF Candidate
            <4> HIDE DEF reasons, held, q, p
            <4> QED
                BY <2>4, <4>1
        <3>2. analysis.ranked[i].reasons = Reasons(snapshot, q, p, pricing)
            BY <2>4 DEF Candidate
        <3> QED
            BY <3>1, <3>2
    <2> QED
        BY <2>7, <2>8, <2>9 DEF Comparable
<1> QED
    BY <1>1, BuiltInductive, VerdictInductive, PTL

-----------------------------------------------------------------------------
(* Numbers *)

\* The least of a set of indices is one of them; Min is a choice, which the order of the
\* numbers grounds.
LEMMA LeastIndex ==
    ASSUME NEW S, S \subseteq Nat, S # {}
    PROVE  Min(S) \in S /\ \A m \in S : Min(S) <= m
<1> DEFINE before == OpToRel(<, Nat)
<1>0. IsWellFoundedOn(before, Nat)
    BY NatLessThanWellFounded
<1>1. PICK n \in S : \A m \in S : <<m, n>> \notin before
    <2> HIDE DEF before
    <2> QED
        BY <1>0, WFMin
<1>2. ASSUME NEW m \in S
      PROVE  n <= m
    <2>1. before = {pair \in Nat \X Nat : pair[1] < pair[2]}
        BY Zenon DEF OpToRel
    <2>2. <<m, n>> \notin before
        BY <1>1
    <2> HIDE DEF before
    <2>3. m \in Nat /\ n \in Nat
        OBVIOUS
    <2>4. ~(m < n)
        BY <2>1, <2>2, <2>3
    <2> QED
        BY <2>3, <2>4
<1> QED
    BY <1>2 DEF Min

\* Of bounded values one is the highest.
LEMMA HighestExists ==
    ASSUME NEW S, S # {}, NEW f, NEW bound \in Nat, \A i \in S : f[i] \in 0 .. bound
    PROVE  \E i \in S : \A j \in S : f[i] >= f[j]
<1> DEFINE below == {bound - f[i] : i \in S}
<1>1. below \subseteq Nat /\ below # {}
    OBVIOUS
<1>2. Min(below) \in below /\ \A m \in below : Min(below) <= m
    BY <1>1, LeastIndex
<1>3. PICK i \in S : Min(below) = bound - f[i]
    BY <1>2
<1>4. ASSUME NEW j \in S
      PROVE  f[i] >= f[j]
    <2>1. bound - f[i] <= bound - f[j]
        BY <1>2, <1>3
    <2> QED
        BY <2>1
<1> QED
    BY <1>4

\* A multiple of the tick is on the grid, and rounding leaves it where it is.
LEMMA MultipleOfTick ==
    ASSUME NEW k \in Int, NEW tick \in Nat \ {0}
    PROVE  /\ k * tick \in Int /\ (k * tick) % tick = 0 /\ (k * tick) \div tick = k
           /\ RoundDown(k * tick, tick) = k * tick
    BY SMT DEF RoundDown

\* What is rounded up is on the grid, at a tick or above.
LEMMA Rounded ==
    ASSUME NEW v \in Nat \ {0}, NEW tick \in Nat \ {0}
    PROVE  \E k \in Nat \ {0} : RoundUp(v, tick) = k * tick
<1> DEFINE k == (v + tick - 1) \div tick
<1>1. k \in Int /\ v + tick - 1 < (k + 1) * tick
    BY SMT
<1>2. k > 0
    BY <1>1, SMT
<1> QED
    BY <1>1, <1>2 DEF RoundUp

\* Entry and stop are on the grid and the stop is below, whatever the distance: it is rounded
\* in hundredths of a tick and then capped a tick under the entry (_draft_plan).
LEMMA PlanPrices ==
    ASSUME NEW tick \in Nat \ {0}, NEW ask \in Nat \ {0}, NEW distance \in Int
    PROVE  LET entry == RoundUp(ask, tick)
               raw == Greatest(100 * tick, 100 * entry - distance)
               stop == Least(entry - tick, RoundUp(raw, 100 * tick) \div 100)
           IN  \E e \in Nat, k \in Nat : entry = e * tick /\ stop = k * tick /\ k < e
<1> DEFINE entry == RoundUp(ask, tick)
           raw == Greatest(100 * tick, 100 * entry - distance)
           stop == Least(entry - tick, RoundUp(raw, 100 * tick) \div 100)
<1>0. stop = Least(entry - tick, RoundUp(raw, 100 * tick) \div 100)
    OBVIOUS
<1> HIDE DEF stop
<1>1. PICK e \in Nat \ {0} : entry = e * tick
    BY Rounded
<1> HIDE DEF entry
<1>2. raw \in Nat \ {0} /\ 100 * tick \in Nat \ {0}
    BY <1>1 DEF Greatest
<1> HIDE DEF raw
<1>3. PICK r \in Nat \ {0} : RoundUp(raw, 100 * tick) = r * (100 * tick)
    <2> DEFINE grid == 100 * tick
    <2>1. grid \in Nat \ {0} /\ raw \in Nat \ {0}
        BY <1>2
    <2> HIDE DEF grid
    <2>2. \E r \in Nat \ {0} : RoundUp(raw, grid) = r * grid
        BY <2>1, Rounded
    <2> QED
        BY <2>2 DEF grid
<1>4. RoundUp(raw, 100 * tick) \div 100 = r * tick
    <2>1. r * (100 * tick) = (r * tick) * 100 /\ r * tick \in Int
        BY SMT
    <2>2. \A m \in Int : (m * 100) \div 100 = m
        BY SMT
    <2> QED
        BY <1>3, <2>1, <2>2
<1>5. entry - tick = (e - 1) * tick
    BY <1>1, SMT
<1>6. ASSUME stop = entry - tick
      PROVE  \E k \in Nat : stop = k * tick /\ k < e
    <2> DEFINE k == e - 1
    <2>1. k \in Nat /\ k < e /\ stop = k * tick
        BY <1>5, <1>6
    <2> HIDE DEF k
    <2> QED
        BY <2>1
<1>7. ASSUME stop = r * tick, stop # entry - tick
      PROVE  \E k \in Nat : stop = k * tick /\ k < e
    <2>1. r * tick <= entry - tick
       BY <1>0, <1>1, <1>4, <1>7 DEF Least
    <2>2. r * tick <= (e - 1) * tick
       BY <2>1, <1>5
    <2>3. r <= e - 1
       <3> SUFFICES ASSUME r >= e
                    PROVE  FALSE
           OBVIOUS
       <3>1. r * tick >= e * tick
           BY SMT
       <3>2. (e - 1) * tick = e * tick - tick /\ e * tick \in Int /\ r * tick \in Int
           BY SMT
       <3> QED
           BY <2>2, <3>1, <3>2
    <2>4. stop = r * tick /\ r < e
       BY <1>7, <2>3
    <2> QED
       BY <2>4
<1>8. stop = entry - tick \/ stop = r * tick
    BY <1>0, <1>4 DEF Least
<1>9. \E k \in Nat : stop = k * tick /\ k < e
    BY <1>6, <1>7, <1>8
<1> QED
    BY <1>1, <1>9 DEF entry, raw, stop

\* The distance from stop to entry is a number of ticks, and so is every multiple of it: the
\* rounding of a target does nothing.
LEMMA TargetOnGrid ==
    ASSUME NEW tick \in Nat \ {0}, NEW e \in Nat, NEW k \in Nat, NEW m \in Nat
    PROVE  RoundDown(e * tick + (e * tick - k * tick) * m, tick) = (e + (e - k) * m) * tick
<1> DEFINE n == e + (e - k) * m
<1>1. n \in Int
    BY SMT
<1>2. e * tick + (e * tick - k * tick) * m = n * tick
    BY SMT
<1>3. RoundDown(n * tick, tick) = n * tick
    BY <1>1, MultipleOfTick
<1> QED
    BY <1>2, <1>3

\* A further multiple is a higher price.
LEMMA TargetsRise ==
    ASSUME NEW tick \in Nat \ {0}, NEW e \in Nat, NEW k \in Nat, k < e, NEW m \in Nat
    PROVE  (e + (e - k) * m) * tick < (e + (e - k) * (m + 1)) * tick
<1> DEFINE n == e + (e - k) * m
<1>1. n \in Int
    BY SMT
<1>2. e + (e - k) * (m + 1) = n + (e - k)
    BY SMT
<1>3. (n + (e - k)) * tick = n * tick + (e - k) * tick /\ (e - k) * tick > 0
    BY <1>1, SMT
<1> HIDE DEF n
<1>4. n * tick \in Int /\ (e - k) * tick \in Int
    BY <1>1, SMT
<1>5. n * tick < (n + (e - k)) * tick
    BY <1>3, <1>4
<1> QED
    BY <1>2, <1>5 DEF n

\* A division rounds down: what it allows is paid for in full.
LEMMA Afforded ==
    ASSUME NEW capital \in Nat, NEW share \in Nat, NEW cost \in Nat \ {0}, NEW lots \in Int,
           lots <= (capital * share) \div (100 * cost)
    PROVE  100 * (cost * lots) <= capital * share
<1> DEFINE a == capital * share
           d == 100 * cost
<1>1. a \in Int /\ d \in Nat \ {0}
    BY SMT
<1> HIDE DEF a, d
<1>2. (a \div d) * d <= a /\ a \div d \in Int
    BY <1>1, SMT
<1>3. lots * d <= (a \div d) * d
    BY <1>1, <1>2, SMT DEF a, d
<1>4. 100 * (cost * lots) = lots * d
    BY SMT DEF d
<1> QED
    BY <1>1, <1>2, <1>3, <1>4, SMT DEF a

-----------------------------------------------------------------------------
(* Scores *)

\* A count of finitely many conditions is a number.
LEMMA CountIsNumber ==
    ASSUME NEW n \in Nat, NEW conditions, DOMAIN conditions = 1 .. n
    PROVE  Count(conditions) \in Nat
<1>1. IsFiniteSet(1 .. n)
    BY FS_Interval
<1>2. IsFiniteSet({i \in DOMAIN conditions : conditions[i]})
    BY <1>1, FS_Subset
<1> QED
    BY <1>2, FS_CardinalityType DEF Count

\* _clamp keeps a factor in its range.
LEMMA ClampInRange ==
    ASSUME NEW v \in Int
    PROVE  Clamp(v) \in 0 .. Full
    BY DEF Clamp, Least, Greatest, Full

\* The highest weighted score: the weights add up to a hundred.
HighestScore == 100 * Full

\* The bound of a score is a number.
LEMMA HighestScoreIsNumber == HighestScore \in Nat
    BY DEF HighestScore, Full

\* Five factors weighed 20, 15, 15, 15 and 35 make at most a hundred times the range of one.
LEMMA WeightedSum ==
    ASSUME NEW a \in Nat, NEW b \in Nat, NEW c \in Nat, NEW d \in Nat, NEW e \in Nat,
           NEW full \in Nat,
           a <= full, b <= full, c <= full, d <= full, e <= full
    PROVE  /\ 20 * a + 15 * b + 15 * c + 15 * d + 35 * e \in Nat
           /\ 20 * a + 15 * b + 15 * c + 15 * d + 35 * e <= 100 * full
<1>1. 20 * a + 15 * b + 15 * c + 15 * d + 35 * e \in Nat
    OBVIOUS
<1>2. 20 * a + 15 * b + 15 * c + 15 * d + 35 * e <= 100 * full
    OBVIOUS
<1> QED
    BY <1>1, <1>2

\* weighted_score stays in its range when every factor does.
LEMMA ScoreInRange ==
    ASSUME NEW evidence,
           evidence # None =>
               \A f \in {"trend", "premium", "interest", "liquidity", "modelled"} :
                   evidence[f] \in 0 .. Full
    PROVE  Score(evidence) \in 0 .. HighestScore
<1>1. CASE evidence = None
    BY <1>1, HighestScoreIsNumber DEF Score
<1>2. CASE evidence # None
    <2>1. ASSUME NEW f \in {"trend", "premium", "interest", "liquidity", "modelled"}
          PROVE  evidence[f] \in Nat /\ evidence[f] <= Full
        <3>1. evidence[f] \in 0 .. Full /\ Full \in Nat
            BY <1>2 DEF Full
        <3> QED
            BY <3>1
    <2>2. /\ Weights.trend = 20 /\ Weights.premium = 15 /\ Weights.interest = 15
          /\ Weights.liquidity = 15 /\ Weights.modelled = 35
        BY DEF Weights
    <2>3. Score(evidence) = 20 * evidence.trend + 15 * evidence.premium
                            + 15 * evidence.interest + 15 * evidence.liquidity
                            + 35 * evidence.modelled
        BY <1>2, <2>2 DEF Score
    <2>4. Full \in Nat
        BY DEF Full
    <2>5. Score(evidence) \in Nat /\ Score(evidence) <= HighestScore
        <3> DEFINE a == evidence.trend
                   b == evidence.premium
                   c == evidence.interest
                   d == evidence.liquidity
                   e == evidence.modelled
        <3>1. a \in Nat /\ b \in Nat /\ c \in Nat /\ d \in Nat /\ e \in Nat
            BY <2>1
        <3>2. a <= Full /\ b <= Full /\ c <= Full /\ d <= Full /\ e <= Full
            BY <2>1
        <3>3. Score(evidence) = 20 * a + 15 * b + 15 * c + 15 * d + 35 * e
            BY <2>3
        <3> HIDE DEF a, b, c, d, e
        <3>4. /\ 20 * a + 15 * b + 15 * c + 15 * d + 35 * e \in Nat
              /\ 20 * a + 15 * b + 15 * c + 15 * d + 35 * e <= 100 * Full
            BY WeightedSum, <2>4, <3>1, <3>2
        <3> QED
            BY <3>3, <3>4 DEF HighestScore
    <2> QED
        BY <2>5, HighestScoreIsNumber
<1> QED
    BY <1>1, <1>2

\* Of a leg the validator took and the pipeline found eligible, every factor is in its range,
\* and so is the score; the leg is the one that was scored (_score_candidate).
LEMMA EligibleScore ==
    ASSUME NEW s, NEW q, NEW prior, NEW pricing,
           QuoteValid(q), pricing[q.side].grade \in 0 .. Full,
           Candidate(s, q, prior, pricing).eligible
    PROVE  LET c == Candidate(s, q, prior, pricing)
           IN  c.leg = q /\ c.score \in 0 .. HighestScore /\ c.delta \in Nat
<1> DEFINE c == Candidate(s, q, prior, pricing)
           p == PreviousLeg(s, q, prior)
           evidence == Evidence(s, q, p, pricing)
           reasons == Reasons(s, q, p, pricing)
           held == Comparable(q, p)
<1>1. c = [leg |-> q, delta |-> Delta(s, q, pricing), evidence |-> evidence,
           score |-> Score(evidence), reasons |-> reasons, eligible |-> reasons = {} /\ held]
    BY Zenon DEF Candidate
<1>2. /\ c.leg = q /\ c.delta = Delta(s, q, pricing) /\ c.score = Score(evidence)
      /\ reasons = {} /\ held
    <2>1. c.eligible
        OBVIOUS
    <2> HIDE DEF c, p, evidence, reasons, held
    <2>2. c.eligible = (reasons = {} /\ held)
        BY <1>1
    <2> QED
        BY <1>1, <2>1, <2>2
<1>3. c.delta \in Nat
    <2>1. Delta(s, q, pricing) \in DeltaRange(s.context.style)
        BY <1>2 DEF Reasons
    <2> QED
        BY <1>2, <2>1 DEF DeltaRange
<1>4. /\ q.ask \in Nat \ {0} /\ q.bid \in Nat \ {0} /\ q.ltp \in Nat \ {0}
      /\ q.volume \in Nat /\ q.oi \in Nat
    BY DEF QuoteValid, Positive, NonNegative
<1>5. p.ltp \in Nat \ {0}
    BY <1>2 DEF Comparable, HasPremium, Positive
<1> HIDE DEF p
<1>6. Clamp((TrendSupports(s, q.side) * Full) \div 6) \in 0 .. Full
    <2>1. TrendSupports(s, q.side) \in Nat
        <3> DEFINE u == PricingUnderlying(s)
                   t == s.technicals
                   m == s.market
                   side == q.side
                   up == <<u > t.ema9, t.ema9 > t.ema21, t.ema21 > t.wma44,
                           t.wma44 > t.wma44Before>>
                   first == [i \in 1 .. 4 |-> up[i] = (side = "CE")]
                   other == <<t.rsi \in (IF side = "CE" THEN 50 .. 75 ELSE 25 .. 50),
                              \/ m.spot = None
                              \/ IF side = "CE" THEN m.futures >= m.spot
                                 ELSE m.futures <= m.spot>>
        <3>1. TrendSupports(s, q.side) = Count(first) + Count(other)
            BY Zenon DEF TrendSupports
        <3>2. DOMAIN first = 1 .. 4 /\ DOMAIN other = 1 .. 2
            OBVIOUS
        <3> HIDE DEF first, other
        <3>3. Count(first) \in Nat /\ Count(other) \in Nat
            BY <3>2, CountIsNumber
        <3> QED
            BY <3>1, <3>3
    <2>2. (TrendSupports(s, q.side) * Full) \div 6 \in Int
        BY <2>1 DEF Full
    <2> QED
        BY <2>2, ClampInRange
<1>7. PremiumFactor(q, p) \in 0 .. Full
    <2>1. (Full * 50 * (q.ltp - p.ltp)) \div (Saturation * p.ltp) \in Int
        BY <1>4, <1>5 DEF Full, Saturation
    <2>2. Full \div 2 \in Int
        BY DEF Full
    <2> QED
        BY <2>1, <2>2, ClampInRange DEF PremiumFactor
<1>8. InterestFactor(q, p) \in 0 .. Full
    BY DEF InterestFactor, Full
<1>9. Clamp(LiquidityScore(q)) \in 0 .. Full
    <2>1. LiquidityScore(q) \in Int
        <3>1. (300 * Greatest(0, MaxSpread * q.ask - 100 * (q.ask - q.bid)))
                  \div (MaxSpread * q.ask) \in Int
            <4>1. 300 * Greatest(0, MaxSpread * q.ask - 100 * (q.ask - q.bid)) \in Int
                BY <1>4 DEF Greatest, MaxSpread
            <4>2. MaxSpread * q.ask \in Nat \ {0}
                BY <1>4 DEF MaxSpread
            <4> QED
                BY <4>1, <4>2
        <3>2. (150 * Least(q.volume, MinVolume)) \div MinVolume \in Int
            BY <1>4 DEF Least, MinVolume
        <3>3. (150 * Least(q.oi, MinInterest)) \div MinInterest \in Int
            BY <1>4 DEF Least, MinInterest
        <3> QED
            BY <3>1, <3>2, <3>3 DEF LiquidityScore
    <2> QED
        BY <2>1, ClampInRange
<1>10. Score(evidence) \in 0 .. HighestScore
    <2>1. evidence = [trend |-> Clamp((TrendSupports(s, q.side) * Full) \div 6),
                      premium |-> PremiumFactor(q, p), interest |-> InterestFactor(q, p),
                      liquidity |-> Clamp(LiquidityScore(q)),
                      modelled |-> pricing[q.side].grade]
        BY <1>2 DEF Evidence
    <2> HIDE DEF evidence
    <2>2. ASSUME NEW f \in {"trend", "premium", "interest", "liquidity", "modelled"}
          PROVE  evidence[f] \in 0 .. Full
        BY <2>1, <1>6, <1>7, <1>8, <1>9
    <2> QED
        BY <2>2, ScoreInRange
<1> QED
    BY <1>2, <1>3, <1>10

\* What _best returns is an eligible candidate of the side that was asked for.
LEMMA BestIsEligible ==
    ASSUME NEW candidates, DOMAIN candidates \subseteq Nat, NEW side,
           \A i \in DOMAIN candidates :
               candidates[i].eligible /\ candidates[i].leg.side = side =>
                   candidates[i].score \in 0 .. HighestScore,
           Best(candidates, side) # None
    PROVE  \E i \in DOMAIN candidates :
               /\ candidates[i].eligible /\ candidates[i].leg.side = side
               /\ Best(candidates, side) = candidates[i]
<1> DEFINE eligible == {i \in DOMAIN candidates :
                            candidates[i].eligible /\ candidates[i].leg.side = side}
           highest == {i \in eligible :
                           \A j \in eligible : candidates[i].score >= candidates[j].score}
<1>1. eligible # {} /\ Best(candidates, side) = candidates[Min(highest)]
    BY DEF Best
<1>2. highest # {}
    <2> DEFINE f == [i \in eligible |-> candidates[i].score]
    <2>1. ASSUME NEW i \in eligible
          PROVE  f[i] \in 0 .. HighestScore
        <3>1. candidates[i].eligible /\ candidates[i].leg.side = side
            OBVIOUS
        <3>2. candidates[i].score \in 0 .. HighestScore
            BY <3>1
        <3> HIDE DEF eligible
        <3> QED
            BY <3>2
    <2>2. \E i \in eligible : \A j \in eligible : f[i] >= f[j]
        <3> HIDE DEF f, eligible
        <3> QED
            BY <1>1, <2>1, HighestScoreIsNumber, HighestExists
    <2> HIDE DEF eligible
    <2> QED
        BY <2>2
<1>3. Min(highest) \in highest
    <2>1. highest \subseteq Nat
        OBVIOUS
    <2> HIDE DEF highest
    <2> QED
        BY <1>2, <2>1, LeastIndex
<1> QED
    BY <1>1, <1>3

-----------------------------------------------------------------------------
(* The gates *)

\* Only the last two of the fourteen answers buy, and the last gate is shut: some answer is
\* always given (resolve_decision).
LEMMA GateTable ==
    ASSUME NEW s, NEW candidates, NEW plan, NEW now
    PROVE  LET gates == Gates(s, candidates, plan, now)
           IN  /\ DOMAIN gates = 1 .. 14
               /\ \A i \in 1 .. 12 : gates[i].state \notin Actions
               /\ gates[13].state = "BUY_CALL" /\ gates[14].state = "BUY_PUT"
               /\ gates[14].open = FALSE
<1> DEFINE gates == Gates(s, candidates, plan, now)
<1>1. DOMAIN gates = 1 .. 14
    BY DEF Gates
<1>2. gates[1].state = "INSUFFICIENT_DATA" /\ gates[2].state = "NO_TRADE"
    BY DEF Gates
<1>3. gates[3].state = "NO_TRADE" /\ gates[4].state = "NO_TRADE"
    BY DEF Gates
<1>4. gates[5].state = "NO_TRADE" /\ gates[6].state = "NO_TRADE"
    BY DEF Gates
<1>5. gates[7].state = "NO_TRADE" /\ gates[8].state = "NO_TRADE"
    BY DEF Gates
<1>6. gates[9].state = "WAIT" /\ gates[10].state = "WAIT"
    BY DEF Gates
<1>7. gates[11].state = "WAIT" /\ gates[12].state = "WAIT"
    BY DEF Gates
<1>8. gates[13].state = "BUY_CALL" /\ gates[14].state = "BUY_PUT" /\ gates[14].open = FALSE
    BY DEF Gates
<1> HIDE DEF gates
<1>9. ASSUME NEW i \in 1 .. 12
      PROVE  gates[i].state \notin Actions
    BY <1>2, <1>3, <1>4, <1>5, <1>6, <1>7 DEF Actions
<1>10. /\ DOMAIN gates = 1 .. 14
       /\ \A i \in 1 .. 12 : gates[i].state \notin Actions
       /\ gates[13].state = "BUY_CALL" /\ gates[14].state = "BUY_PUT"
       /\ gates[14].open = FALSE
    BY <1>1, <1>8, <1>9
<1> QED
    BY <1>10 DEF gates

\* What the gates that matter to a plan ask for.
LEMMA GateConditions ==
    ASSUME NEW s, NEW candidates, NEW plan, NEW now
    PROVE  LET gates == Gates(s, candidates, plan, now)
           IN  /\ gates[1].open => Best(candidates, "CE") # None /\ Best(candidates, "PE") # None
               /\ gates[4].open => s.contract.expiry - now > ExtremeExpiry
               /\ gates[5].open => EventClear(s.context.event)
               /\ gates[7].open => plan # None /\ plan.lots > 0
               /\ gates[10].open => ~Conflicting(ScoreOf(Best(candidates, "CE")),
                                                 ScoreOf(Best(candidates, "PE")))
               /\ gates[13].open <=>
                     ScoreOf(Best(candidates, "CE")) <= ScoreOf(Best(candidates, "PE"))
<1> DEFINE gates == Gates(s, candidates, plan, now)
           behind == ScoreOf(Best(candidates, "CE")) <= ScoreOf(Best(candidates, "PE"))
           apart == ~Conflicting(ScoreOf(Best(candidates, "CE")),
                                 ScoreOf(Best(candidates, "PE")))
<1>1. gates[1].open = (Best(candidates, "CE") # None /\ Best(candidates, "PE") # None)
    BY DEF Gates
<1>2. gates[4].open = (s.contract.expiry - now > ExtremeExpiry)
    BY DEF Gates
<1>3. gates[5].open = EventClear(s.context.event)
    BY DEF Gates
<1>4. gates[7].open = (plan # None /\ (plan # None => plan.lots > 0))
    BY DEF Gates
<1>5. gates[10].open = apart
    BY DEF Gates
<1>6. gates[13].open = behind
    BY DEF Gates
<1> HIDE DEF gates, behind, apart
<1>7. /\ gates[1].open => Best(candidates, "CE") # None /\ Best(candidates, "PE") # None
      /\ gates[4].open => s.contract.expiry - now > ExtremeExpiry
      /\ gates[5].open => EventClear(s.context.event)
      /\ gates[7].open => plan # None /\ plan.lots > 0
      /\ gates[10].open => apart
      /\ gates[13].open <=> behind
    BY <1>1, <1>2, <1>3, <1>4, <1>5, <1>6
<1> QED
    BY <1>7 DEF gates, behind, apart

\* A decision to buy has passed every gate before it.
LEMMA BoughtThroughGates ==
    ASSUME NEW s, NEW candidates, NEW plan, NEW now,
           LET gates == Gates(s, candidates, plan, now)
           IN  gates[Min({i \in DOMAIN gates : ~gates[i].open})].state \in Actions
    PROVE  /\ Best(candidates, "CE") # None /\ Best(candidates, "PE") # None
           /\ s.contract.expiry - now > ExtremeExpiry
           /\ EventClear(s.context.event)
           /\ plan # None /\ plan.lots > 0
           /\ ~Conflicting(ScoreOf(Best(candidates, "CE")), ScoreOf(Best(candidates, "PE")))
           /\ LET gates == Gates(s, candidates, plan, now)
              IN  gates[Min({i \in DOMAIN gates : ~gates[i].open})].state =
                      IF ScoreOf(Best(candidates, "CE")) <= ScoreOf(Best(candidates, "PE"))
                      THEN "BUY_PUT" ELSE "BUY_CALL"
<1> DEFINE gates == Gates(s, candidates, plan, now)
           closed == {i \in DOMAIN gates : ~gates[i].open}
           least == Min(closed)
           behind == ScoreOf(Best(candidates, "CE")) <= ScoreOf(Best(candidates, "PE"))
           apart == ~Conflicting(ScoreOf(Best(candidates, "CE")),
                                 ScoreOf(Best(candidates, "PE")))
<1>1. /\ DOMAIN gates = 1 .. 14
      /\ \A i \in 1 .. 12 : gates[i].state \notin Actions
      /\ gates[13].state = "BUY_CALL" /\ gates[14].state = "BUY_PUT"
      /\ gates[14].open = FALSE
    BY GateTable
<1>2. /\ gates[1].open => Best(candidates, "CE") # None /\ Best(candidates, "PE") # None
      /\ gates[4].open => s.contract.expiry - now > ExtremeExpiry
      /\ gates[5].open => EventClear(s.context.event)
      /\ gates[7].open => plan # None /\ plan.lots > 0
      /\ gates[10].open => apart
      /\ gates[13].open <=> behind
    BY GateConditions
<1>3. gates[least].state \in Actions
    OBVIOUS
<1> HIDE DEF behind, apart, gates
<1>4. least \in closed /\ \A i \in closed : least <= i
    <2>1. closed \subseteq Nat /\ 14 \in closed
        BY <1>1
    <2> HIDE DEF closed
    <2> QED
        BY <2>1, LeastIndex
<1> HIDE DEF least
<1>5. least \in {13, 14}
    BY <1>1, <1>3, <1>4
<1>6. \A i \in 1 .. 12 : gates[i].open
    BY <1>1, <1>4, <1>5
<1>7. least = 13 <=> ~behind
    BY <1>1, <1>2, <1>4, <1>5
<1>8. gates[least].state = IF behind THEN "BUY_PUT" ELSE "BUY_CALL"
    BY <1>1, <1>5, <1>7
<1>9. /\ gates[1].open /\ gates[4].open /\ gates[5].open /\ gates[7].open
      /\ gates[10].open
    BY <1>6
<1> QED
    BY <1>2, <1>8, <1>9 DEF least, behind, apart, gates

-----------------------------------------------------------------------------
(* The plan *)

\* The prices of a plan are ticks, and the targets are whole multiples of the risk above the
\* entry.
LEMMA DraftedPrices ==
    ASSUME NEW s, NEW candidate, NEW cost, NEW now,
           s.contract.tick \in Nat \ {0},
           candidate.leg.ask \in Nat \ {0}, candidate.delta \in Nat, s.technicals.atr \in Nat
    PROVE  LET p == DraftPlan(s, candidate, cost, now)
               tick == s.contract.tick
           IN  \E e \in Nat, k \in Nat :
                   /\ k < e /\ p.entry = e * tick /\ p.stop = k * tick
                   /\ p.targets[1] = (e + (e - k) * 1) * tick
                   /\ p.targets[2] = (e + (e - k) * 2) * tick
                   /\ p.targets[3] = (e + (e - k) * 3) * tick
<1> DEFINE p == DraftPlan(s, candidate, cost, now)
           tick == s.contract.tick
           ask == candidate.leg.ask
           distance == RiskDistance(s, candidate)
           entry == RoundUp(ask, tick)
           raw == Greatest(100 * tick, 100 * entry - distance)
           stop == Least(entry - tick, RoundUp(raw, 100 * tick) \div 100)
           target(i) == RoundDown(entry + (entry - stop) * RMultiples[i], tick)
<1>1. p.entry = entry /\ p.stop = stop /\ p.targets = [i \in DOMAIN RMultiples |-> target(i)]
    <2> HIDE DEF entry, stop, target
    <2> QED
        BY DEF DraftPlan, entry, stop, target
<1>2. tick \in Nat \ {0} /\ ask \in Nat \ {0} /\ distance \in Int
    <2>1. s.technicals.atr * candidate.delta \in Int
        BY SMT
    <2> QED
        BY <2>1 DEF RiskDistance, Greatest, Least, PremiumStop
<1> HIDE DEF tick, ask, distance
<1>3. \E e \in Nat, k \in Nat : entry = e * tick /\ stop = k * tick /\ k < e
    BY ZenonT(60), <1>2, PlanPrices
<1> HIDE DEF entry, raw, stop, target, p
<1>4. PICK e \in Nat, k \in Nat : entry = e * tick /\ stop = k * tick /\ k < e
    BY Zenon, <1>3
<1>5. \A m \in Nat :
          RoundDown(e * tick + (e * tick - k * tick) * m, tick) = (e + (e - k) * m) * tick
    <2>1. tick \in Nat \ {0}
        BY <1>2
    <2> QED
        BY ONLY <2>1, e \in Nat, k \in Nat, TargetOnGrid
<1>6. ASSUME NEW i \in {1, 2, 3}
      PROVE  p.targets[i] = (e + (e - k) * i) * tick
    <2>1. RMultiples[i] = i /\ i \in DOMAIN RMultiples
        BY DEF RMultiples
    <2>2. p.targets[i] = RoundDown(e * tick + (e * tick - k * tick) * i, tick)
        BY <1>1, <1>4, <2>1 DEF target
    <2>3. i \in Nat
        OBVIOUS
    <2>4. RoundDown(e * tick + (e * tick - k * tick) * i, tick) = (e + (e - k) * i) * tick
        BY Zenon, <1>5, <2>3
    <2> QED
        BY <2>2, <2>4
<1>7. p.targets[1] = (e + (e - k) * 1) * tick
    BY <1>6
<1>8. p.targets[2] = (e + (e - k) * 2) * tick
    BY <1>6
<1>9. p.targets[3] = (e + (e - k) * 3) * tick
    BY <1>6
<1>10. p.entry = e * tick /\ p.stop = k * tick
    BY <1>1, <1>4
<1> QED
    BY <1>4, <1>7, <1>8, <1>9, <1>10 DEF p, tick

\* The fields of a plan in terms of each other.
LEMMA DraftedFields ==
    ASSUME NEW s, NEW candidate, NEW cost, NEW now
    PROVE  LET p == DraftPlan(s, candidate, cost, now)
           IN  /\ p.side = candidate.leg.side /\ p.expiry = candidate.leg.expiry /\ p.at = now
               /\ p.riskPerLot = (p.entry - p.stop) * s.contract.lot + cost
               /\ p.lots = Lots(s.context, p.entry, p.riskPerLot, s.contract.lot)
               /\ p.quantity = p.lots * s.contract.lot
<1> DEFINE p == DraftPlan(s, candidate, cost, now)
           tick == s.contract.tick
           lot == s.contract.lot
           entry == RoundUp(candidate.leg.ask, tick)
           raw == Greatest(100 * tick, 100 * entry - RiskDistance(s, candidate))
           stop == Least(entry - tick, RoundUp(raw, 100 * tick) \div 100)
           targets == [i \in DOMAIN RMultiples |->
                          RoundDown(entry + (entry - stop) * RMultiples[i], tick)]
           riskPerLot == (entry - stop) * lot + cost
           lots == Lots(s.context, entry, riskPerLot, lot)
           quantity == lots * lot
<1>1. p = [snapshot |-> s.id, sid |-> candidate.leg.sid, side |-> candidate.leg.side,
           expiry |-> candidate.leg.expiry, at |-> now, entry |-> entry, stop |-> stop,
           targets |-> targets, lots |-> lots, quantity |-> quantity, riskPerLot |-> riskPerLot]
    BY Zenon DEF DraftPlan
<1>2. quantity = lots * lot
    OBVIOUS
<1> HIDE DEF quantity
<1>3. lots = Lots(s.context, entry, riskPerLot, lot)
    OBVIOUS
<1> HIDE DEF lots
<1>4. riskPerLot = (entry - stop) * lot + cost
    OBVIOUS
<1> HIDE DEF p, riskPerLot, targets, stop, raw, entry
<1>5. /\ p.side = candidate.leg.side /\ p.expiry = candidate.leg.expiry /\ p.at = now
      /\ p.entry = entry /\ p.stop = stop /\ p.lots = lots
      /\ p.quantity = quantity /\ p.riskPerLot = riskPerLot
    BY <1>1
<1> HIDE DEF lot
<1>6. /\ p.side = candidate.leg.side /\ p.expiry = candidate.leg.expiry /\ p.at = now
      /\ p.riskPerLot = (p.entry - p.stop) * lot + cost
      /\ p.lots = Lots(s.context, p.entry, p.riskPerLot, lot)
      /\ p.quantity = p.lots * lot
    BY Zenon, <1>2, <1>3, <1>4, <1>5
<1> QED
    BY Zenon, <1>6 DEF p, lot

\* calculate_position_size: neither the risk nor the allocation is exceeded.
LEMMA LotsAfforded ==
    ASSUME NEW context, NEW entry \in Nat \ {0}, NEW risk \in Nat \ {0}, NEW lot \in Nat \ {0},
           context.capital \in Nat, context.risk \in Nat, context.allocation \in Nat
    PROVE  LET lots == Lots(context, entry, risk, lot)
           IN  /\ lots \in Int
               /\ 100 * (risk * lots) <= context.capital * context.risk
               /\ 100 * entry * (lots * lot) <= context.capital * context.allocation
<1> DEFINE capital == context.capital
           share == context.risk
           allocation == context.allocation
           cost == entry * lot
           lots == Lots(context, entry, risk, lot)
           risked == (capital * share) \div (100 * risk)
           spent == (capital * allocation) \div (100 * entry * lot)
<1>1. lots = Least(risked, spent)
    BY DEF Lots
<1> HIDE DEF lots
<1>2. capital \in Nat /\ share \in Nat /\ allocation \in Nat
    OBVIOUS
<1> HIDE DEF capital, share, allocation
<1>3. cost \in Nat \ {0} /\ 100 * entry * lot = 100 * cost
    BY SMT
<1>4. risked \in Int
    <2>1. capital * share \in Int /\ 100 * risk \in Nat \ {0}
        BY <1>2, SMT
    <2> QED
        BY <2>1, SMT
<1>5. spent \in Int /\ spent = (capital * allocation) \div (100 * cost)
    <2>1. capital * allocation \in Int /\ 100 * cost \in Nat \ {0}
        BY <1>2, <1>3, SMT
    <2> QED
        BY <1>3, <2>1, SMT
<1> HIDE DEF risked, spent
<1>6. lots \in Int /\ lots <= risked /\ lots <= spent
    BY <1>1, <1>4, <1>5 DEF Least
<1>7. 100 * (risk * lots) <= capital * share
    <2>1. lots <= (capital * share) \div (100 * risk)
        BY <1>6 DEF risked
    <2> QED
        BY <1>2, <1>6, <2>1, Afforded
<1>8. 100 * (cost * lots) <= capital * allocation
    <2>1. lots <= (capital * allocation) \div (100 * cost)
        BY <1>5, <1>6
    <2> HIDE DEF cost
    <2> QED
        BY <1>2, <1>3, <1>6, <2>1, Afforded
<1>9. 100 * entry * (lots * lot) = 100 * (cost * lots)
    BY <1>6, SMT
<1> QED
    BY <1>6, <1>7, <1>8, <1>9 DEF lots, capital, share, allocation

\* The same of a plan: its risk per lot is positive, whatever the cost.
LEMMA DraftedSize ==
    ASSUME NEW s, NEW candidate, NEW cost \in Nat, NEW now,
           s.contract.lot \in Nat \ {0},
           s.context.capital \in Nat, s.context.risk \in Nat, s.context.allocation \in Nat,
           DraftPlan(s, candidate, cost, now).entry \in Nat,
           DraftPlan(s, candidate, cost, now).stop \in Nat,
           DraftPlan(s, candidate, cost, now).stop < DraftPlan(s, candidate, cost, now).entry
    PROVE  LET p == DraftPlan(s, candidate, cost, now)
           IN  /\ p.riskPerLot \in Nat \ {0} /\ p.lots \in Int
               /\ 100 * (p.riskPerLot * p.lots) <= s.context.capital * s.context.risk
               /\ 100 * p.entry * p.quantity <= s.context.capital * s.context.allocation
<1> DEFINE p == DraftPlan(s, candidate, cost, now)
<1>1. /\ p.riskPerLot = (p.entry - p.stop) * s.contract.lot + cost
      /\ p.lots = Lots(s.context, p.entry, p.riskPerLot, s.contract.lot)
      /\ p.quantity = p.lots * s.contract.lot
    BY DraftedFields
<1>2. p.entry \in Nat \ {0} /\ p.stop \in Nat /\ p.stop < p.entry
    OBVIOUS
<1> HIDE DEF p
<1>3. p.riskPerLot \in Nat \ {0}
    <2>1. (p.entry - p.stop) * s.contract.lot \in Nat \ {0}
        BY <1>2, SMT
    <2> QED
        BY <1>1, <2>1
<1>4. /\ p.lots \in Int
      /\ 100 * (p.riskPerLot * p.lots) <= s.context.capital * s.context.risk
      /\ 100 * p.entry * (p.lots * s.contract.lot) <= s.context.capital * s.context.allocation
    <2> DEFINE entry == p.entry
               risk == p.riskPerLot
               lot == s.contract.lot
               context == s.context
               lots == Lots(context, entry, risk, lot)
    <2>1. /\ entry \in Nat \ {0} /\ risk \in Nat \ {0} /\ lot \in Nat \ {0}
          /\ context.capital \in Nat /\ context.risk \in Nat /\ context.allocation \in Nat
        BY <1>2, <1>3
    <2>2. p.lots = lots
        BY <1>1
    <2> HIDE DEF entry, risk, lot, context
    <2>3. /\ lots \in Int
          /\ 100 * (risk * lots) <= context.capital * context.risk
          /\ 100 * entry * (lots * lot) <= context.capital * context.allocation
        BY <2>1, LotsAfforded
    <2> HIDE DEF lots
    <2> QED
        BY <2>2, <2>3 DEF entry, risk, lot, context
<1> QED
    BY <1>1, <1>3, <1>4 DEF p

-----------------------------------------------------------------------------
(* The decision *)

\* The answer is that of the first gate that is shut, with the plan of the leading side.
LEMMA EvaluatedFields ==
    ASSUME NEW s, NEW prior, NEW pricing, NEW cost, NEW now
    PROVE  LET candidates == Candidates(s, prior, pricing)
               call == Best(candidates, "CE")
               put == Best(candidates, "PE")
               leading == IF ScoreOf(call) >= ScoreOf(put) THEN call ELSE put
               plan == IF leading = None THEN None ELSE DraftPlan(s, leading, cost, now)
               gates == Gates(s, candidates, plan, now)
               answer == Evaluated(s, prior, pricing, cost, now)
           IN  /\ answer.state = gates[Min({i \in DOMAIN gates : ~gates[i].open})].state
               /\ answer.plan = plan
<1> DEFINE candidates == Candidates(s, prior, pricing)
           call == Best(candidates, "CE")
           put == Best(candidates, "PE")
           leading == IF ScoreOf(call) >= ScoreOf(put) THEN call ELSE put
           plan == IF leading = None THEN None ELSE DraftPlan(s, leading, cost, now)
           gates == Gates(s, candidates, plan, now)
           shut == gates[Min({i \in DOMAIN gates : ~gates[i].open})]
           answer == Evaluated(s, prior, pricing, cost, now)
<1>1. answer = [state |-> shut.state, reason |-> shut.reason, ranked |-> candidates,
                call |-> ScoreOf(call), put |-> ScoreOf(put), plan |-> plan]
    BY Zenon DEF Evaluated
<1>2. answer.state = shut.state /\ answer.plan = plan
    <2> HIDE DEF shut, plan, answer, candidates, call, put
    <2> QED
        BY <1>1
<1> QED
    BY Zenon, <1>2

\* A decision to buy names the side of the leg its plan is for.  The plan is drafted for the
\* call when the scores are equal and the decision is then for the put: the gate of
\* conflicting scores keeps the two from meeting.
LEMMA BoughtCandidate ==
    ASSUME NEW s, NEW prior, NEW pricing, NEW cost, NEW now,
           Indices(s.chain) \subseteq Nat,
           \A i \in Indices(s.chain) : QuoteValid(s.chain[i]),
           \A side \in {"CE", "PE"} : pricing[side].grade \in 0 .. Full,
           Evaluated(s, prior, pricing, cost, now).state \in Actions
    PROVE  LET answer == Evaluated(s, prior, pricing, cost, now)
           IN  /\ s.contract.expiry - now > ExtremeExpiry
               /\ EventClear(s.context.event)
               /\ answer.plan # None /\ answer.plan.lots > 0
               /\ \E i \in Indices(s.chain) : \E leading :
                      /\ answer.plan = DraftPlan(s, leading, cost, now)
                      /\ leading.leg = s.chain[i] /\ leading.delta \in Nat
                      /\ leading.leg.side = IF answer.state = "BUY_CALL" THEN "CE" ELSE "PE"
<1> DEFINE candidates == Candidates(s, prior, pricing)
           call == Best(candidates, "CE")
           put == Best(candidates, "PE")
           leading == IF ScoreOf(call) >= ScoreOf(put) THEN call ELSE put
           plan == IF leading = None THEN None ELSE DraftPlan(s, leading, cost, now)
           gates == Gates(s, candidates, plan, now)
           shut == gates[Min({i \in DOMAIN gates : ~gates[i].open})]
           answer == Evaluated(s, prior, pricing, cost, now)
<1>1. answer.state = shut.state /\ answer.plan = plan
    BY EvaluatedFields
<1>2. shut.state \in Actions
    <2>1. answer.state \in Actions
        OBVIOUS
    <2> HIDE DEF answer, shut
    <2> QED
        BY <1>1, <2>1
<1>3. DOMAIN candidates = Indices(s.chain)
    BY DEF Candidates
<1>4. ASSUME NEW i \in Indices(s.chain), candidates[i].eligible,
             candidates[i].leg.side \in {"CE", "PE"}
      PROVE  /\ candidates[i].leg = s.chain[i]
             /\ candidates[i].score \in 0 .. HighestScore /\ candidates[i].delta \in Nat
    <2> DEFINE q == s.chain[i]
    <2>1. candidates[i] = Candidate(s, q, prior, pricing)
        BY Zenon DEF Candidates
    <2>2. candidates[i].leg = q
        <3> HIDE DEF candidates
        <3> QED
            BY <2>1 DEF Candidate
    <2>3. QuoteValid(q) /\ pricing[q.side].grade \in 0 .. Full
        BY <1>4, <2>2
    <2>4. Candidate(s, q, prior, pricing).eligible
        BY Zenon, <1>4, <2>1
    <2> HIDE DEF q, candidates
    <2>5. LET c == Candidate(s, q, prior, pricing)
          IN  c.score \in 0 .. HighestScore /\ c.delta \in Nat
        BY Zenon, <2>3, <2>4, EligibleScore
    <2> QED
        BY Zenon, <2>1, <2>2, <2>5 DEF q
<1> HIDE DEF candidates, answer
<1>5. ASSUME NEW side \in {"CE", "PE"}, Best(candidates, side) # None
      PROVE  \E i \in Indices(s.chain) :
                 /\ Best(candidates, side).leg = s.chain[i]
                 /\ Best(candidates, side).delta \in Nat
                 /\ Best(candidates, side).score \in 0 .. HighestScore
                 /\ Best(candidates, side).leg.side = side
    <2>1. \A i \in DOMAIN candidates :
              candidates[i].eligible /\ candidates[i].leg.side = side =>
                  candidates[i].score \in 0 .. HighestScore
        BY Zenon, <1>3, <1>4
    <2>2. PICK i \in DOMAIN candidates :
              /\ candidates[i].eligible /\ candidates[i].leg.side = side
              /\ Best(candidates, side) = candidates[i]
        BY <1>3, <1>5, <2>1, BestIsEligible
    <2>3. /\ candidates[i].leg = s.chain[i]
          /\ candidates[i].score \in 0 .. HighestScore /\ candidates[i].delta \in Nat
        BY Zenon, <1>3, <1>4, <2>2
    <2> QED
        BY Zenon, <1>3, <2>2, <2>3
<1>6. /\ call # None /\ put # None
      /\ s.contract.expiry - now > ExtremeExpiry
      /\ EventClear(s.context.event)
      /\ plan # None /\ plan.lots > 0
      /\ ~Conflicting(ScoreOf(call), ScoreOf(put))
      /\ shut.state = IF ScoreOf(call) <= ScoreOf(put) THEN "BUY_PUT" ELSE "BUY_CALL"
    <2> HIDE DEF plan
    <2> QED
        BY <1>2, BoughtThroughGates
<1> HIDE DEF shut, call, put
<1>7. PICK i \in Indices(s.chain) : /\ call.leg = s.chain[i] /\ call.delta \in Nat
                                    /\ call.score \in 0 .. HighestScore /\ call.leg.side = "CE"
    BY Zenon, <1>5, <1>6 DEF call
<1>8. PICK j \in Indices(s.chain) : /\ put.leg = s.chain[j] /\ put.delta \in Nat
                                    /\ put.score \in 0 .. HighestScore /\ put.leg.side = "PE"
    BY Zenon, <1>5, <1>6 DEF put
<1>9. ScoreOf(call) = call.score /\ ScoreOf(put) = put.score
    BY Zenon, <1>6 DEF ScoreOf
<1>10. call.score \in Nat /\ put.score \in Nat
    BY <1>7, <1>8, HighestScoreIsNumber
<1>11. call.score # put.score
    <2>1. ~Conflicting(call.score, put.score)
        BY <1>6, <1>9
    <2>2. \A n \in Nat : Conflicting(n, n)
        BY DEF Conflicting, Distance, ConflictGap, Full
    <2> QED
        BY <1>10, <2>1, <2>2
<1>12. CASE call.score > put.score
    <2>1. leading = call /\ answer.state = "BUY_CALL"
        BY <1>1, <1>6, <1>9, <1>10, <1>12
    <2>2. answer.plan = DraftPlan(s, call, cost, now)
        BY <1>1, <1>6, <2>1
    <2>3. \E m \in Indices(s.chain) : \E l :
                      /\ answer.plan = DraftPlan(s, l, cost, now)
                      /\ l.leg = s.chain[m] /\ l.delta \in Nat
                      /\ l.leg.side = IF answer.state = "BUY_CALL" THEN "CE" ELSE "PE"
        BY Zenon, <1>7, <2>1, <2>2
    <2> QED
        BY Zenon, <1>1, <1>6, <2>3 DEF answer
<1>13. CASE call.score < put.score
    <2>1. leading = put /\ answer.state = "BUY_PUT"
        BY <1>1, <1>6, <1>9, <1>10, <1>13
    <2>2. answer.plan = DraftPlan(s, put, cost, now)
        BY <1>1, <1>6, <2>1
    <2>3. \E m \in Indices(s.chain) : \E l :
                      /\ answer.plan = DraftPlan(s, l, cost, now)
                      /\ l.leg = s.chain[m] /\ l.delta \in Nat
                      /\ l.leg.side = IF answer.state = "BUY_CALL" THEN "CE" ELSE "PE"
        BY Zenon, <1>8, <2>1, <2>2
    <2> QED
        BY Zenon, <1>1, <1>6, <2>3 DEF answer
<1> QED
    BY <1>10, <1>11, <1>12, <1>13

\* A plan drafted from an accepted snapshot past the gates is one the controller takes.
LEMMA DraftIsExecutable ==
    ASSUME NEW s, NEW now \in Int, NEW known, NEW cost \in Nat, NEW leading,
           NEW i \in Indices(s.chain),
           Accepts(s, now, known),
           s.contract.expiry - now > ExtremeExpiry,
           EventClear(s.context.event),
           leading.leg = s.chain[i], leading.delta \in Nat,
           DraftPlan(s, leading, cost, now).lots > 0
    PROVE  LET p == DraftPlan(s, leading, cost, now)
               x == s.context
               t == ExecutionPlan(p, s)
           IN  /\ PlanValid(t, now)
               /\ 100 * t.maxLoss <= x.capital * x.risk
               /\ 100 * t.limit * t.quantity <= x.capital * x.allocation
               /\ 0 <= p.stop /\ p.stop < p.entry /\ p.entry < p.targets[1]
               /\ p.targets[1] < p.targets[2] /\ p.targets[2] < p.targets[3]
               /\ \A v \in {p.entry, p.stop, p.targets[1], p.targets[2], p.targets[3]} :
                     v % s.contract.tick = 0
<1> DEFINE p == DraftPlan(s, leading, cost, now)
           t == ExecutionPlan(p, s)
           tick == s.contract.tick
           lot == s.contract.lot
           expiry == s.contract.expiry
           x == s.context
<1>1. /\ tick \in Nat \ {0} /\ lot \in Nat \ {0} /\ expiry \in Int
    BY DEF Accepts, ContractValid, Positive, Aware
<1>2. s.technicals.atr \in Nat
    BY DEF Accepts, TechnicalsValid, Positive
<1>3. x.capital \in Nat /\ x.risk \in Nat /\ x.allocation \in Nat
    BY RulesAssumption DEF Accepts, ContextValid, Positive
<1>4. leading.leg.ask \in Nat \ {0} /\ leading.leg.expiry = expiry
    BY DEF Accepts, ChainValid, QuoteValid, Positive
<1>5. s.at \in Int /\ AgeWithin(s.at, now, MaxAge)
    BY DEF Accepts, EnvelopeValid, Aware
<1>6. PICK e \in Nat, k \in Nat :
          /\ k < e /\ p.entry = e * tick /\ p.stop = k * tick
          /\ p.targets[1] = (e + (e - k) * 1) * tick
          /\ p.targets[2] = (e + (e - k) * 2) * tick
          /\ p.targets[3] = (e + (e - k) * 3) * tick
    BY <1>1, <1>2, <1>4, DraftedPrices
<1>7. /\ p.side = leading.leg.side /\ p.expiry = expiry /\ p.at = now
      /\ p.quantity = p.lots * lot
    BY <1>4, DraftedFields
<1> HIDE DEF tick
<1>8. p.entry \in Nat /\ p.stop \in Nat /\ p.stop < p.entry
    <2>1. e * tick \in Nat /\ k * tick \in Nat /\ k * tick < e * tick
        BY <1>1, <1>6, SMT
    <2> QED
        BY <1>6, <2>1
<1>9. /\ p.riskPerLot \in Nat \ {0} /\ p.lots \in Int
      /\ 100 * (p.riskPerLot * p.lots) <= x.capital * x.risk
      /\ 100 * p.entry * p.quantity <= x.capital * x.allocation
    BY <1>1, <1>3, <1>8, DraftedSize
<1>10. p.lots \in Nat \ {0}
    BY <1>9
<1> HIDE DEF p
<1>11. /\ t.quantity = p.quantity /\ t.limit = p.entry /\ t.maxLoss = p.riskPerLot * p.lots
       /\ t.signalTime = now /\ t.dataTime = s.at /\ t.expiry = expiry
       /\ t.validUntil = Least(expiry, now + Validity)
       /\ t.event = s.context.event /\ t.expiryClear = (expiry - now > ExpiryBuffer)
    BY <1>7 DEF ExecutionPlan
<1> HIDE DEF t
<1>12. expiry - now > ExtremeExpiry
    OBVIOUS
<1>13. PlanValid(t, now)
    <2>1. p.quantity > 0 /\ p.entry > 0
        <3>1. p.lots * lot > 0
            BY <1>1, <1>10, SMT
        <3> QED
            BY <1>7, <1>8, <3>1
    <2>2. p.riskPerLot * p.lots > 0
        BY <1>9, <1>10, SMT
    <2>3. now - now <= FutureSkew
        BY RulesAssumption
    <2>4. Least(expiry, now + Validity) > now
        BY <1>1, <1>12 DEF Least, Validity, ExtremeExpiry
    <2>5. expiry - now > ExpiryBuffer
        BY <1>1, <1>12 DEF ExpiryBuffer, ExtremeExpiry
    <2>6. s.context.event = "clear"
        BY DEF EventClear
    <2> QED
        BY <1>5, <1>11, <2>1, <2>2, <2>3, <2>4, <2>5, <2>6 DEF PlanValid
<1>14. 100 * t.maxLoss <= x.capital * x.risk
    BY <1>9, <1>11
<1>15. 100 * t.limit * t.quantity <= x.capital * x.allocation
    BY <1>9, <1>11
<1>16. p.entry < p.targets[1] /\ p.targets[1] < p.targets[2] /\ p.targets[2] < p.targets[3]
    <2>1. (e + (e - k) * 0) * tick < (e + (e - k) * (0 + 1)) * tick
        BY <1>1, <1>6, TargetsRise
    <2>2. (e + (e - k) * 1) * tick < (e + (e - k) * (1 + 1)) * tick
        BY <1>1, <1>6, TargetsRise
    <2>3. (e + (e - k) * 2) * tick < (e + (e - k) * (2 + 1)) * tick
        BY <1>1, <1>6, TargetsRise
    <2> QED
        BY <1>6, <2>1, <2>2, <2>3
<1>17. ASSUME NEW v \in {p.entry, p.stop, p.targets[1], p.targets[2], p.targets[3]}
       PROVE  v % tick = 0
    <2>1. PICK n \in Int : v = n * tick
        <3>1. ASSUME NEW m \in Nat
              PROVE  e + (e - k) * m \in Int
            BY SMT
        <3>2. /\ e + (e - k) * 1 \in Int /\ e + (e - k) * 2 \in Int
              /\ e + (e - k) * 3 \in Int /\ e \in Int /\ k \in Int
            BY <3>1
        <3>3. v \in {e * tick, k * tick, (e + (e - k) * 1) * tick,
                     (e + (e - k) * 2) * tick, (e + (e - k) * 3) * tick}
            BY <1>6
        <3> QED
            BY <3>2, <3>3
    <2> QED
        BY <1>1, <2>1, MultipleOfTick
<1>18. 0 <= p.stop /\ p.stop < p.entry
    BY <1>8
<1> QED
    BY <1>13, <1>14, <1>15, <1>16, <1>17, <1>18 DEF p, t, tick

\* Whatever the snapshot, the prior, the grades of the model and the sizes, a decision to buy
\* carries a plan the execution controller takes, of the side it names, within the risk and the
\* allocation, with prices in order and on ticks (signals/pipeline.py, signals/adapters.py).
THEOREM ActionTheorem == Spec => []ActionIsExecutable
<1>1. SnapshotIsBuilt /\ VerdictHolds => ActionIsExecutable
    <2> SUFFICES ASSUME SnapshotIsBuilt, VerdictHolds, analysis # None,
                        analysis.state \in Actions
                 PROVE  ActionIsExecutable
        BY DEF ActionIsExecutable
    <2>1. /\ accepted /\ snapshot = Built /\ Accepts(snapshot, Now, Known)
          /\ Normalisable(input.legs, input.contract)
        BY DEF VerdictHolds
    <2>2. PICK pricing \in Pricings :
              analysis = Evaluated(snapshot, input.prior, pricing, Cost, Now)
        BY DEF VerdictHolds
    <2>3. Indices(snapshot.chain) \subseteq Nat
        <3>1. Indices(input.legs) \subseteq Nat
            BY InputsAssumption DEF SnapshotIsBuilt
        <3>2. Indices(snapshot.chain) = Indices(Kept(input.legs, input.contract))
            BY <2>1 DEF Built, NormalizedChain, Indices
        <3>3. Indices(Kept(input.legs, input.contract)) \subseteq Indices(input.legs)
            BY DEF Kept, Indices
        <3> QED
            BY <3>1, <3>2, <3>3
    <2>4. Now \in Int
        BY <2>1 DEF Now, Built, Accepts, EnvelopeValid, Aware
    <2>5. \A i \in Indices(snapshot.chain) : QuoteValid(snapshot.chain[i])
        BY <2>1 DEF Accepts, ChainValid
    <2>6. Cost \in Nat /\ \A side \in {"CE", "PE"} : pricing[side].grade \in 0 .. Full
        BY ModelAssumption
    <2>7. /\ snapshot.contract.expiry - Now > ExtremeExpiry
          /\ EventClear(snapshot.context.event)
          /\ analysis.plan # None /\ analysis.plan.lots > 0
          /\ \E i \in Indices(snapshot.chain) : \E leading :
                 /\ analysis.plan = DraftPlan(snapshot, leading, Cost, Now)
                 /\ leading.leg = snapshot.chain[i] /\ leading.delta \in Nat
                 /\ leading.leg.side = IF analysis.state = "BUY_CALL" THEN "CE" ELSE "PE"
        BY <2>2, <2>3, <2>5, <2>6, BoughtCandidate
    <2>witness. PICK i \in Indices(snapshot.chain) :
               \E leading :
                  /\ analysis.plan = DraftPlan(snapshot, leading, Cost, Now)
                  /\ leading.leg = snapshot.chain[i] /\ leading.delta \in Nat
                  /\ leading.leg.side = IF analysis.state = "BUY_CALL" THEN "CE" ELSE "PE"
        BY <2>7
    <2>8. PICK leading :
              /\ analysis.plan = DraftPlan(snapshot, leading, Cost, Now)
              /\ leading.leg = snapshot.chain[i] /\ leading.delta \in Nat
              /\ leading.leg.side = IF analysis.state = "BUY_CALL" THEN "CE" ELSE "PE"
        BY <2>witness
    <2>9. analysis.plan.side = IF analysis.state = "BUY_CALL" THEN "CE" ELSE "PE"
        BY <2>8, DraftedFields
    <2>10. DraftPlan(snapshot, leading, Cost, Now).lots > 0
        BY <2>7, <2>8
    <2> DEFINE p == analysis.plan
               x == snapshot.context
               t == ExecutionPlan(p, snapshot)
    <2>11. /\ PlanValid(t, Now)
           /\ 100 * t.maxLoss <= x.capital * x.risk
           /\ 100 * t.limit * t.quantity <= x.capital * x.allocation
           /\ 0 <= p.stop /\ p.stop < p.entry /\ p.entry < p.targets[1]
           /\ p.targets[1] < p.targets[2] /\ p.targets[2] < p.targets[3]
           /\ \A v \in {p.entry, p.stop, p.targets[1], p.targets[2], p.targets[3]} :
                 v % snapshot.contract.tick = 0
        BY <2>1, <2>4, <2>6, <2>7, <2>8, <2>10, DraftIsExecutable
    <2> QED
        BY <2>1, <2>7, <2>9, <2>11 DEF ActionIsExecutable
<1> QED
    BY <1>1, BuiltInductive, VerdictInductive, PTL
=============================================================================
