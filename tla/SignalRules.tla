---------------------------- MODULE SignalRules -----------------------------
(***************************************************************************)
(* How an accepted snapshot becomes a decision and a plan: the scoring of  *)
(* every leg (signals/pipeline.py), the gates and the sizing               *)
(* (strategy/spec.py), the plan handed to execution (signals/adapters.py)  *)
(* and what the execution controller asks of it.                           *)
(*                                                                         *)
(* A factor, 0 to 1 in the code, is a share of Full, rounded down.  The    *)
(* pricing formulas (analytics/pricing.py) are abstracted: `pricing` gives *)
(* each side the delta of its nearest strike, in percent, and one grade    *)
(* for the three factors computed from the model.                          *)
(***************************************************************************)
EXTENDS SnapshotRules, SequencesExt

Full == 600

\* ScoreWeights; greeks, volatility and risk_reward weigh 35 together.
Weights == [trend |-> 20, premium |-> 15, interest |-> 15, liquidity |-> 15, modelled |-> 35]

MinVolume == 1000
MinInterest == 1000
MaxSpread == 3          \* percent of the ask
MinLiquidity == 60
Watchlist == 65
Tradable == 75
ConflictGap == 8
ExtremeExpiry == 9 * 3600
PremiumStop == 20       \* percent of the ask
RMultiples == <<1, 2, 3>>
Saturation == 2         \* percent of the premium
Validity == 30
ExpiryBuffer == 15 * 60

DeltaRange(style) == IF style = "POSITIONAL" THEN 55 .. 75 ELSE 45 .. 70

Least(a, b) == IF a < b THEN a ELSE b
Greatest(a, b) == IF a < b THEN b ELSE a
Clamp(v) == Least(Full, Greatest(0, v))
Count(conditions) == Cardinality({i \in DOMAIN conditions : conditions[i]})

\* _round_up, _round_down
RoundUp(v, tick) == ((v + tick - 1) \div tick) * tick
RoundDown(v, tick) == (v \div tick) * tick

-----------------------------------------------------------------------------
(* Scoring a leg *)

\* A stand-in for the delta of black_scholes and black_76: it falls with every strike out of
\* the money.
Delta(s, leg, pricing) ==
    LET atm == NearestAtm(PricingUnderlying(s), {s.chain[i].strike : i \in Indices(s.chain)})
        out == (leg.strike - atm) \div s.contract.interval
    IN  Least(99, Greatest(1, pricing[leg.side].delta
                              - 10 * (IF leg.side = "CE" THEN out ELSE -out)))

\* liquidity_score
LiquidityScore(q) ==
    (IF q.ask < q.bid THEN 0
     ELSE (300 * Greatest(0, MaxSpread * q.ask - 100 * (q.ask - q.bid))) \div (MaxSpread * q.ask))
    + (150 * Least(q.volume, MinVolume)) \div MinVolume
    + (150 * Least(q.oi, MinInterest)) \div MinInterest

LiquidityReasons(q) ==
    LET hard == {r \in {"WIDE_SPREAD", "LOW_VOLUME", "LOW_OPEN_INTEREST"} :
                    \/ r = "WIDE_SPREAD" /\ 100 * (q.ask - q.bid) > MaxSpread * q.ask
                    \/ r = "LOW_VOLUME" /\ q.volume < MinVolume
                    \/ r = "LOW_OPEN_INTEREST" /\ q.oi < MinInterest}
    IN  IF hard = {} /\ 100 * LiquidityScore(q) < MinLiquidity * Full
        THEN {"LIQUIDITY_SCORE_BELOW_MINIMUM"} ELSE hard

\* _previous_by_security: the prior leg of the same security, or None.
PreviousLeg(s, leg, prior) ==
    LET like == {p \in (IF prior = None THEN {} ELSE ToSet(prior.chain)) : p.sid = leg.sid}
    IN  IF /\ like # {} /\ prior.contract = s.contract
           /\ prior.seq < s.seq /\ s.at - prior.at \in 1 .. MaxAge
        THEN CHOOSE p \in like : TRUE ELSE None

\* A leg of a snapshot that was not accepted may have no premium to move from.
HasPremium(p) == p # None /\ Positive(p.ltp)

\* The comparisons of a trend that support the side, of six.
TrendSupports(s, side) ==
    LET u == PricingUnderlying(s)
        t == s.technicals
        m == s.market
        up == <<u > t.ema9, t.ema9 > t.ema21, t.ema21 > t.wma44, t.wma44 > t.wma44Before>>
    IN  Count([i \in 1 .. 4 |-> up[i] = (side = "CE")])
        + Count(<<t.rsi \in (IF side = "CE" THEN 50 .. 75 ELSE 25 .. 50),
                  \/ m.spot = None
                  \/ IF side = "CE" THEN m.futures >= m.spot ELSE m.futures <= m.spot>>)

PremiumFactor(q, p) == Clamp(Full \div 2 + (Full * 50 * (q.ltp - p.ltp)) \div (Saturation * p.ltp))

InterestFactor(q, p) ==
    IF q.ltp > p.ltp THEN (IF q.change > 0 THEN Full ELSE (70 * Full) \div 100)
    ELSE IF q.change > 0 THEN Full \div 4 ELSE 0

\* There is a prior leg to compare with, and the normaliser found it too.
Comparable(q, p) == HasPremium(p) /\ q.change # None

\* _factors: None when there is nothing to compare with.
Evidence(s, q, p, pricing) ==
    IF ~Comparable(q, p) THEN None
    ELSE [trend |-> Clamp((TrendSupports(s, q.side) * Full) \div 6),
          premium |-> PremiumFactor(q, p),
          interest |-> InterestFactor(q, p),
          liquidity |-> Clamp(LiquidityScore(q)),
          modelled |-> pricing[q.side].grade]

\* weighted_score
Score(evidence) ==
    IF evidence = None THEN 0
    ELSE Weights.trend * evidence.trend + Weights.premium * evidence.premium
         + Weights.interest * evidence.interest + Weights.liquidity * evidence.liquidity
         + Weights.modelled * evidence.modelled

\* What is held against a leg of an accepted snapshot, whose quote is complete and has a delta.
Reasons(s, q, p, pricing) ==
    LiquidityReasons(q)
    \cup (IF HasPremium(p) THEN {} ELSE {"PREVIOUS_SNAPSHOT_REQUIRED"})
    \cup (IF Delta(s, q, pricing) \in DeltaRange(s.context.style) THEN {}
          ELSE {"DELTA_OUT_OF_RANGE"})

\* _score_candidate
Candidate(s, q, prior, pricing) ==
    LET p == PreviousLeg(s, q, prior)
        evidence == Evidence(s, q, p, pricing)
        reasons == Reasons(s, q, p, pricing)
    IN  [leg |-> q, delta |-> Delta(s, q, pricing), evidence |-> evidence,
         score |-> Score(evidence), reasons |-> reasons,
         eligible |-> reasons = {} /\ Comparable(q, p)]

Candidates(s, prior, pricing) ==
    [i \in Indices(s.chain) |-> Candidate(s, s.chain[i], prior, pricing)]

\* _best: of the eligible legs of a side the first with the highest score, or None.
Best(candidates, side) ==
    LET eligible == {i \in DOMAIN candidates :
                        candidates[i].eligible /\ candidates[i].leg.side = side}
        highest == {i \in eligible :
                        \A j \in eligible : candidates[i].score >= candidates[j].score}
    IN  IF eligible = {} THEN None ELSE candidates[Min(highest)]

ScoreOf(best) == IF best = None THEN 0 ELSE best.score

-----------------------------------------------------------------------------
(* The plan *)

\* _risk_distance, in hundredths.
RiskDistance(s, candidate) ==
    Greatest(100 * s.contract.tick,
             Least(PremiumStop * candidate.leg.ask, s.technicals.atr * candidate.delta))

\* calculate_position_size
Lots(context, entry, riskPerLot, lotSize) ==
    Least((context.capital * context.risk) \div (100 * riskPerLot),
          (context.capital * context.allocation) \div (100 * entry * lotSize))

\* _draft_plan
DraftPlan(s, candidate, cost, now) ==
    LET tick == s.contract.tick
        entry == RoundUp(candidate.leg.ask, tick)
        raw == Greatest(100 * tick, 100 * entry - RiskDistance(s, candidate))
        stop == Least(entry - tick, RoundUp(raw, 100 * tick) \div 100)
        riskPerLot == (entry - stop) * s.contract.lot + cost
        lots == Lots(s.context, entry, riskPerLot, s.contract.lot)
    IN  [snapshot |-> s.id, sid |-> candidate.leg.sid, side |-> candidate.leg.side,
         expiry |-> candidate.leg.expiry, at |-> now,
         entry |-> entry, stop |-> stop,
         targets |-> [i \in DOMAIN RMultiples |->
                         RoundDown(entry + (entry - stop) * RMultiples[i], tick)],
         lots |-> lots, quantity |-> lots * s.contract.lot, riskPerLot |-> riskPerLot]

-----------------------------------------------------------------------------
(* The decision *)

\* confirm_price_action, for the leading side.
PriceConfirmed(s, side) ==
    IF side = "CE" THEN PricingUnderlying(s) > s.context.high
    ELSE PricingUnderlying(s) < s.context.low

\* Bug: event risk that is not known to be absent does not block.
EventClearUnlessActive(event) == event # "active"

\* resolve_decision: `event_risk_active is not False`
EventClear(event) == event = "clear"

Conflicting(call, put) == Distance(call, put) < ConflictGap * Full

\* resolve_decision: in this order the gates of an accepted snapshot.
Gates(s, candidates, plan, now) ==
    LET call == Best(candidates, "CE")
        put == Best(candidates, "PE")
        c == ScoreOf(call)
        p == ScoreOf(put)
        leading == IF c >= p THEN "CE" ELSE "PE"
        left == s.contract.expiry - now
        Gate(open, state, reason) == [open |-> open, state |-> state, reason |-> reason]
    IN  << Gate(call # None /\ put # None, "INSUFFICIENT_DATA", "DATA_INCOMPLETE"),
           Gate(AgeWithin(s.at, now, MaxAge), "NO_TRADE", "DATA_STALE"),
           Gate(left > 0, "NO_TRADE", "INVALID_EXPIRY"),
           Gate(left > ExtremeExpiry, "NO_TRADE", "EXTREME_EXPIRY_RISK"),
           Gate(EventClear(s.context.event), "NO_TRADE", "EVENT_RISK"),
           Gate(\E i \in DOMAIN candidates : candidates[i].eligible,
                "NO_TRADE", "NO_LIQUID_STRIKE"),
           Gate(plan # None /\ (plan # None => plan.lots > 0), "NO_TRADE", "NOT_AFFORDABLE"),
           Gate(Greatest(c, p) >= Watchlist * Full, "NO_TRADE", "BELOW_WATCHLIST_SCORE"),
           Gate(Greatest(c, p) >= Tradable * Full, "WAIT", "WATCHLIST_ONLY"),
           Gate(~Conflicting(c, p), "WAIT", "CONFLICTING_SCORES"),
           Gate(s.context.mode # "QUICK", "WAIT", "QUICK_MODE_ONLY"),
           Gate(PriceConfirmed(s, leading), "WAIT", "PRICE_ACTION_PENDING"),
           Gate(c <= p, "BUY_CALL", "BULLISH_CONFIRMED"),
           Gate(FALSE, "BUY_PUT", "BEARISH_CONFIRMED") >>

Actions == {"BUY_CALL", "BUY_PUT"}

\* SignalPipeline.evaluate, for an accepted snapshot.
Evaluated(s, prior, pricing, cost, now) ==
    LET candidates == Candidates(s, prior, pricing)
        call == Best(candidates, "CE")
        put == Best(candidates, "PE")
        leading == IF ScoreOf(call) >= ScoreOf(put) THEN call ELSE put
        plan == IF leading = None THEN None ELSE DraftPlan(s, leading, cost, now)
        gates == Gates(s, candidates, plan, now)
        shut == gates[Min({i \in DOMAIN gates : ~gates[i].open})]
    IN  [state |-> shut.state, reason |-> shut.reason, ranked |-> candidates,
         call |-> ScoreOf(call), put |-> ScoreOf(put), plan |-> plan]

-----------------------------------------------------------------------------
(* The plan that is executed *)

\* to_execution_plan
ExecutionPlan(plan, s) ==
    [sid |-> plan.sid, quantity |-> plan.quantity, limit |-> plan.entry,
     maxLoss |-> plan.riskPerLot * plan.lots,
     signalTime |-> plan.at, dataTime |-> s.at,
     validUntil |-> Least(plan.expiry, plan.at + Validity),
     expiry |-> plan.expiry, event |-> s.context.event,
     expiryClear |-> plan.expiry - plan.at > ExpiryBuffer]

\* ExecutionController._validate_plan, apart from the limits of the policy, the registry and
\* what the ledger already holds.
PlanValid(p, now) ==
    /\ p.quantity > 0 /\ p.limit > 0 /\ p.maxLoss > 0
    /\ AgeWithin(p.dataTime, now, MaxAge)
    /\ p.signalTime - now <= FutureSkew
    /\ p.validUntil > now
    /\ p.event = "clear"
    /\ p.expiryClear
    /\ p.expiry - now > ExpiryBuffer
=============================================================================
