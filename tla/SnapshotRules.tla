--------------------------- MODULE SnapshotRules ----------------------------
(***************************************************************************)
(* The rules a market snapshot meets before anything is decided on it:     *)
(* how Dhan's chain is normalised (ingestion/normalization.py), what the   *)
(* validator accepts (ingestion/validation.py), what the tables take       *)
(* (persistence/sqlite.py) and what the analytics ask for                  *)
(* (analytics/chain.py).  Four files state overlapping rules in their own  *)
(* words: here each is a predicate over the same records.                  *)
(*                                                                         *)
(* A price, a quantity or a ratio is a natural number, None when absent    *)
(* and NaN when not finite; a time is a number of seconds, Naive without a *)
(* timezone.  Security and contract ids are compared, never read.          *)
(***************************************************************************)
EXTENDS Integers, Sequences, FiniteSets

CONSTANTS
    None, NaN, Naive,
    Malformed,       \* a payload value of another type, or not finite
    MaxAge,          \* live_max_age_seconds and DEFAULT_CHANGE_OI_MAX_INTERVAL
    MaxInterval,     \* _MAX_CHANGE_OI_INTERVAL_SECONDS
    ComponentSkew,   \* component_skew_seconds
    FutureSkew,      \* future_clock_skew_seconds
    MasterMaxAge,    \* instrument_master_max_age_seconds
    MaxRisk          \* maximum_risk_per_trade, in percent of the capital

\* Three modules keep the bound of an interval of open interest, each for itself.
ASSUME RulesAssumption ==
    /\ MaxAge \in Nat \ {0} /\ MaxInterval \in Nat /\ MaxAge <= MaxInterval
    /\ ComponentSkew \in Nat /\ FutureSkew \in Nat /\ MasterMaxAge \in Nat
    /\ MaxRisk \in 1 .. 2
    /\ None \notin Int /\ Malformed \notin Int /\ Naive \notin Int

Positive(v) == v \in Nat \ {0}
NonNegative(v) == v \in Nat
Aware(t) == t \in Int

\* The age of what was observed at t lies between a clock skew ahead and a limit.
AgeWithin(t, now, limit) == now - t \in -FutureSkew .. limit

Distance(a, b) == IF a < b THEN b - a ELSE a - b

Indices(sequence) == DOMAIN sequence
Key(leg) == <<leg.strike, leg.side>>
KeysOf(legs) == {Key(legs[i]) : i \in Indices(legs)}
Unique(Field(_), legs) ==
    \A i, j \in Indices(legs) : Field(legs[i]) = Field(legs[j]) => i = j

\* The instrument whose price moves the options.
PricingUnderlying(s) ==
    IF s.contract.kind = "COMMODITY" THEN s.market.futures ELSE s.market.spot

\* Of the nearest listed strikes the lower.
NearestAtm(price, strikes) ==
    CHOOSE k \in strikes :
        \A o \in strikes \ {k} :
            \/ Distance(k, price) < Distance(o, price)
            \/ Distance(k, price) = Distance(o, price) /\ k < o

\* Both sides of ATM-2 through ATM+2.
RequiredKeys(s) ==
    LET strikes == {s.chain[i].strike : i \in Indices(s.chain)}
        atm == NearestAtm(PricingUnderlying(s), strikes)
    IN  {atm + offset * s.contract.interval : offset \in -2 .. 2} \X {"CE", "PE"}

-----------------------------------------------------------------------------
(* Normalisation *)

\* Dhan sends its whole chain, of which the strikes of the contract are kept, each under its
\* index in the payload: the order is what matters of them.
Kept(legs, contract) ==
    LET Listed(leg) == \E i \in Indices(contract.options) :
                           contract.options[i].strike = leg.strike
    IN  [i \in {j \in Indices(legs) : Listed(legs[j])} |-> legs[i]]

\* integer_value, decimal_value, float_value: what is neither absent nor a number raises
\* NormalizationError.
Normalisable(legs, contract) ==
    \A i \in Indices(Kept(legs, contract)) :
        LET leg == Kept(legs, contract)[i]
        IN  /\ \A f \in {"volume", "oi"} : leg[f] = None \/ leg[f] \in Int
            /\ \A f \in {"bid", "ask", "ltp", "iv"} : leg[f] # Malformed

\* Bug: an interval of any length.
IntervalUsableAlways(current, previous) ==
    Aware(current) /\ Aware(previous) /\ current > previous

\* Bug: an interval of the full length is refused.
IntervalUsableShort(current, previous) ==
    Aware(current) /\ Aware(previous) /\ current - previous \in 1 .. MaxAge - 1

\* _strict_interval_seconds
IntervalUsable(current, previous) ==
    Aware(current) /\ Aware(previous) /\ current - previous \in 1 .. MaxAge

\* _compatible_previous_quotes, for one leg.  The legs of a normalised snapshot are all
\* observed at its source time, and their keys are unique once it is accepted.
PriorLegs(leg, contract, seq, at, previous) ==
    IF previous = None THEN {}
    ELSE {p \in {previous.chain[i] : i \in Indices(previous.chain)} :
             /\ previous.contract = contract
             /\ previous.seq < seq
             /\ IntervalUsable(at, previous.at)
             /\ Key(p) = Key(leg)
             /\ p.sid = leg.sid /\ p.expiry = contract.expiry
             /\ p.oi # None /\ leg.oi # None}

\* A leg with its change of open interest, when a prior leg gives it one.
NormalizedLeg(leg, contract, seq, at, previous) ==
    LET priors == PriorLegs(leg, contract, seq, at, previous)
        plain == [sid |-> leg.sid, strike |-> leg.strike, side |-> leg.side,
                  expiry |-> contract.expiry, at |-> at,
                  bid |-> leg.bid, ask |-> leg.ask, ltp |-> leg.ltp,
                  volume |-> leg.volume, oi |-> leg.oi, iv |-> leg.iv,
                  change |-> None, ref |-> None, gap |-> None]
    IN  IF priors = {} THEN plain
        ELSE [plain EXCEPT !.change = leg.oi - (CHOOSE p \in priors : TRUE).oi,
                           !.ref = previous.id,
                           !.gap = at - previous.at]

\* The result is sorted, and so is the payload here.
NormalizedChain(legs, contract, seq, at, previous) ==
    LET kept == Kept(legs, contract)
    IN  [i \in Indices(kept) |-> NormalizedLeg(kept[i], contract, seq, at, previous)]

-----------------------------------------------------------------------------
(* Validation: no error of SnapshotValidator *)

\* _validate_envelope.  The content hashes agree because AtomicSnapshot computes them and
\* build_dhan_snapshot keeps the payload beside its hash.
EnvelopeValid(s, now) ==
    /\ NonNegative(s.seq)
    /\ Aware(s.at) /\ Aware(s.received)
    /\ AgeWithin(s.at, now, MaxAge)
    /\ s.received - s.at >= -FutureSkew

\* The master rows a contract was read from.
MasterValid(master, now) ==
    /\ master.named /\ master.digest /\ Positive(master.rows)
    /\ Aware(master.fetched) /\ AgeWithin(master.fetched, now, MasterMaxAge)

PolicyValid(c) ==
    IF c.kind = "COMMODITY" THEN c.exchange = "MCX" /\ c.model = "BLACK_76"
    ELSE c.exchange # "MCX" /\ c.model = "BLACK_SCHOLES"

\* The one underlying id on which the option records agree, or None.
FamilyId(c) ==
    LET ids == {c.options[i].family : i \in Indices(c.options)}
    IN  IF Cardinality(ids) = 1 THEN CHOOSE id \in ids : TRUE ELSE None

\* What a derivative of the contract names as its underlying.
RequiredFamily(c) == IF c.kind = "STOCK" THEN c.underlying ELSE FamilyId(c)

\* _validate_future_record
FutureValid(c) ==
    LET f == c.futures
    IN  /\ f # None
        /\ f.exchange = c.exchange /\ f.future
        /\ c.kind = "COMMODITY" => f.sid = c.underlying
        /\ RequiredFamily(c) # None /\ f.family = RequiredFamily(c)
        /\ Aware(f.expiry) /\ f.expiry >= c.expiry
        /\ f.lot = c.lot

\* An option record of the master.
OptionRecordValid(c, o) ==
    /\ Positive(o.strike) /\ o.side # None
    /\ o.exchange = c.exchange
    /\ RequiredFamily(c) # None /\ o.family = RequiredFamily(c)
    /\ o.expiry = c.expiry /\ o.lot = c.lot /\ o.tick = c.tick

ContractValid(c, now) ==
    /\ Aware(c.expiry) /\ c.expiry > now
    /\ Positive(c.lot) /\ Positive(c.interval) /\ Positive(c.tick)
    /\ MasterValid(c.master, now)
    /\ PolicyValid(c)
    /\ FutureValid(c)
    /\ \A i \in Indices(c.options) : OptionRecordValid(c, c.options[i])
    /\ Unique(Key, c.options)
    /\ Unique(LAMBDA o : o.sid, c.options)

\* Bug: the price of the future is not asked for.
MarketValidWithoutFuture(s) ==
    /\ Aware(s.market.at)
    /\ Positive(PricingUnderlying(s))
    /\ \A f \in {"close", "open", "high", "low", "vwap"} : Positive(s.market[f])
    /\ s.market.high >= s.market.low

\* _validate_market
MarketValid(s) ==
    /\ Aware(s.market.at)
    /\ Positive(PricingUnderlying(s)) /\ Positive(s.market.futures)
    /\ \A f \in {"close", "open", "high", "low", "vwap"} : Positive(s.market[f])
    /\ s.market.high >= s.market.low

\* _validate_technicals
TechnicalsValid(t) ==
    /\ Aware(t.at) /\ t.completed
    /\ \A f \in {"ema9", "ema21", "wma44", "wma44Before", "atr", "volatility"} : Positive(t[f])
    /\ t.rsi \in 0 .. 100

\* _validate_context
ContextValid(x) ==
    /\ Positive(x.capital)
    /\ x.risk \in 1 .. MaxRisk
    /\ x.allocation \in 1 .. 100
    /\ Positive(x.high) /\ Positive(x.low) /\ x.high >= x.low
    /\ Positive(x.holding)

\* _validate_quote, without its change of open interest.
QuoteValid(q) ==
    /\ Aware(q.expiry) /\ Aware(q.at)
    /\ \A f \in {"strike", "bid", "ask", "ltp", "iv"} : Positive(q[f])
    /\ q.ask >= q.bid
    /\ NonNegative(q.volume) /\ NonNegative(q.oi)

\* The accepted snapshot the loader returns for an id.
ReferenceOf(id, accepted) ==
    IF \E r \in accepted : r.id = id THEN CHOOSE r \in accepted : r.id = id ELSE None

LegsLike(q, r) ==
    {i \in Indices(r.chain) :
        /\ r.chain[i].sid = q.sid /\ Key(r.chain[i]) = Key(q)
        /\ r.chain[i].expiry = q.expiry}

\* _validate_change_oi_reference, and the rules of _validate_quote on its provenance.
ChangeValid(s, q, accepted) ==
    LET r == ReferenceOf(q.ref, accepted)
    IN  IF q.change = None THEN q.ref = None /\ q.gap = None
        ELSE /\ q.ref # s.id
             /\ q.gap \in 1 .. MaxAge
             /\ r # None
             /\ r.contract = s.contract /\ r.seq < s.seq
             /\ Cardinality(LegsLike(q, r)) = 1
             /\ LET p == r.chain[CHOOSE i \in LegsLike(q, r) : TRUE]
                IN  /\ s.at = q.at /\ r.at = p.at
                    /\ q.gap = q.at - p.at
                    /\ p.oi # None /\ q.oi # None /\ q.change = q.oi - p.oi

\* A leg is the option the master maps to its strike and side.
MappedIn(c, q) ==
    \E i \in Indices(c.options) : Key(c.options[i]) = Key(q) /\ c.options[i].sid = q.sid

\* _validate_chain
ChainValid(s, accepted) ==
    LET options == {s.contract.options[i] : i \in Indices(s.contract.options)}
    IN  /\ s.chain # <<>>
        /\ Unique(Key, s.chain) /\ Unique(LAMBDA q : q.sid, s.chain)
        /\ \A i \in Indices(s.chain) :
              LET q == s.chain[i]
              IN  /\ q.sid # None
                  /\ MappedIn(s.contract, q)
                  /\ q.expiry = s.contract.expiry
                  /\ QuoteValid(q)
                  /\ ChangeValid(s, q, accepted)
        /\ Cardinality({s.chain[i].strike : i \in Indices(s.chain)}) >= 5
        /\ RequiredKeys(s) \subseteq {Key(o) : o \in options} \cap KeysOf(s.chain)

ComponentTimes(s) ==
    {s.at, s.market.at, s.technicals.at} \cup {s.chain[i].at : i \in Indices(s.chain)}

\* Bug: the components are compared with each other only.
CoherentWithoutAge(s, now) ==
    \A t, u \in ComponentTimes(s) : Distance(t, u) <= ComponentSkew

\* _validate_component_coherence
Coherent(s, now) ==
    /\ \A t \in ComponentTimes(s) : AgeWithin(t, now, MaxAge)
    /\ \A t, u \in ComponentTimes(s) : Distance(t, u) <= ComponentSkew

\* validate: the report accepts the snapshot.
Accepts(s, now, accepted) ==
    /\ EnvelopeValid(s, now)
    /\ ContractValid(s.contract, now)
    /\ MarketValid(s)
    /\ TechnicalsValid(s.technicals)
    /\ ContextValid(s.context)
    /\ ChainValid(s, accepted)
    /\ Coherent(s, now)

-----------------------------------------------------------------------------
(* Storage: what the tables and the transaction demand of an accepted snapshot *)

\* The CHECK and NOT NULL constraints of the component tables.
ColumnsHold(s) ==
    /\ s.market.spot = None \/ Positive(s.market.spot)
    /\ \A f \in {"futures", "close", "open", "high", "low", "vwap"} : Positive(s.market[f])
    /\ s.market.high >= s.market.low
    /\ \A f \in {"ema9", "ema21", "wma44", "wma44Before", "atr", "volatility"} :
          Positive(s.technicals[f])
    /\ s.technicals.rsi \in 0 .. 100
    /\ s.technicals.timeframe /\ s.technicals.completed
    /\ Positive(s.context.capital) /\ s.context.risk \in 1 .. 2
    /\ s.context.allocation \in 1 .. 100
    /\ Positive(s.context.high) /\ Positive(s.context.low) /\ s.context.high >= s.context.low
    /\ Positive(s.context.holding)
    /\ \A i \in Indices(s.chain) :
          LET q == s.chain[i]
          IN  /\ \A f \in {"strike", "bid", "ask", "ltp", "iv"} : Positive(q[f])
              /\ q.ask >= q.bid
              /\ NonNegative(q.volume) /\ NonNegative(q.oi)

\* contract_revisions and contract_option_mappings, and _ensure_contract, for a contract
\* that was read from a recorded master.
ContractStorable(c) ==
    /\ Positive(c.lot) /\ Aware(c.expiry)
    /\ c.options # <<>>
    /\ \A i \in Indices(c.options) :
          LET o == c.options[i]
          IN  o.strike # None /\ o.side # None /\ o.expiry = c.expiry /\ o.lot = c.lot
              /\ o.tick = c.tick
    /\ Unique(Key, c.options) /\ Unique(LAMBDA o : o.sid, c.options)

\* The primary key, the mapping and the instants of option_snapshots.
LegsStorable(s) ==
    /\ Unique(Key, s.chain) /\ Unique(LAMBDA q : q.sid, s.chain)
    /\ \A i \in Indices(s.chain) :
          /\ Aware(s.chain[i].expiry) /\ Aware(s.chain[i].at)
          /\ MappedIn(s.contract, s.chain[i])

\* _verify_change_oi_provenance: the row the query joins, and its own bound.
ChangeStorable(s, q, accepted) ==
    LET r == ReferenceOf(q.ref, accepted)
    IN  IF q.change = None THEN q.ref = None /\ q.gap = None
        ELSE /\ q.gap \in 1 .. MaxInterval
             /\ r # None /\ r.contract = s.contract /\ r.seq < s.seq
             /\ \E i \in LegsLike(q, r) :
                   /\ q.at = s.at /\ r.chain[i].at = r.at
                   /\ q.gap = q.at - r.chain[i].at
                   /\ q.change = q.oi - r.chain[i].oi

Storable(s, accepted) ==
    /\ ColumnsHold(s)
    /\ ContractStorable(s.contract)
    /\ LegsStorable(s)
    /\ \A i \in Indices(s.chain) : ChangeStorable(s, s.chain[i], accepted)

\* source_order_heads: past the last accepted snapshot of the contract.
InOrder(s, accepted) ==
    \A r \in accepted : r.contract = s.contract => s.seq > r.seq /\ s.at > r.at

-----------------------------------------------------------------------------
(* Analysis *)

\* _pricing_identity, with the pricing security AutomatedSignalService passes.
PricingKnown(s) ==
    LET c == s.contract
    IN  \/ /\ c.model = "BLACK_SCHOLES" /\ c.kind # "COMMODITY" /\ c.exchange # "MCX"
           /\ Positive(s.market.spot)
        \/ /\ c.model = "BLACK_76" /\ c.kind = "COMMODITY" /\ c.exchange = "MCX"
           /\ c.futures # None /\ c.futures.exchange = "MCX"
           /\ Positive(s.market.futures)

\* Nothing was observed after the evaluation.
ObservedBy(s, as_of) ==
    /\ s.market.at <= as_of
    /\ \A i \in Indices(s.chain) : s.chain[i].at <= as_of

\* What analyze_option_chain asks of the snapshot and of every leg.  That the formulas have a
\* finite result for them (pricing.py:67, 86, 169) is not a rule but a computation, left open
\* in SnapshotEvaluation.
Analysable(s, as_of) ==
    /\ Aware(s.market.at)
    /\ PricingKnown(s)
    /\ s.chain # <<>>
    /\ Unique(Key, s.chain)
    /\ \A i \in Indices(s.chain) :
          LET q == s.chain[i]
          IN  /\ q.sid # None /\ Positive(q.strike) /\ Positive(q.iv)
              /\ Aware(q.at) /\ Aware(q.expiry)
              /\ q.expiry = s.contract.expiry /\ q.expiry > as_of
              /\ MappedIn(s.contract, q)
    /\ ObservedBy(s, as_of)

-----------------------------------------------------------------------------
(* Display *)

\* _quote_complete
QuoteComplete(q) ==
    /\ \A f \in {"bid", "ask", "ltp", "iv"} : Positive(q[f])
    /\ q.ask >= q.bid
    /\ NonNegative(q.volume) /\ NonNegative(q.oi)

\* _five_strike_chain_complete
FiveStrikesComplete(s) ==
    /\ Positive(PricingUnderlying(s)) /\ Positive(s.contract.interval)
    /\ Cardinality({s.chain[i].strike : i \in Indices(s.chain)}) >= 5
    /\ RequiredKeys(s) \subseteq KeysOf(s.chain)
    /\ \A i \in Indices(s.chain) : Key(s.chain[i]) \in RequiredKeys(s) => QuoteComplete(s.chain[i])

\* _static_blockers and _dynamic_blockers find nothing, for an accepted snapshot.
Displayable(s, analysed, now) ==
    /\ analysed
    /\ FiveStrikesComplete(s)
    /\ \A t \in ComponentTimes(s) : AgeWithin(t, now, MaxAge)
    /\ s.contract.expiry > now
    /\ now - s.contract.master.fetched <= MasterMaxAge
=============================================================================
