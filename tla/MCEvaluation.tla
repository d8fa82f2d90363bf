---------------------------- MODULE MCEvaluation ----------------------------
(***************************************************************************)
(* Inputs for SnapshotEvaluation: chains of five strikes of an index, a    *)
(* stock and a commodity in a rising, a falling and an even market, and    *)
(* each of them with one or two of its fields moved to, or just past, a    *)
(* boundary of some rule.                                                  *)
(***************************************************************************)
EXTENDS SnapshotEvaluation

Strikes == <<80, 90, 100, 110, 120>>
Sides == <<"CE", "PE">>
Price == 101

\* The ten options of a chain, in order.
Options == [i \in 1 .. 10 |->
    [strike |-> Strikes[(i + 1) \div 2], side |-> Sides[2 - (i % 2)], sid |-> 10 + i]]

Contract(kind, expiry, tick) ==
    LET exchange == IF kind = "COMMODITY" THEN "MCX" ELSE "NSE"
        future == IF kind = "COMMODITY" THEN 1 ELSE 2
        family == IF kind = "STOCK" THEN 1 ELSE 7
    IN  [kind |-> kind, exchange |-> exchange,
         model |-> IF kind = "COMMODITY" THEN "BLACK_76" ELSE "BLACK_SCHOLES",
         expiry |-> expiry, lot |-> 5, interval |-> 10, tick |-> tick, underlying |-> 1,
         master |-> [named |-> TRUE, digest |-> TRUE, rows |-> 12, fetched |-> -100],
         options |-> [i \in 1 .. 10 |->
             [sid |-> Options[i].sid, strike |-> Options[i].strike, side |-> Options[i].side,
              exchange |-> exchange, family |-> family, expiry |-> expiry, lot |-> 5,
              tick |-> tick]],
         futures |-> [sid |-> future, exchange |-> exchange, future |-> TRUE,
                      family |-> family, expiry |-> expiry, lot |-> 5]]

\* 1 rises, -1 falls, 0 is even.
Bullish(trend, side) == trend = IF side = "CE" THEN 1 ELSE -1

Leg(trend, o) ==
    LET gains == trend = 0 \/ Bullish(trend, o.side)
    IN  [sid |-> o.sid, strike |-> o.strike, side |-> o.side, bid |-> 50, ask |-> 50,
         ltp |-> IF gains THEN 50 ELSE 40, volume |-> 1000,
         oi |-> IF gains THEN 2000 ELSE 1000, iv |-> 20]

PriorLeg(o, expiry, at) ==
    [sid |-> o.sid, strike |-> o.strike, side |-> o.side, expiry |-> expiry, at |-> at,
     ltp |-> 45, oi |-> 1500]

Base(kind, trend, expiry, tick, priorAt) ==
    LET contract == Contract(kind, expiry, tick)
    IN  [contract |-> contract,
         market |-> [at |-> 0, spot |-> IF kind = "COMMODITY" THEN None ELSE Price,
                     futures |-> IF kind = "COMMODITY" THEN Price ELSE Price + trend,
                     close |-> 100, open |-> 100, high |-> 110, low |-> 90, vwap |-> 100],
         technicals |-> [at |-> 0, completed |-> TRUE, timeframe |-> TRUE,
                         ema9 |-> Price - 1 * trend,
                         ema21 |-> Price - (IF trend = 0 THEN 1 ELSE 2 * trend),
                         wma44 |-> Price - (IF trend = 0 THEN 2 ELSE 3 * trend),
                         wma44Before |-> Price - (IF trend = 0 THEN 2 ELSE 4 * trend),
                         atr |-> 10, volatility |-> 20, rsi |-> 50 + 10 * trend],
         context |-> [capital |-> 10000, risk |-> 2, allocation |-> 10, high |-> 103 - 3 * trend,
                      low |-> 99 - 3 * trend, holding |-> 4, mode |-> "PRO",
                      style |-> "INTRADAY", event |-> "clear", confirmed |-> "unset"],
         legs |-> [i \in 1 .. 10 |-> Leg(trend, Options[i])],
         prior |-> [id |-> "old", seq |-> 3, at |-> priorAt, contract |-> contract,
                    chain |-> [i \in 1 .. 10 |-> PriorLeg(Options[i], expiry, priorAt)]],
         at |-> 0, received |-> 1]

Day == 86400

\* Trends of each kind, and the boundaries of the expiry, the tick and the interval.
Bases ==
    {Base(kind, trend, Day, 5, -20) :
        kind \in {"INDEX", "STOCK", "COMMODITY"}, trend \in {1, -1, 0}}
    \cup {Base("INDEX", 1, expiry, 4, -20) : expiry \in {1, 2, ExtremeExpiry + 1, ExtremeExpiry + 2}}
    \cup {Base("INDEX", 1, Day, 50, at) : at \in {-31, -30, 0, 4}}

Set(part, field, values) == {[part |-> part, field |-> field, to |-> v] : v \in values}

\* What the market, the clock and the operator may bring.
Circumstances ==
    Set("time", "received", {-3, -2, -1, 4, 30, 31}) \cup Set("time", "at", {2, Naive})
    \cup Set("market", "at", {-5, -6, 2, Naive})
    \cup Set("market", "spot", {0, None, 107}) \cup Set("market", "futures", {0, NaN, 106})
    \cup Set("market", "high", {89, None})
    \cup Set("technicals", "at", {5, 6}) \cup Set("technicals", "rsi", {NaN, 50, 76, 101})
    \cup Set("technicals", "atr", {0, 1}) \cup Set("technicals", "completed", {FALSE})
    \cup Set("technicals", "timeframe", {FALSE}) \cup Set("technicals", "ema9", {None, 120})
    \cup Set("context", "capital", {0, 100, 13000}) \cup Set("context", "risk", {0, 1, 3})
    \cup Set("context", "allocation", {0, 1, 100, 101})
    \cup Set("context", "low", {200}) \cup Set("context", "high", {100, 101, 150})
    \cup Set("context", "mode", {"QUICK"}) \cup Set("context", "style", {"POSITIONAL"})
    \cup Set("context", "event", {"active", "unknown"}) \cup Set("context", "confirmed", {"no", "yes"})
    \cup Set("prior", "none", {None})

\* What the payload may hold, of one side or in the first leg.
Payloads ==
    UNION {Set(part, "ask", {None, 51, 52, 40}) \cup Set(part, "volume", {999, None})
           \cup Set(part, "oi", {999, 1500, None}) \cup Set(part, "ltp", {45, Malformed, 0})
           \cup Set(part, "iv", {NaN}) : part \in {"calls", "puts", "first"}}
    \cup Set("first", "sid", {None, 12}) \cup Set("first", "strike", {75, 90})
    \cup Set("legs", "missing", {1}) \cup Set("legs", "twice", {1})

\* What the master may hold: no snapshot of such a contract was accepted before.
Masters ==
    Set("contract", "lot", {0}) \cup Set("contract", "interval", {0, 5, 20})
    \cup Set("contract", "tick", {0}) \cup Set("contract", "underlying", {9})
    \cup Set("contract", "model", {"BLACK_SCHOLES", "BLACK_76"}) \cup Set("contract", "futures", {None})
    \cup Set("contract", "expiry", {Naive})
    \cup Set("master", "fetched", {4, -129599, -129600}) \cup Set("master", "rows", {0})
    \cup Set("futures", "lot", {4}) \cup Set("futures", "expiry", {2}) \cup Set("futures", "family", {8})
    \cup Set("option", "sid", {12}) \cup Set("option", "family", {8}) \cup Set("option", "expiry", {2})

Altered(legs, c) ==
    [i \in DOMAIN legs |->
        IF \/ c.part = "calls" /\ legs[i].side = "CE"
           \/ c.part = "puts" /\ legs[i].side = "PE"
           \/ c.part = "first" /\ i = 1
        THEN [legs[i] EXCEPT ![c.field] = c.to] ELSE legs[i]]

Alter(in, c) ==
    CASE c.part = "time" -> [in EXCEPT ![c.field] = c.to]
      [] c.part \in {"market", "technicals", "context"} -> [in EXCEPT ![c.part][c.field] = c.to]
      [] c.part = "prior" -> [in EXCEPT !.prior = None]
      [] c.part \in {"calls", "puts", "first"} -> [in EXCEPT !.legs = Altered(@, c)]
      [] c.part = "legs" -> [in EXCEPT !.legs = IF c.field = "missing" THEN Tail(@) ELSE <<@[1]>> \o @]
      [] c.part = "contract" -> [in EXCEPT !.contract[c.field] = c.to, !.prior = None]
      [] c.part \in {"master", "futures"} ->
            [in EXCEPT !.contract[c.part][c.field] = c.to, !.prior = None]
      [] c.part = "option" -> [in EXCEPT !.contract.options[1][c.field] = c.to, !.prior = None]

MCInputs ==
    Bases
    \cup {Alter(b, c) : b \in Bases, c \in Circumstances \cup Payloads \cup Masters}
    \cup {Alter(Alter(b, c), d) : b \in {Base("INDEX", 1, Day, 4, -20), Base("COMMODITY", 0, Day, 4, -30)},
                                  c \in Circumstances, d \in Circumstances \cup Payloads}

MCPricings ==
    {[CE |-> [delta |-> d, grade |-> g], PE |-> [delta |-> 50, grade |-> h]] :
        d \in {50, 62}, g \in {300, 600}, h \in {0, 600}}
=============================================================================
