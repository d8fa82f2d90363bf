------------------------ MODULE SnapshotEvaluation --------------------------
(***************************************************************************)
(* One acquisition from the payload to the order: _acquire_market of       *)
(* ingestion/dhan_acquisition.py after its calls to Dhan, with the         *)
(* normaliser, the validator, the repository, the signal service and       *)
(* TecoAutomationService it calls in turn.  Every step has the clock of    *)
(* `received`: the code reads it once.                                     *)
(*                                                                         *)
(* Inputs are what the provider, the master and the operator give: they    *)
(* may break any rule.  What the four sets of rules promise each other is  *)
(* stated at the end.                                                      *)
(***************************************************************************)
EXTENDS SignalRules

CONSTANTS
    Inputs,     \* contract, market, technicals, context, legs, prior, at and received
    Pricings,   \* what the pricing model may answer
    Cost        \* estimated_round_trip_cost_per_lot

\* A prior snapshot is an accepted one of the contract, as latest_previous_option_snapshot
\* reads it back.
PriorAccepted(prior) ==
    /\ prior.id # "new" /\ prior.seq \in Nat /\ prior.at \in Int
    /\ Unique(Key, prior.chain)
    /\ \A i \in Indices(prior.chain) :
          LET p == prior.chain[i]
          IN  /\ p.at = prior.at /\ p.oi \in Nat /\ p.expiry = prior.contract.expiry
              /\ MappedIn(prior.contract, p)

ASSUME InputsAssumption ==
    \A given \in Inputs :
        /\ given.prior # None => PriorAccepted(given.prior)
        /\ Indices(given.legs) \subseteq Nat

\* The pipeline is not constructed with a negative cost, and weighted_score takes a factor
\* only from its range, to which the factors of the model are clamped.
ASSUME ModelAssumption ==
    /\ Cost \in Nat
    /\ \A pricing \in Pricings, side \in {"CE", "PE"} : pricing[side].grade \in 0 .. Full

VARIABLES
    input,
    stage,
    snapshot,
    accepted,   \* the verdict of the validator
    saved,      \* the snapshot is an accepted one of the repository
    analysis,   \* what the signal service returned, or None when it raised
    order       \* what ExecutionController.submit was given, or None

vars == <<input, stage, snapshot, accepted, saved, analysis, order>>

Stages == {"received", "built", "ingested", "analysed", "submitted", "published", "failed"}

Now == input.received

\* What the repository returned as the latest accepted snapshot of the contract.
Known == IF input.prior = None THEN {} ELSE {input.prior}

Init ==
    /\ input \in Inputs
    /\ stage = "received"
    /\ snapshot = None
    /\ accepted = FALSE /\ saved = FALSE
    /\ analysis = None /\ order = None

\* build_dhan_snapshot; the sequence follows that of the prior snapshot.
Built ==
    LET seq == IF input.prior = None THEN 1 ELSE input.prior.seq + 1
    IN  [id |-> "new", seq |-> seq, at |-> input.at, received |-> input.received,
         contract |-> input.contract, market |-> input.market,
         technicals |-> input.technicals, context |-> input.context,
         chain |-> NormalizedChain(input.legs, input.contract, seq, input.at, input.prior)]

Build ==
    /\ stage = "received"
    /\ Normalisable(input.legs, input.contract)
    /\ snapshot' = Built
    /\ stage' = "built"
    /\ UNCHANGED <<input, accepted, saved, analysis, order>>

\* NormalizationError: the market is not published.
NormaliserRaises ==
    /\ stage = "received"
    /\ ~Normalisable(input.legs, input.contract)
    /\ stage' = "failed"
    /\ UNCHANGED <<input, snapshot, accepted, saved, analysis, order>>

\* SnapshotIngestionService.ingest
Ingest ==
    /\ stage = "built"
    /\ accepted' = Accepts(snapshot, Now, Known)
    /\ accepted' => InOrder(snapshot, Known) /\ Storable(snapshot, Known)
    /\ saved' = accepted'
    /\ stage' = "ingested"
    /\ UNCHANGED <<input, snapshot, analysis, order>>

\* save_ingestion raises: the transaction is rolled back and the market is not published.
SaveRaises ==
    /\ stage = "built"
    /\ Accepts(snapshot, Now, Known)
    /\ ~(InOrder(snapshot, Known) /\ Storable(snapshot, Known))
    /\ accepted' = TRUE
    /\ stage' = "failed"
    /\ UNCHANGED <<input, snapshot, saved, analysis, order>>

\* AutomatedSignalService.evaluate.  Of a rejected snapshot the decision is always the same;
\* whether the model raises on what was rejected is left open.
Analyse ==
    /\ stage = "ingested"
    /\ \/ /\ accepted
          /\ Analysable(snapshot, Now)
          /\ \E pricing \in Pricings :
                analysis' = Evaluated(snapshot, input.prior, pricing, Cost, Now)
       \/ /\ ~accepted
          /\ analysis' = [state |-> "INSUFFICIENT_DATA", reason |-> "DATA_INCOMPLETE",
                          ranked |-> <<>>, call |-> 0, put |-> 0, plan |-> None]
    /\ stage' = "analysed"
    /\ UNCHANGED <<input, snapshot, accepted, saved, order>>

\* Any exception of the evaluation: the snapshot is published without analysis.
AnalysisRaises ==
    /\ stage = "ingested"
    /\ ~(accepted /\ Analysable(snapshot, Now))
    /\ stage' = "published"
    /\ UNCHANGED <<input, snapshot, accepted, saved, analysis, order>>

\* Of an analysable snapshot too: a price or a Greek is not finite, or the arithmetic
\* overflows.
PricingRaises ==
    /\ stage = "ingested"
    /\ accepted /\ Analysable(snapshot, Now)
    /\ stage' = "published"
    /\ UNCHANGED <<input, snapshot, accepted, saved, analysis, order>>

Actionable == analysis # None /\ analysis.plan # None /\ analysis.state \in Actions

\* TecoAutomationService.process, with the plan of the signal.
Submit ==
    /\ stage = "analysed"
    /\ Actionable
    /\ order' = ExecutionPlan(analysis.plan, snapshot)
    /\ stage' = "submitted"
    /\ UNCHANGED <<input, snapshot, accepted, saved, analysis>>

Publish ==
    /\ \/ stage = "submitted"
       \/ stage = "analysed" /\ ~Actionable
    /\ stage' = "published"
    /\ UNCHANGED <<input, snapshot, accepted, saved, analysis, order>>

Next ==
    \/ Build \/ NormaliserRaises
    \/ Ingest \/ SaveRaises
    \/ Analyse \/ AnalysisRaises \/ PricingRaises
    \/ Submit \/ Publish

Spec == Init /\ [][Next]_vars

-----------------------------------------------------------------------------
(* What the rules promise each other *)

\* The tables, the provenance check and the mappings take whatever the validator accepts: the
\* save of an accepted snapshot fails only for its place in the stream (sqlite.py:1451), for
\* a price the validator does not ask for, the spot price of a commodity, or a blank
\* timeframe, neither of which the acquisition produces.
AcceptedIsStorable ==
    stage = "failed" /\ accepted =>
        \/ ~InOrder(snapshot, Known)
        \/ ~snapshot.technicals.timeframe
        \/ snapshot.contract.kind = "COMMODITY" /\ snapshot.market.spot # None

\* A change of open interest the normaliser derives satisfies the validator, which reloads
\* the prior snapshot, and the repository, which joins its rows: the three keep their own
\* rules of what may be compared (normalization.py:369, validation.py:1079, sqlite.py:1458).
DerivedChangeIsAccepted ==
    snapshot # None =>
        \A i \in Indices(snapshot.chain) :
            /\ ChangeValid(snapshot, snapshot.chain[i], Known)
            /\ ChangeStorable(snapshot, snapshot.chain[i], Known)

\* Every leg of the ranking is eligible exactly when nothing was held against it; the
\* frontend refuses a workspace where one is not (backendSnapshot.ts:625).  A leg without a
\* change of open interest has no evidence, for which pipeline.py gives no reason: that it
\* always has another one rests on the normaliser's rules of comparison being the pipeline's.
ReasonsAreGiven ==
    analysis # None =>
        \A i \in DOMAIN analysis.ranked :
            analysis.ranked[i].eligible <=> analysis.ranked[i].reasons = {}

\* A decision to buy is carried by a plan that can be executed.  The plan is drafted before
\* the decision, for the leading side, and the decision compares the scores again: they name
\* the same side.  The plan passes the gates of the execution controller, which reads none of
\* the strategy; it risks no more than the operator allows, spends no more than allocated,
\* and its prices are in order and on ticks.
ActionIsExecutable ==
    analysis # None /\ analysis.state \in Actions =>
        /\ accepted
        /\ analysis.plan # None
        /\ LET p == analysis.plan
               x == snapshot.context
               t == ExecutionPlan(p, snapshot)
               OnTick(v) == v % snapshot.contract.tick = 0
           IN  /\ p.side = IF analysis.state = "BUY_CALL" THEN "CE" ELSE "PE"
               /\ PlanValid(t, Now)
               /\ 100 * t.maxLoss <= x.capital * x.risk
               /\ 100 * t.limit * t.quantity <= x.capital * x.allocation
               /\ 0 <= p.stop /\ p.stop < p.entry /\ p.entry < p.targets[1]
               /\ p.targets[1] < p.targets[2] /\ p.targets[2] < p.targets[3]
               /\ \A v \in {p.entry, p.stop, p.targets[1], p.targets[2], p.targets[3]} :
                     OnTick(v)

\* An accepted snapshot can be analysed and shown: neither the analytics (chain.py:86) nor
\* the read model (market_read_model.py:935) refuses what the validator takes by a rule of its
\* own, unless something of it was observed after the clock of the evaluation, which only the
\* validator tolerates, by FutureSkew.  That the formulas find a finite price is not promised.
AcceptedIsUsable ==
    accepted /\ ObservedBy(snapshot, Now) =>
        Analysable(snapshot, Now) /\ Displayable(snapshot, TRUE, Now)

\* Nothing is bought while the operator's price confirmation is withheld (spec.py:318).
ManualConfirmationGates ==
    order # None => snapshot.context.confirmed # "no"
=============================================================================
