----------------------------- MODULE MCSandbox -----------------------------
(***************************************************************************)
(* Two requests of two companies, each with one of a few calls and         *)
(* situations: enough for the one to be governed by what the other taught. *)
(***************************************************************************)
EXTENDS Sandbox

Plan(kinds) == [kinds |-> kinds, shortage |-> FALSE, shortfall |-> 0,
                hardBlock |-> FALSE, assumedSupply |-> FALSE]

\* Good data on a coherent plan, an optimizer with one plan.
Sound ==
  [ validTenths |-> 10, flow |-> TRUE, topology |-> 80, reality |-> 80, alignment |-> 90,
    planExists |-> TRUE, coherent |-> TRUE, orderEdges |-> TRUE, bomDrift |-> FALSE,
    orderBomDrift |-> FALSE, missingConsumption |-> FALSE, unexpectedConsumption |-> FALSE,
    blockingMismatch |-> FALSE, delta |-> 0, executionGaps |-> {}, corrections |-> <<>>,
    dlHealthy |-> TRUE, dlSignals |-> FALSE, stockoutRisk |-> 20, baselineShortage |-> FALSE,
    optimizerThrows |-> FALSE, builtActions |-> <<"EXPEDITE_SUPPLIER">>,
    best |-> Plan(<<"EXPEDITE_SUPPLIER">>), candidates |-> {Plan(<<"EXPEDITE_SUPPLIER">>)} ]

Short == [Plan(<<"RESCHEDULE_DELIVERY">>) EXCEPT !.shortage = TRUE]
Assumed == [Plan(<<"SHORT_TERM_PRODUCTION_ADJUST">>) EXCEPT !.assumedSupply = TRUE]

Rescheduled == [Sound EXCEPT !.best = Plan(<<"RESCHEDULE_DELIVERY">>),
                             !.candidates = {Assumed, Plan(<<"RESCHEDULE_DELIVERY">>)}]
Signalled   == [Sound EXCEPT !.candidates = {Short}, !.best = Short, !.dlSignals = TRUE]
Uncertain   == [Sound EXCEPT !.topology = 30, !.stockoutRisk = 95]
Drifted     == [Sound EXCEPT !.bomDrift = TRUE, !.missingConsumption = TRUE, !.alignment = 55]
Incoherent  == [Sound EXCEPT !.coherent = FALSE, !.topology = 50, !.executionGaps = {"MISSING"}]
PoorData    == [Sound EXCEPT !.validTenths = 3, !.flow = FALSE, !.unexpectedConsumption = TRUE,
                  !.corrections = <<[action |-> "POST_PRODUCTION_RECEIPT", blocking |-> TRUE]>>]
NoPlan      == [Sound EXCEPT !.planExists = FALSE, !.executionGaps = {"UNDERCONSUMPTION"}]
Mismatched  == [Sound EXCEPT !.blockingMismatch = TRUE, !.builtActions = <<>>]

Call(route, plan, intent, override) ==
  [route |-> route, plan |-> plan, intent |-> intent, override |-> override,
   company |-> "company", complete |-> TRUE, database |-> TRUE, snapshot |-> "SIGNED"]

Junior  == Call("worker", "JUNIOR", "EXECUTE", NoValue)
Senior  == Call("worker", "SENIOR", "EXECUTE", NoValue)
Safe    == [Senior EXCEPT !.override = "SAFE"]
Adviser == Call("worker", "JUNIOR", "ADVISE", "AGGRESSIVE")
Voice   == Call("voice", "VISION", "INFORM", NoValue)
Spoken  == Call("voice", "PRINCIPAL", "EXECUTE", NoValue)

Refused ==
  { [Adviser EXCEPT !.route = "snapshot"], [Adviser EXCEPT !.complete = FALSE],
    [Adviser EXCEPT !.plan = "VISION"], [Adviser EXCEPT !.database = FALSE],
    [Voice EXCEPT !.snapshot = "UNSIGNED"], [Voice EXCEPT !.snapshot = "OTHER_COMPANY"],
    [Voice EXCEPT !.snapshot = "ALTERED"], [Voice EXCEPT !.snapshot = "OLD"] }

Case(call, situation) == [call |-> call, situation |-> situation]

MCCases ==
  { Case(call, Sound) : call \in Refused \union {Adviser, Junior, Senior, Safe} }
    \union { Case(Safe, s) : s \in {Drifted, Rescheduled} }
    \union { Case(Senior, s) : s \in {Drifted, Incoherent, Signalled, NoPlan} }
    \union { Case(Junior, s) : s \in {Uncertain, Mismatched, PoorData} }
    \union { Case(Voice, PoorData), Case(Spoken, Rescheduled),
             Case(Adviser, [Sound EXCEPT !.dlHealthy = FALSE]),
             Case(Adviser, [Sound EXCEPT !.optimizerThrows = TRUE]) }
=============================================================================
