------------------------------- MODULE Scanner -------------------------------
(***************************************************************************)
(* The opportunity scanner over the unified state.  It reads the venues'   *)
(* records without their locks: a price is read once for the edge and      *)
(* again for the leg, and an update may come in between.                   *)
(* Prices are integers; an edge is in basis points, cut to a whole one.    *)
(***************************************************************************)
EXTENDS UnifiedState

CONSTANTS
  FeeModels,    \* the taker fee by venue, in basis points
  MaxScans      \* bound

VARIABLES
  results,      \* engine.results
  scan,         \* the scan under way: its venue pairs still to do, and what it found
  down          \* a nil price was dereferenced: the process is gone

scannerVars == <<results, scan, down>>

MinGrossEdgeBPS == 10
MinNetEdgeBPS == 5
MaxSlippageBPS == 5
MinConfidence == 50 \* in hundredths: it rejects nothing
DepthThreshold == 1 \* quantities are in units of it

NoScan == [op |-> "idle", todo |-> {}, pair |-> <<>>, quote |-> <<0, 0, 0>>, torn |-> FALSE, found |-> {}, count |-> 0]
ScannerInit == Init /\ results = {} /\ scan = NoScan /\ down = FALSE

---------------------------------------------------------------------------
Abs(x) == IF x < 0 THEN -x ELSE x
Quantity(levels) == LET Q[S \in SUBSET levels] == IF S = {} THEN 0
                          ELSE LET l == CHOOSE x \in S : TRUE IN l[2] + Q[S \ {l}]
                    IN  Q[levels]
EstimateSlippageSingle(state) ==
  LET depth == Quantity(state.book.bids) + Quantity(state.book.asks)
  IN  IF depth < DepthThreshold THEN MaxSlippageBPS ELSE (MaxSlippageBPS * DepthThreshold) \div depth
EstimateSlippage(a, b) ==
  Highest({EstimateSlippageSingle(venue[a]), EstimateSlippageSingle(venue[b])})
\* The edge left at these prices, in ten-thousandths of a price unit.
NetEdge(buy, sell, costs) == (sell - buy) * 10000 - buy * costs
FreeSale(a, b) == FeeModels[a] + EstimateSlippage(a, b) \* a mutant
Costs(a, b) == FeeModels[a] + FeeModels[b] + EstimateSlippage(a, b)
\* In hundredths; a fresh update adds up to 15 more.
Deep(v) == Cardinality(venue[v].book.bids) >= 3 /\ Cardinality(venue[v].book.asks) >= 3
CalculateConfidence(a, b, gross, net) ==
  70 + (IF net > gross \div 2 THEN 10 ELSE 0) + (IF Deep(a) /\ Deep(b) THEN 5 ELSE 0)
CalculateFundingConfidence(net) == 70 + (IF net > 50 THEN 10 ELSE 0)
CalculatePriceArb(a, b, buy, sell) ==
  /\ venue[a].health = "HEALTHY" /\ venue[b].health = "HEALTHY"
  /\ buy > 0 /\ sell > buy
  /\ LET gross == ((sell - buy) * 10000) \div buy
         net == NetEdge(buy, sell, Costs(a, b)) \div buy
     IN  /\ gross >= MinGrossEdgeBPS /\ net >= MinNetEdgeBPS
         /\ CalculateConfidence(a, b, gross, net) >= MinConfidence
\* The rates of one hour, in eighths of a basis point.
Hourly(f) == f.rate * (8 \div f.hours)
CalculateFundingArb(a, b) ==
  /\ venue[a].health = "HEALTHY" /\ venue[b].health = "HEALTHY"
  /\ venue[a].funding.has /\ venue[b].funding.has
  /\ LET edge == Abs(Hourly(venue[a].funding) - Hourly(venue[b].funding)) \div 8
     IN  edge >= MinGrossEdgeBPS /\ CalculateFundingConfidence(edge) >= MinConfidence
  /\ Costs(a, b) < 10000 \* taken of the rate, not of the price
LongVenue(a, b) == IF Hourly(venue[a].funding) < Hourly(venue[b].funding) THEN a ELSE b
AssessMarketQuality(a, b) ==
  IF \E v \in {a, b} : venue[v].old \/ Cardinality(venue[v].book.bids) < 2 \/ Cardinality(venue[v].book.asks) < 2
  THEN "DEGRADED" ELSE "GOOD"
GetVenuePairs == {p \in inst.merged \X inst.merged :
  p[1] # p[2] /\ \A v \in {p[1], p[2]} : venue[v].health = "HEALTHY" /\ venue[v].bid # 0 /\ venue[v].ask # 0}
\* Each pair once, in the order of a map.
GetFundingPairs == {p \in inst.merged \X inst.merged :
  p[1] # p[2] /\ \A v \in {p[1], p[2]} : venue[v].health = "HEALTHY" /\ venue[v].funding.has}
OncePerPair(S) == {T \in SUBSET S : \A p \in S : Cardinality(T \cap {p, <<p[2], p[1]>>}) = 1}

---------------------------------------------------------------------------
\* The loop's tick and POST /scan do the same.  An instrument that is stale, or
\* has no healthy venue, is passed over.
ScanNow ==
  /\ scan.op = "idle" /\ scan.count < MaxScans /\ UNCHANGED <<results, down>>
  /\ scan' = [scan EXCEPT !.op = "prices", !.found = {},
                !.todo = IF inst.stale \/ inst.healthy = 0 THEN {} ELSE GetVenuePairs]
ReadPrices ==
  /\ scan.op = "prices" /\ scan.todo # {} /\ UNCHANGED <<results, down>>
  /\ \E p \in scan.todo :
       LET buy == venue[p[1]].ask
           sell == venue[p[2]].bid
           rest == [scan EXCEPT !.todo = @ \ {p}]
       IN  scan' = IF CalculatePriceArb(p[1], p[2], buy, sell)
                   THEN [rest EXCEPT !.op = "legs", !.pair = p, !.quote = <<buy, sell, Costs(p[1], p[2])>>, !.torn = FALSE]
                   ELSE rest
Leg(v, price) == [venue |-> v, price |-> price]
Opportunity(type, buyLeg, sellLeg, costs, quality) ==
  [type |-> type, buy |-> buyLeg, sell |-> sellLeg, costs |-> costs, quality |-> quality,
   torn |-> scan.torn, scan |-> scan.count, expired |-> FALSE, paying |-> TRUE]
ReadLegs ==
  /\ scan.op = "legs" /\ UNCHANGED results
  /\ LET a == scan.pair[1]
         b == scan.pair[2]
         opp == Opportunity("PRICE", Leg(a, venue[a].ask), Leg(b, venue[b].bid), scan.quote[3], AssessMarketQuality(a, b))
     IN  IF venue[a].ask = 0 \/ venue[b].bid = 0
         THEN down' \in BOOLEAN /\ scan' = NoScan \* a request's panic is recovered, the loop's is not
         ELSE UNCHANGED down /\ scan' = [scan EXCEPT !.op = "prices", !.found = @ \cup {opp}]
CollectFunding ==
  /\ scan.op = "prices" /\ scan.todo = {} /\ UNCHANGED <<results, down>>
  /\ \E pairs \in OncePerPair(IF inst.stale \/ inst.healthy = 0 THEN {} ELSE GetFundingPairs) :
       scan' = [scan EXCEPT !.op = "funding", !.todo = pairs, !.torn = FALSE]
\* The legs carry the first venue's ask and the second's bid, whichever is long.
FundingOpportunity(a, b) ==
  LET long == LongVenue(a, b)
      short == IF long = a THEN b ELSE a
  IN  [Opportunity("FUNDING", Leg(long, venue[a].ask), Leg(short, venue[b].bid), Costs(a, b), AssessMarketQuality(a, b))
         EXCEPT !.paying = Hourly(venue[short].funding) > Hourly(venue[long].funding)]
ReadFunding ==
  /\ scan.op = "funding" /\ scan.todo # {} /\ UNCHANGED <<results, down>>
  /\ \E p \in scan.todo :
       scan' = [scan EXCEPT !.todo = @ \ {p},
                  !.found = IF CalculateFundingArb(p[1], p[2]) THEN @ \cup {FundingOpportunity(p[1], p[2])} ELSE @]
\* No update writes a mark or an index price: what needs them finds nothing.
MarkPrice(v) == 0
IndexPrice(v) == 0
CalculateBasisArb(v) ==
  /\ venue[v].health = "HEALTHY" /\ MarkPrice(v) > 0 /\ IndexPrice(v) > 0
  /\ LET basis == Abs(MarkPrice(v) - IndexPrice(v))
     IN  /\ (basis * 10000) \div IndexPrice(v) >= MinGrossEdgeBPS
         /\ (basis * 10000) \div IndexPrice(v) - 2 * FeeModels[v] - EstimateSlippageSingle(venue[v]) >= MinNetEdgeBPS
BasisOpportunities ==
  {Opportunity("BASIS", Leg(v, MarkPrice(v)), Leg(v, IndexPrice(v)), 2 * FeeModels[v], "GOOD")
     : v \in {w \in inst.merged : CalculateBasisArb(w)}}
ExpireOldOpportunities == {o \in results : ~o.expired}
ScanEnds ==
  /\ scan.op = "funding" /\ scan.todo = {} /\ UNCHANGED down
  /\ results' = ExpireOldOpportunities \cup scan.found \cup BasisOpportunities
  /\ scan' = [NoScan EXCEPT !.count = scan.count + 1]
\* 30 seconds pass; what expired is served until the next scan ends.
Expire == \E o \in results : /\ ~o.expired /\ results' = (results \ {o}) \cup {[o EXCEPT !.expired = TRUE]}
                             /\ UNCHANGED <<scan, down>>
RemoveOpportunity == \E o \in results : results' = results \ {o} /\ UNCHANGED <<scan, down>>
GetAllOpportunities == results
GetOpportunitiesByType(type) == {o \in results : o.type = type}

\* An update of a venue whose prices are being read tears the calculation.
Tear == scan' = [scan EXCEPT !.torn = @ \/ (scan.op = "legs" /\ \E v \in {scan.pair[1], scan.pair[2]} : venue'[v] # venue[v])]

ScannerNext ==
  \/ ~down /\ UnifiedNext /\ Tear /\ UNCHANGED <<results, down>>
  \/ ~down /\ ScanNow /\ UNCHANGED unifiedVars
  \/ ~down /\ ReadPrices /\ UNCHANGED unifiedVars
  \/ ~down /\ ReadLegs /\ UNCHANGED unifiedVars
  \/ ~down /\ CollectFunding /\ UNCHANGED unifiedVars
  \/ ~down /\ ReadFunding /\ UNCHANGED unifiedVars
  \/ ~down /\ ScanEnds /\ UNCHANGED unifiedVars
  \/ ~down /\ Expire /\ UNCHANGED unifiedVars
  \/ ~down /\ RemoveOpportunity /\ UNCHANGED unifiedVars

ScannerSpec == ScannerInit /\ [][ScannerNext]_<<unifiedVars, scannerVars>>

---------------------------------------------------------------------------
(* Buying and selling at the prices of a served price arbitrage leaves the   *)
(* least net edge after both taker fees, unless an update                    *)
(* came between its two readings; a funding arbitrage is short where the     *)
(* hour pays more.  What is shown as best comes from a healthy venue.        *)
OpportunitiesPay ==
  /\ BestOfHealthy
  /\ \A o \in results : ~o.torn =>
       /\ o.buy.venue # o.sell.venue /\ o.paying
       /\ o.type = "PRICE" =>
            (o.sell.price - o.buy.price) * 10000
              >= o.buy.price * (FeeModels[o.buy.venue] + FeeModels[o.sell.venue] + MinNetEdgeBPS)
=============================================================================
