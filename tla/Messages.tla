------------------------------ MODULE Messages ------------------------------
(***************************************************************************)
(* From an event of a wallet to the text of a message: which events are    *)
(* announced and as what, and which placeholders of the template the data  *)
(* fills.  A placeholder without a value is sent as it stands.             *)
(***************************************************************************)
EXTENDS Integers

CONSTANTS Locales, Sizes, Prices, NoPx

VARIABLE message   \* the text sent, and as history the event it is of

Sides == {"BUY", "SELL"}
Orders ==
  [type : {"order.created", "order.updated"}, side : Sides, size : Sizes, orig : Sizes,
   limit : Prices, order : {"Limit", "Trigger"}, reduceOnly : BOOLEAN,
   cond : {"", "above", "below"}, trigger : Prices \cup {NoPx}, status : {"open", "canceled", "filled"}]
Fills ==
  [type : {"fill.created"}, side : Sides, size : Sizes, px : Prices,
   dir : {"Open Long", "Open Short", "Close Long", "Close Short", "Long > Short"},
   pnl : {-1, 0, 1}]
Nothing == [kind |-> "none", data |-> <<>>]
Intent(kind, data) == [kind |-> kind, data |-> data]

(* The mapper: orders.                                                     *)
Size(o) == IF o.size = 0 THEN o.orig ELSE o.size
IsTrigger(o) == o.order = "Trigger" \/ o.cond # "" \/ o.trigger # NoPx
BaseData(o) ==
  [coin |-> "C", side |-> o.side, size |-> Size(o), price |-> o.limit, notional |-> Size(o) * o.limit]
TriggerPx(o) == IF o.trigger \in {NoPx, 0} THEN o.limit ELSE o.trigger
TakesProfit(o) == (o.side = "SELL" /\ o.cond = "above") \/ (o.side = "BUY" /\ o.cond = "below")
StopsLoss(o) == (o.side = "SELL" /\ o.cond = "below") \/ (o.side = "BUY" /\ o.cond = "above")
MapOrderCreated(o) ==
  IF o.status # "open" \/ Size(o) <= 0 THEN Nothing
  ELSE IF IsTrigger(o)
  THEN LET base == BaseData(o)
           data == [f \in DOMAIN base \cup {"trigger", "mark"} |->
                      CASE f = "trigger" -> TriggerPx(o) [] f = "mark" -> o.limit [] OTHER -> base[f]]
       IN  IF o.reduceOnly /\ TakesProfit(o) THEN Intent("tp_placed", data)
           ELSE IF o.reduceOnly /\ StopsLoss(o) THEN Intent("sl_placed", data)
           ELSE Nothing
  ELSE Intent(IF o.reduceOnly THEN "close_limit_placed" ELSE "limit_placed", BaseData(o))
MapOrderUpdated(o) ==
  IF o.status # "canceled" THEN Nothing
  ELSE Intent("order_canceled", [coin |-> "C", side |-> o.side, size |-> Size(o), price |-> o.limit])

(* The mapper: fills.  A fill that turns a position is not announced.      *)
MapFill(f) ==
  LET data == [coin |-> "C", side |-> f.side, size |-> f.size, price |-> f.px,
               notional |-> f.size * f.px, net |-> f.pnl, fees |-> 0]
  IN  IF f.dir \in {"Open Long", "Open Short"} THEN Intent("position_opened", data)
      ELSE IF f.dir \in {"Close Long", "Close Short"} THEN Intent("position_closed", data)
      ELSE Nothing
MapWalletEvent(ev) ==
  CASE ev.type = "order.created" -> MapOrderCreated(ev)
    [] ev.type = "order.updated" -> MapOrderUpdated(ev)
    [] ev.type = "fill.created"  -> MapFill(ev)

(* The templates, by what they ask for; both locales ask for the same.     *)
Placed == {"group", "who", "coin", "side", "size", "price", "notional", "link"}
Closed == {"group", "who", "coin", "side", "size", "entry", "exit", "net", "fees", "duration", "link"}
Template(kind) ==
  CASE kind \in {"limit_placed", "close_limit_placed", "position_opened"} -> Placed
    [] kind = "order_canceled" -> {"group", "who", "coin", "size", "price", "link"}
    [] kind \in {"take_profit", "stop_loss"} -> Closed
    [] kind \in {"tp_placed", "sl_placed"} -> {"group", "who", "coin", "side", "trigger", "mark"}

\* What the dispatcher adds to the data of an intent.
Filled(intent) == DOMAIN intent.data \cup {"group", "who", "link"}
RenderKind(intent) ==
  IF intent.kind # "position_closed" THEN intent.kind
  ELSE IF intent.data.net < 0 THEN "stop_loss" ELSE "take_profit"
RenderMessage(ev, intent, locale) ==
  [label |-> RenderKind(intent), locale |-> locale, data |-> intent.data,
   raw |-> Template(RenderKind(intent)) \ Filled(intent), of |-> ev]

---------------------------------------------------------------------------
NoMessage == [label |-> "none yet"]
Init == message = NoMessage
Announce ==
  /\ message.label = "none yet"
  /\ \E ev \in Orders \cup Fills, locale \in Locales :
       message' = IF MapWalletEvent(ev).kind = "none" THEN [label |-> "none", of |-> ev]
                  ELSE RenderMessage(ev, MapWalletEvent(ev), locale)
Next == Announce
Spec == Init /\ [][Next]_message

(* The label of a trigger order says on which side of the market it waits:   *)
(* a take-profit sells above or buys below.  The size and the notional are   *)
(* those of the order also when Hyperliquid leaves sz out.  Apart from a     *)
(* close, whose entry, exit and duration no event carries, nobody is sent a  *)
(* raw placeholder.                                                          *)
MessageIsRight ==
  /\ message.label = "tp_placed" =>
       message.of.reduceOnly /\ (message.of.side = "SELL" <=> message.of.cond = "above")
  /\ message.label = "sl_placed" =>
       message.of.reduceOnly /\ (message.of.side = "SELL" <=> message.of.cond = "below")
  /\ message.label \in {"limit_placed", "close_limit_placed"} =>
       message.data.notional = message.data.size * message.of.limit /\ message.data.size > 0
  /\ message.label \in {"take_profit", "stop_loss"} => message.raw = {"entry", "exit", "duration"}
  /\ message.label \notin {"none", "none yet", "take_profit", "stop_loss"} => message.raw = {}
=============================================================================
