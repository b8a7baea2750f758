----------------------------- MODULE BridgeOrders -----------------------------
(***************************************************************************)
(* Quotes, which fall back from one provider to the next, and the orders    *)
(* made of them.  A SideShift order exists at the provider before its row   *)
(* is inserted, and moves on there; its row follows when the user asks for   *)
(* the status, which is found, asked of the provider and written in three    *)
(* calls - once, for a row that was written cannot be read again.  A LI.FI   *)
(* order is a row only, under the id of its quote.                           *)
(***************************************************************************)
EXTENDS Naturals, Sequences, FiniteSets

CONSTANTS
    Traders,       \* requests the server works on at a time
    MaxQuotes,     \* bound on the quotes given to be executed
    MaxShifts,     \* bound on the orders SideShift ever makes
    MaxLosses      \* bound on SideShift orders whose request was cut off

ASSUME BridgeAssumption ==
    /\ IsFiniteSet(Traders)
    /\ MaxQuotes \in Nat
    /\ MaxShifts \in Nat
    /\ MaxLosses \in Nat

VARIABLES
    orders,    \* the status in the row of each provider_order_id
    stamped,   \* rows whose updated_at is a BSON date, no longer a string
    remote,    \* external: what SideShift says of each order it made
    quotes,    \* the quotes given, by provider
    trade,     \* the call each request is about to make
    losses     \* history: SideShift orders made, and no row inserted

bridgeVars == <<orders, stamped, remote, quotes, trade, losses>>

-----------------------------------------------------------------------------
Quoters == {"lifi", "sideshift", "bridge_xyz", "transak"}
Routes == {"any", "lifi", "sideshift", "offramp"}
Remote == {"waiting", "processing", "settled", "refunded", "expired", "review"}
OrderStatus == {"none", "awaiting_deposit", "processing", "completed", "refunded",
                "expired", "failed"}
Shifts == 1..MaxShifts
(* An order goes by the id of its quote until SideShift gives it its own. *)
QuoteIds == {"lifi", "sideshift"} \X (1..MaxQuotes)
OrderIds == ({"lifi"} \X (1..MaxQuotes)) \cup ({"sideshift"} \X Shifts)
NoId == <<"none", 0>>

TradeStep == {"idle", "quote", "refused", "create", "insert", "find", "unreadable",
              "fetch", "write"}
Trade == [at : TradeStep, route : Routes, asks : Quoters, refused : SUBSET Quoters,
          id : OrderIds \cup QuoteIds \cup {NoId}, got : Remote]

NoTrade == [at |-> "idle", route |-> "any", asks |-> "lifi", refused |-> {}, id |-> NoId,
            got |-> "waiting"]

Ended(h) == trade' = [trade EXCEPT ![h] = NoTrade]
TradeNext(h, step) == trade' = [trade EXCEPT ![h].at = step]

BridgeInit ==
    /\ orders = [id \in OrderIds |-> "none"]
    /\ stamped = {}
    /\ remote = <<>>
    /\ quotes = [p \in {"lifi", "sideshift"} |-> 0]
    /\ trade = [h \in Traders |-> NoTrade]
    /\ losses = 0

-----------------------------------------------------------------------------
(* Quotes.  The amounts, and how each provider spells them, are left out. *)

(* A client of a provider answers with a quote or one of these errors. *)
LifiErrors == {"NotFound", "ExternalService"}
SideshiftErrors == {"NotFound", "BadRequest", "ExternalService"}
BridgeXyzErrors == {"InternalError", "ExternalService"}
TransakErrors == {"InternalError", "ExternalService"}

QuoteErrors(p) ==
    CASE p = "lifi" -> LifiErrors
      [] p = "sideshift" -> SideshiftErrors
      [] p = "bridge_xyz" -> BridgeXyzErrors
      [] p = "transak" -> TransakErrors

First(route) ==
    CASE route \in {"any", "lifi"} -> "lifi"
      [] route = "sideshift" -> "sideshift"
      [] route = "offramp" -> "bridge_xyz"

(* Mutation of Second: no fallback when LI.FI cannot be reached. *)
SecondIfNoRoute(route, p, error) ==
    IF route = "any" /\ p = "lifi" /\ error = "NotFound" THEN {"sideshift"}
    ELSE IF route = "offramp" /\ p = "bridge_xyz" THEN {"transak"} ELSE {}

(* Whom get_best_quote asks next, after an error. *)
Second(route, p, error) ==
    CASE route = "any" /\ p = "lifi" /\ error \in {"NotFound", "ExternalService"} -> {"sideshift"}
      [] route = "offramp" /\ p = "bridge_xyz" -> {"transak"}
      [] OTHER -> {}

StartQuote(h, route) ==
    /\ trade[h].at = "idle"
    /\ trade' = [trade EXCEPT ![h].at = "quote", ![h].route = route, ![h].asks = First(route)]
    /\ UNCHANGED <<orders, stamped, remote, quotes, losses>>

(* Only the quotes of the bridges are executed here. *)
GiveQuote(h) ==
    /\ trade[h].at = "quote"
    /\ IF trade[h].asks \in DOMAIN quotes
       THEN /\ quotes[trade[h].asks] < MaxQuotes
            /\ quotes' = [quotes EXCEPT ![trade[h].asks] = @ + 1]
       ELSE UNCHANGED quotes
    /\ Ended(h)
    /\ UNCHANGED <<orders, stamped, remote, losses>>

RefuseQuote(h) ==
    /\ trade[h].at = "quote"
    /\ LET p == trade[h].asks
       IN  \E error \in QuoteErrors(p) :
              \/ \E q \in Second(trade[h].route, p, error) :
                    trade' = [trade EXCEPT ![h].asks = q, ![h].refused = @ \cup {p}]
              \/ /\ Second(trade[h].route, p, error) = {}
                 /\ trade' = [trade EXCEPT ![h].at = "refused", ![h].refused = @ \cup {p}]
    /\ UNCHANGED <<orders, stamped, remote, quotes, losses>>

-----------------------------------------------------------------------------
(* execute_order *)

(* A client executes a quote it was given, perhaps again. *)
StartExecute(h, p) ==
    /\ trade[h].at = "idle"
    /\ \E q \in 1..quotes[p] :
          trade' = [trade EXCEPT ![h].at = (IF p = "lifi" THEN "insert" ELSE "create"),
                                 ![h].id = <<p, q>>]
    /\ UNCHANGED <<orders, stamped, remote, quotes, losses>>

(* SideShift makes an order for the quote; or it refuses, and nothing is left. *)
CreateShift(h) ==
    /\ trade[h].at = "create"
    /\ Len(remote) < MaxShifts
    /\ remote' = Append(remote, "waiting")
    /\ trade' = [trade EXCEPT ![h].at = "insert", ![h].id = <<"sideshift", Len(remote')>>]
    /\ UNCHANGED <<orders, stamped, quotes, losses>>

(* Mutation of InsertOrder: both providers' rows go by the id of a quote. *)
InsertByQuote(h) ==
    /\ trade[h].at = "insert"
    /\ orders' = [orders EXCEPT ![<<trade[h].id[1], 1>>] = "awaiting_deposit"]
    /\ Ended(h)
    /\ UNCHANGED <<stamped, remote, quotes, losses>>

(* The index on provider_order_id is unique: a quote of LI.FI executed again  *)
(* is an error.                                                              *)
InsertOrder(h) ==
    /\ trade[h].at = "insert"
    /\ orders' = IF orders[trade[h].id] = "none"
                 THEN [orders EXCEPT ![trade[h].id] = "awaiting_deposit"] ELSE orders
    /\ Ended(h)
    /\ UNCHANGED <<stamped, remote, quotes, losses>>

-----------------------------------------------------------------------------
(* get_order_status *)

(* Mutation of MapStatus: the status is stored as the provider spells it. *)
MapVerbatim(status) == status

(* Mutation of MapStatus: an order that is settling counts as settled. *)
MapEarly(status) ==
    CASE status = "waiting" -> "awaiting_deposit"
      [] status \in {"processing", "settled"} -> "completed"
      [] status = "refunded" -> "refunded"
      [] status = "expired" -> "expired"
      [] OTHER -> "failed"

MapStatus(status) ==
    CASE status = "waiting" -> "awaiting_deposit"
      [] status = "processing" -> "processing"
      [] status = "settled" -> "completed"
      [] status = "refunded" -> "refunded"
      [] status = "expired" -> "expired"
      [] OTHER -> "failed"

StartStatus(h, id) ==
    /\ trade[h].at = "idle"
    /\ trade' = [trade EXCEPT ![h].at = "find", ![h].id = id]
    /\ UNCHANGED <<orders, stamped, remote, quotes, losses>>

(* updated_at is read as the string insert wrote: a row with a date there is  *)
(* an error, whosever it is.  Otherwise nothing is asked about the order of   *)
(* another user, or of LI.FI.                                                *)
FindOrder(h, mine) ==
    /\ trade[h].at = "find"
    /\ LET id == trade[h].id
       IN  \/ /\ id \in stamped
              /\ TradeNext(h, "unreadable")
           \/ /\ id \notin stamped
              /\ IF orders[id] # "none" /\ mine /\ id[1] = "sideshift"
                 THEN TradeNext(h, "fetch") ELSE Ended(h)
    /\ UNCHANGED <<orders, stamped, remote, quotes, losses>>

FetchStatus(h) ==
    /\ trade[h].at = "fetch"
    /\ trade' = [trade EXCEPT ![h].at = "write", ![h].got = remote[trade[h].id[2]]]
    /\ UNCHANGED <<orders, stamped, remote, quotes, losses>>

(* update_status looks at no status that was written since, and sets          *)
(* updated_at to a BSON date.                                                *)
WriteStatus(h) ==
    /\ trade[h].at = "write"
    /\ orders' = [orders EXCEPT ![trade[h].id] = MapStatus(trade[h].got)]
    /\ stamped' = stamped \cup {trade[h].id}
    /\ Ended(h)
    /\ UNCHANGED <<remote, quotes, losses>>

-----------------------------------------------------------------------------
(* SideShift. *)

Follows(status) ==
    CASE status = "waiting" -> {"processing", "expired"}
      [] status = "processing" -> {"settled", "review"}
      [] status = "review" -> {"refunded"}
      [] OTHER -> {}

MoveShift(s) ==
    /\ \E status \in Follows(remote[s]) : remote' = [remote EXCEPT ![s] = status]
    /\ UNCHANGED <<orders, stamped, quotes, trade, losses>>

(* A request ends where it is: it was answered, a call failed, or it was cut  *)
(* off.  The order SideShift made for it stays.                              *)
DropTrade(h) ==
    /\ trade[h].at # "idle"
    /\ IF trade[h].at = "insert" /\ trade[h].id[1] = "sideshift"
       THEN losses < MaxLosses /\ losses' = losses + 1 ELSE UNCHANGED losses
    /\ Ended(h)
    /\ UNCHANGED <<orders, stamped, remote, quotes>>

BridgeNext ==
    \/ \E h \in Traders :
          \/ \E route \in Routes : StartQuote(h, route)
          \/ GiveQuote(h) \/ RefuseQuote(h)
          \/ \E p \in DOMAIN quotes : StartExecute(h, p)
          \/ CreateShift(h) \/ InsertOrder(h)
          \/ \E id \in OrderIds : StartStatus(h, id)
          \/ \E mine \in BOOLEAN : FindOrder(h, mine)
          \/ FetchStatus(h) \/ WriteStatus(h)
          \/ DropTrade(h)
    \/ \E s \in DOMAIN remote : MoveShift(s)

BridgeSpec == BridgeInit /\ [][BridgeNext]_bridgeVars

-----------------------------------------------------------------------------
BridgeTypeOK ==
    /\ orders \in [OrderIds -> OrderStatus]
    /\ stamped \in SUBSET OrderIds
    /\ remote \in Seq(Remote) /\ Len(remote) <= MaxShifts
    /\ quotes \in [{"lifi", "sideshift"} -> 0..MaxQuotes]
    /\ trade \in [Traders -> Trade]
    /\ losses \in 0..MaxLosses

Allowed(route) ==
    CASE route = "any" -> {"lifi", "sideshift"}
      [] route = "offramp" -> {"bridge_xyz", "transak"}
      [] OTHER -> {route}

(* "on a not-found route we fall back to SideShift", "Transak is the          *)
(* secondary path when Bridge.xyz ... fails": a client is refused a quote    *)
(* only once every provider its request allows has refused.                  *)
QuoteRefusedByAll ==
    \A h \in Traders : trade[h].at = "refused" => trade[h].refused = Allowed(trade[h].route)

Inserting == {h \in Traders : trade[h].at = "insert" /\ trade[h].id[1] = "sideshift"}

(* A deposit address was made at SideShift for every order a user pays to:    *)
(* each one has its row, but those about to be inserted and those whose      *)
(* request was cut off or failed in between.                                 *)
ShiftsTracked ==
    Cardinality({s \in DOMAIN remote : orders[<<"sideshift", s>>] = "none"})
        <= Cardinality(Inserting) + losses

Says(row, status) ==
    /\ row = "completed" => status = "settled"
    /\ row = "refunded" => status = "refunded"
    /\ row = "expired" => status = "expired"

(* A row that tells the user that the order is over says how it did end at    *)
(* SideShift, though refreshes overlap and each writes what it was told some  *)
(* calls ago, over whatever was written since.                               *)
EndsAsReported ==
    \A s \in DOMAIN remote : Says(orders[<<"sideshift", s>>], remote[s])

(* "this row exists purely to track status for the UI/history, mirroring what *)
(* the provider reports back": asking for the status of an order never fails  *)
(* on the row itself.                                                        *)
OrderReadBack == \A h \in Traders : trade[h].at # "unreadable"
===============================================================================
