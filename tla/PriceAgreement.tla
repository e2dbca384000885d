--------------------------- MODULE PriceAgreement ---------------------------
(***************************************************************************)
(* A register screen that prices its cart with what it fetched, and the    *)
(* backend that prices it again with the masters when it is bought.        *)
(*                                                                         *)
(* The screen reads GET /settings once, when it is opened, and keeps the   *)
(* unit price each product had when its line was added.  The masters only  *)
(* change outside business hours (NFR-OPS-07): together with the date.  A  *)
(* screen left open overnight is the case in which the two sides differ.   *)
(***************************************************************************)
EXTENDS Pricing

CONSTANTS Product,      \* product codes
          Masters,      \* the states the master tables may be in
          LastDay,      \* bound: the days are 0 .. LastDay
          LinesMax      \* LINES_MAX of the cart: 50 in the code

ASSUME LastDayAssumption == LastDay \in Nat

ASSUME LinesMaxAssumption == LinesMax \in Nat \ {0}

(* onSale: not discontinued; rates: effective_from -> basis points, the    *)
(* schema makes effective_from unique.                                     *)
ASSUME MastersAssumption ==
  \A m \in Masters :
     /\ m.onSale \subseteq Product
     /\ m.price \in [Product -> Nat]
     /\ m.campaigns \subseteq CampaignRow(Product)
     /\ m.rates \in [DOMAIN m.rates -> Nat]
     /\ DOMAIN m.rates \subseteq Int

VARIABLES today,        \* the business date
          master,       \* the master tables
          settings,     \* what the screen holds of GET /settings
          cart,         \* code -> [price, qty]
          isMember,     \* whether the sale is for a member
          answer        \* the answer to the last purchase

vars == <<today, master, settings, cart, isMember, answer>>

NoSettings == [on |-> -1]

NoAnswer == [status |-> "none"]

NoLines == [c \in {} |-> [price |-> 0, qty |-> 1]]

-----------------------------------------------------------------------------
(* rate_bp_on: the latest rate in force on the day; a LookupError if none. *)
RatesInForce(m, day) == {d \in DOMAIN m.rates : d =< day}

RateOn(m, day) == m.rates[Max(RatesInForce(m, day))]

(* find_active_on: the period check of the SQL, a second writing of the    *)
(* one PricingService does on its own.                                     *)
ActiveCampaigns(m, day) == {c \in m.campaigns : day \in c.first .. c.last}

(* GET /settings ends in a 500 when no rate is in force, or when a campaign *)
(* of the day has a type its response schema does not know.                 *)
SettingsReadable(m, day) ==
  /\ RatesInForce(m, day) # {}
  /\ \A c \in ActiveCampaigns(m, day) : c.type # "unknown"

SettingsOn(m, day) ==
  [on |-> day, rate |-> RateOn(m, day), campaigns |-> ActiveCampaigns(m, day)]

(* What the screen shows and sends.                                        *)
Shown == ClientTotals(cart, isMember, settings.campaigns, settings.rate)

(* What the backend computes: prices from the master, never the screen's.  *)
CampaignsOf(codes) == {c \in master.campaigns : c.product \in codes}

MasterCart == [c \in DOMAIN cart |-> [cart[c] EXCEPT !.price = master.price[c]]]

Recalculated ==
  ServerTotals(MasterCart, isMember, CampaignsOf(DOMAIN cart),
               RateOn(master, today), today)

AllOnSale == DOMAIN cart \subseteq master.onSale

(* calculate() raises nothing: otherwise a ValueError or LookupError, 500.  *)
Calculable ==
  /\ RatesInForce(master, today) # {}
  /\ \A c \in CampaignsOf(DOMAIN cart) : ValidCampaign(c)

(* In strict mode the database refuses a value its INT column cannot hold;  *)
(* that is not an IntegrityError, so it ends in a 500 as well.              *)
Storable(totals) ==
  /\ totals.subtotal =< ColumnMax
  /\ totals.discount_total =< ColumnMax
  /\ totals.total =< ColumnMax

-----------------------------------------------------------------------------
Init ==
  /\ today = 0
  /\ master \in Masters
  /\ settings = NoSettings
  /\ cart = NoLines
  /\ isMember = FALSE
  /\ answer = NoAnswer

(* Opening or reloading the page: fresh state, then GET /settings.         *)
OpenScreen ==
  /\ settings' = IF SettingsReadable(master, today)
                   THEN SettingsOn(master, today) ELSE NoSettings
  /\ cart' = NoLines
  /\ isMember' = FALSE
  /\ answer' = NoAnswer
  /\ UNCHANGED <<today, master>>

\* mutant: LINES_MAX is not checked for a new product
AddProduct_NoLineLimit(c) ==
  /\ c \in master.onSale \ DOMAIN cart
  /\ cart' = [d \in DOMAIN cart \cup {c} |->
                IF d = c THEN [price |-> master.price[c], qty |-> 1] ELSE cart[d]]
  /\ UNCHANGED <<today, master, settings, isMember, answer>>

(* ADD_PRODUCT with the product GET /products/{code} returned: a repeated  *)
(* product adds one to its line and keeps the price the line already had.  *)
AddProduct(c) ==
  /\ c \in master.onSale
  /\ IF c \in DOMAIN cart
       THEN /\ cart[c].qty < QuantityMax
            /\ cart' = [cart EXCEPT ![c].qty = @ + 1]
       ELSE /\ Cardinality(DOMAIN cart) < LinesMax
            /\ cart' = [d \in DOMAIN cart \cup {c} |->
                          IF d = c THEN [price |-> master.price[c], qty |-> 1]
                                   ELSE cart[d]]
  /\ UNCHANGED <<today, master, settings, isMember, answer>>

(* SET_QUANTITY on the selected line; whichever line may be selected.      *)
SetQuantity(c) ==
  /\ c \in DOMAIN cart
  /\ \E q \in Quantity : cart' = [cart EXCEPT ![c].qty = q]
  /\ UNCHANGED <<today, master, settings, isMember, answer>>

RemoveLine(c) ==
  /\ c \in DOMAIN cart
  /\ cart' = Restrict(cart, DOMAIN cart \ {c})
  /\ UNCHANGED <<today, master, settings, isMember, answer>>

SetMember ==
  /\ isMember' = ~isMember
  /\ UNCHANGED <<today, master, settings, cart, answer>>

(* The popup lies over the button; canPurchase itself does not ask for it. *)
CanPurchase == settings # NoSettings /\ DOMAIN cart # {} /\ answer.status # "created"

\* mutant: only what has to be paid is compared
Verified_TotalOnly(server, client) == client.total = server.total

(* verify_client_totals: all four values must agree.                       *)
Verified(server, client) == client = server

(* POST /transactions, from the button to the answer.                      *)
Purchase ==
  /\ CanPurchase
  /\ answer' =
       IF ~AllOnSale THEN [status |-> "PRODUCT_NOT_FOUND"]
       ELSE IF ~Calculable THEN [status |-> "INTERNAL_ERROR"]
       ELSE IF ~Verified(Recalculated, Shown)
              THEN [status |-> "TOTALS_MISMATCH", server |-> Recalculated]
       ELSE IF ~Storable(Recalculated) THEN [status |-> "INTERNAL_ERROR"]
       ELSE [status |-> "created", shown |-> Shown, saved |-> Recalculated]
  /\ UNCHANGED <<today, master, settings, cart, isMember>>

(* onCloseCompletion: RESET of the cart; the settings stay.                *)
CloseCompletion ==
  /\ answer.status = "created"
  /\ cart' = NoLines
  /\ isMember' = FALSE
  /\ answer' = NoAnswer
  /\ UNCHANGED <<today, master, settings>>

(* The night: a new date and perhaps new masters, under an open screen.    *)
NextDay ==
  /\ today < LastDay
  /\ today' = today + 1
  /\ master' \in Masters
  /\ UNCHANGED <<settings, cart, isMember, answer>>

Next ==
  \/ OpenScreen
  \/ \E c \in Product : AddProduct(c) \/ SetQuantity(c) \/ RemoveLine(c)
  \/ SetMember
  \/ Purchase
  \/ CloseCompletion
  \/ NextDay

Spec == Init /\ [][Next]_vars

-----------------------------------------------------------------------------
(* The state stays within its types: the cart never exceeds LINES_MAX      *)
(* lines or a quantity outside 1 .. QUANTITY_MAX (lib/cartReducer.ts).     *)
TypeOK ==
  /\ today \in 0 .. LastDay
  /\ master \in Masters
  /\ settings = NoSettings \/
       /\ settings.on \in 0 .. today
       /\ settings.rate \in Nat
       /\ settings.campaigns \subseteq CampaignRow(Product)
  /\ DOMAIN cart \subseteq Product
  /\ Cardinality(DOMAIN cart) =< LinesMax
  /\ cart \in [DOMAIN cart -> Line]
  /\ isMember \in BOOLEAN
  /\ answer.status \in {"none", "created", "PRODUCT_NOT_FOUND",
                        "TOTALS_MISMATCH", "INTERNAL_ERROR"}

(* A screen opened on this business date whose lines carry the prices of   *)
(* the master shows exactly the four values the backend will compute: the  *)
(* two implementations of the price rules, one with and one without a      *)
(* period check, agree, so TOTALS_MISMATCH only ever means a stale screen. *)
Fresh ==
  /\ settings # NoSettings
  /\ settings.on = today
  /\ \A c \in DOMAIN cart : cart[c].price = master.price[c]

FreshScreenAgrees == Fresh /\ Calculable => Shown = Recalculated

(* A line keeps the price it was added with and the screen its campaigns,  *)
(* while the backend saves every line as the masters have it and compares  *)
(* four sums.  So lines may be saved that are not those on the screen, but *)
(* only ones whose differences cancel: where a line is dearer than shown,  *)
(* another is cheaper, and so for the line discounts.                      *)
Cancel(shown, saved) ==
  (\E c \in DOMAIN cart : shown[c] < saved[c]) <=> (\E c \in DOMAIN cart : shown[c] > saved[c])

HiddenDifferencesCancel ==
  [][Purchase /\ answer'.status = "created" =>
       /\ Cancel([c \in DOMAIN cart |-> cart[c].price], master.price)
       /\ Cancel([c \in DOMAIN cart |->
                    ClientLineDiscount(c, cart[c], isMember, settings.campaigns)],
                 [c \in DOMAIN cart |->
                    ServerLineDiscount(c, MasterCart[c], isMember,
                                       CampaignsOf(DOMAIN cart), today)])]_vars

(* Whatever campaigns are stored and however old the screen is, what is    *)
(* saved is what the customer was shown, and it is a bill that can be      *)
(* paid and stored: no discount beyond the goods, no negative total, no    *)
(* value its column cannot hold.  The client has no validation of          *)
(* campaigns, so a percentage above 100 does reach its sums.               *)
SoundSale ==
  answer.status = "created" =>
    /\ answer.saved = answer.shown
    /\ answer.saved.discount_total \in 0 .. answer.saved.subtotal
    /\ answer.saved.total \in answer.saved.tax_amount .. ColumnMax
    /\ answer.saved.tax_amount >= 0

=============================================================================
