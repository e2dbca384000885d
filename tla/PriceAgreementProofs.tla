------------------------ MODULE PriceAgreementProofs ------------------------
(***************************************************************************)
(* The screen and the backend price a fresh cart alike; however old the    *)
(* screen is, what is saved is sound and differs from what was shown only  *)
(* where differences cancel, for every set of products, masters, campaigns *)
(* and prices.                                                             *)
(*                                                                         *)
(* The totals are sums over a cart of any length.  Folds are recursive, so *)
(* what a sum is, and how two of them compare, is proved by looking at a   *)
(* least counterexample.                                                   *)
(***************************************************************************)
EXTENDS PriceAgreement, FiniteSetTheorems, WellFoundedInduction, TLAPS

-----------------------------------------------------------------------------
(* A non-empty set of naturals has a least element.                        *)
LEMMA LeastNatural ==
  ASSUME NEW T \in SUBSET Nat, T # {}
  PROVE  \E n \in T : \A k \in T : n =< k
<1>1. PICK n \in T : \A k \in T : ~(<<k, n>> \in OpToRel(<, Nat))
  BY NatLessThanWellFounded, WFMin
<1>2. \A k \in T : ~(k < n)
  BY <1>1 DEF OpToRel
<1> QED BY <1>2

(* A bounded, non-empty set of naturals has a greatest element.            *)
LEMMA BoundedSetHasMax ==
  ASSUME NEW B \in Nat, NEW S \in SUBSET (0 .. B), S # {}
  PROVE  \E m \in S : \A x \in S : m >= x
<1> DEFINE T == {B - x : x \in S}
<1>1. T \subseteq Nat /\ T # {}
  <2>1. \A x \in S : B - x \in Nat
    OBVIOUS
  <2>2. \E x \in S : B - x \in T
    OBVIOUS
  <2> QED BY <2>1, <2>2
<1>2. PICK t \in T : \A y \in T : t =< y
  <2> HIDE DEF T
  <2> QED BY <1>1, LeastNatural
<1>3. PICK m \in S : t = B - m
  OBVIOUS
<1>4. ASSUME NEW x \in S PROVE m >= x
  <2>1. B - x \in T
    OBVIOUS
  <2>2. ~(B - x < B - m)
    BY <2>1, <1>1, <1>2, <1>3
  <2> QED BY <2>2
<1> QED BY <1>4

(* A greatest element is what Max chooses.                                 *)
LEMMA MaxIs ==
  ASSUME NEW S \in SUBSET Int, NEW m \in S, \A x \in S : m >= x
  PROVE  Max(S) = m
<1>1. \A n \in S : (\A x \in S : n >= x) => n = m
  OBVIOUS
<1>2. /\ Max(S) \in S
      /\ \A x \in S : Max(S) >= x
  BY DEF Max
<1> QED BY <1>1, <1>2

(* The fold of the screen starts at 0, max(..., default=0) of the backend  *)
(* uses 0 only when there is nothing to compare: the same on discounts.    *)
LEMMA MaxWithZero ==
  ASSUME NEW B \in Nat, NEW S \in SUBSET (0 .. B)
  PROVE  Max({0} \cup S) = IF S = {} THEN 0 ELSE Max(S)
<1>1. CASE S = {}
  <2>1. Max({0}) = 0
    BY MaxIs
  <2>2. {0} \cup S = {0}
    BY <1>1
  <2> QED BY <1>1, <2>1, <2>2
<1>2. CASE S # {}
  <2>1. PICK m \in S : \A x \in S : m >= x
    BY <1>2, BoundedSetHasMax
  <2>2. Max(S) = m
    BY <2>1, MaxIs
  <2>3. Max({0} \cup S) = m
    <3>1. /\ {0} \cup S \in SUBSET Int
          /\ m \in {0} \cup S
          /\ \A x \in {0} \cup S : m >= x
      BY <2>1
    <3> QED BY ONLY <3>1, MaxIs
  <2> QED BY <1>2, <2>2, <2>3
<1> QED BY <1>1, <1>2

(* The element of a set that SumFunction takes next.                       *)
Some(s) == CHOOSE x \in s : TRUE

(* The recursion that SumFunction unfolds to, on the sets D.               *)
AddUp(f, sum, s) == IF s = {} THEN 0 ELSE f[Some(s)] + sum[s \ {Some(s)}]

IsSum(D, f, sum) == sum = [s \in D |-> AddUp(f, sum, s)]

SmallSubsets(S, n) == {s \in SUBSET S : Cardinality(s) =< n}

(* What is left after it.                                                 *)
LEMMA OneElementLess ==
  ASSUME NEW S, IsFiniteSet(S), NEW s \in SUBSET S, s # {}
  PROVE  /\ Some(s) \in s
         /\ s \ {Some(s)} \in SUBSET S
         /\ Cardinality(s) \in Nat \ {0}
         /\ Cardinality(s \ {Some(s)}) = Cardinality(s) - 1
<1>1. Some(s) \in s
  BY DEF Some
<1>2. IsFiniteSet(s)
  BY FS_Subset
<1>3. Cardinality(s) \in Nat /\ Cardinality(s) # 0
  BY <1>2, FS_CardinalityType, FS_EmptySet
<1>4. Cardinality(s \ {Some(s)}) = Cardinality(s) - 1
  BY <1>1, <1>2, FS_RemoveElement
<1> QED BY <1>1, <1>3, <1>4

(* The recursion has a solution on a finite set: level by level of         *)
(* cardinality, and the least level without one would have one.            *)
LEMMA SumExists ==
  ASSUME NEW S, IsFiniteSet(S), NEW f
  PROVE  \E sum : IsSum(SUBSET S, f, sum)
<1> DEFINE Bad == {n \in Nat : ~ \E sum : IsSum(SmallSubsets(S, n), f, sum)}
<1>1. Bad = {}
  <2> SUFFICES ASSUME Bad # {} PROVE FALSE
    OBVIOUS
  <2>1. PICK n \in Bad : \A k \in Bad : n =< k
    <3> HIDE DEF Bad
    <3>1. Bad \in SUBSET Nat
      BY DEF Bad
    <3> QED BY <3>1, LeastNatural
  <2>2. \E sum : IsSum(SmallSubsets(S, n), f, sum)
    <3>1. CASE n = 0
      <4>1. \A s \in SmallSubsets(S, n) : s = {}
        <5> SUFFICES ASSUME NEW s \in SmallSubsets(S, n), s # {} PROVE FALSE
          OBVIOUS
        <5>1. Cardinality(s) \in Nat \ {0}
          BY OneElementLess DEF SmallSubsets
        <5> QED BY <3>1, <5>1 DEF SmallSubsets
      <4> DEFINE zero == [s \in SmallSubsets(S, n) |-> 0]
      <4>2. \A s \in SmallSubsets(S, n) : AddUp(f, zero, s) = 0
        BY <4>1 DEF AddUp
      <4>3. IsSum(SmallSubsets(S, n), f, zero)
        BY <4>2 DEF IsSum
      <4> QED BY <4>3
    <3>2. CASE n # 0
      <4>1. n - 1 \in Nat /\ n - 1 \notin Bad
        BY <2>1, <3>2
      <4>2. PICK less : IsSum(SmallSubsets(S, n - 1), f, less)
        BY <4>1
      <4> DEFINE sum == [s \in SmallSubsets(S, n) |-> AddUp(f, less, s)]
      <4>3. ASSUME NEW s \in SmallSubsets(S, n)
            PROVE  AddUp(f, sum, s) = AddUp(f, less, s)
        <5>1. CASE s = {}
          BY <5>1 DEF AddUp
        <5>2. CASE s # {}
          <6> DEFINE r == s \ {Some(s)}
          <6>1. r \in SmallSubsets(S, n - 1) /\ r \in SmallSubsets(S, n)
            BY <4>1, <5>2, OneElementLess DEF SmallSubsets
          <6>2. less[r] = AddUp(f, less, r)
            BY <4>2, <6>1 DEF IsSum
          <6>3. sum[r] = AddUp(f, less, r)
            BY <6>1
          <6> QED BY <6>2, <6>3 DEF AddUp
        <5> QED BY <5>1, <5>2
      <4>4. IsSum(SmallSubsets(S, n), f, sum)
        BY <4>3 DEF IsSum
      <4> QED BY <4>4
    <3> QED BY <3>1, <3>2
  <2> QED BY <2>2
<1>2. Cardinality(S) \in Nat
  BY FS_CardinalityType
<1>3. SmallSubsets(S, Cardinality(S)) = SUBSET S
  BY FS_Subset DEF SmallSubsets
<1>4. PICK sum : IsSum(SmallSubsets(S, Cardinality(S)), f, sum)
  BY <1>1, <1>2
<1> QED BY <1>3, <1>4

(* What SumFunction returns satisfies the recursion.                       *)
LEMMA SumIs ==
  ASSUME NEW f, IsFiniteSet(DOMAIN f)
  PROVE  \E sum : IsSum(SUBSET DOMAIN f, f, sum) /\ SumFunction(f) = sum[DOMAIN f]
<1> DEFINE sum == CHOOSE g : IsSum(SUBSET DOMAIN f, f, g)
<1>1. IsSum(SUBSET DOMAIN f, f, sum)
  BY SumExists
<1>2. SumFunction(f) = sum[DOMAIN f]
  BY DEF SumFunction, SumFunctionOnSet, FoldFunctionOnSet, MapThenFoldSet, IsSum, AddUp, Some
<1> QED BY <1>1, <1>2

(* Sums of naturals are naturals, and grow with what is summed, strictly   *)
(* when a summand does.                                                    *)
LEMMA SumsCompare ==
  ASSUME NEW D, IsFiniteSet(D), NEW f \in [D -> Nat], NEW g \in [D -> Nat],
         \A x \in D : f[x] =< g[x]
  PROVE  /\ SumFunction(f) \in Nat /\ SumFunction(g) \in Nat
         /\ SumFunction(f) =< SumFunction(g)
         /\ (\E x \in D : f[x] < g[x]) => SumFunction(f) < SumFunction(g)
<1>1. DOMAIN f = D /\ DOMAIN g = D
  OBVIOUS
<1>2. PICK sf : IsSum(SUBSET D, f, sf) /\ SumFunction(f) = sf[D]
  BY <1>1, SumIs
<1>3. PICK sg : IsSum(SUBSET D, g, sg) /\ SumFunction(g) = sg[D]
  BY <1>1, SumIs
<1> DEFINE Good(s) == /\ sf[s] \in Nat /\ sg[s] \in Nat /\ sf[s] =< sg[s]
                      /\ (\E x \in s : f[x] < g[x]) => sf[s] < sg[s]
           Bad == {Cardinality(s) : s \in {t \in SUBSET D : ~Good(t)}}
<1>4. Bad = {}
  <2> SUFFICES ASSUME Bad # {} PROVE FALSE
    OBVIOUS
  <2>1. Bad \in SUBSET Nat
    <3>1. \A s \in SUBSET D : Cardinality(s) \in Nat
      BY FS_Subset, FS_CardinalityType
    <3> QED BY <3>1
  <2>2. PICK n \in Bad : \A k \in Bad : n =< k
    <3> HIDE DEF Bad
    <3> QED BY <2>1, LeastNatural
  <2>3. PICK s \in SUBSET D : ~Good(s) /\ n = Cardinality(s)
    OBVIOUS
  <2>4. sf[s] = AddUp(f, sf, s) /\ sg[s] = AddUp(g, sg, s)
    BY <1>2, <1>3 DEF IsSum
  <2>5. CASE s = {}
    BY <2>3, <2>4, <2>5 DEF AddUp
  <2>6. CASE s # {}
    <3> DEFINE r == s \ {Some(s)}
    <3>1. Some(s) \in D /\ r \in SUBSET D /\ Cardinality(r) = n - 1 /\ n \in Nat
      BY <2>3, <2>6, OneElementLess
    <3>2. Cardinality(r) \notin Bad
      <4> HIDE DEF Bad, r
      <4> QED BY <2>2, <3>1
    <3>3. Good(r)
      <4> HIDE DEF Good
      <4> QED BY <3>1, <3>2
    <3>4. sf[s] = f[Some(s)] + sf[r] /\ sg[s] = g[Some(s)] + sg[r]
      BY <2>4, <2>6 DEF AddUp
    <3>5. f[Some(s)] \in Nat /\ g[Some(s)] \in Nat /\ f[Some(s)] =< g[Some(s)]
      BY <3>1
    <3>6. \A x \in s : x = Some(s) \/ x \in r
      OBVIOUS
    <3> HIDE DEF r
    <3> QED BY <2>3, <3>3, <3>4, <3>5, <3>6
  <2> QED BY <2>5, <2>6
<1>5. Good(D)
  <2> HIDE DEF Good
  <2> QED BY <1>4
<1> QED BY <1>2, <1>3, <1>5

(* So sums that are equal are of the same summands, or of some that are    *)
(* greater and some that are less.                                         *)
LEMMA EqualSumsCancel ==
  ASSUME NEW D, IsFiniteSet(D), NEW f \in [D -> Nat], NEW g \in [D -> Nat],
         SumFunction(f) = SumFunction(g)
  PROVE  (\E x \in D : f[x] < g[x]) <=> (\E x \in D : f[x] > g[x])
<1>1. ASSUME NEW a \in [D -> Nat], NEW b \in [D -> Nat], SumFunction(a) = SumFunction(b),
             NEW x \in D, a[x] < b[x]
      PROVE  \E y \in D : a[y] > b[y]
  <2> SUFFICES ASSUME \A y \in D : ~(a[y] > b[y]) PROVE FALSE
    OBVIOUS
  <2>1. \A y \in D : a[y] =< b[y]
    OBVIOUS
  <2>2. SumFunction(a) < SumFunction(b) /\ SumFunction(a) \in Nat
    BY <1>1, <2>1, SumsCompare
  <2>3. QED
    BY <1>1, <2>2
<1>2. ASSUME NEW x \in D, f[x] < g[x] PROVE \E y \in D : f[y] > g[y]
  BY <1>1, <1>2
<1>3. ASSUME NEW x \in D, f[x] > g[x] PROVE \E y \in D : f[y] < g[y]
  <2>1. g[x] < f[x]
    BY <1>3
  <2>2. PICK y \in D : g[y] > f[y]
    BY <1>1, <2>1
  <2>3. QED
    BY <2>2
<1>4. QED
  BY <1>2, <1>3

-----------------------------------------------------------------------------
(* A valid campaign never takes more off a line than the line costs.       *)
LEMMA DiscountWithinLine ==
  ASSUME NEW line \in Line, NEW c \in CampaignRow(Product), ValidCampaign(c)
  PROVE  ServerDiscountFor(line, c) \in 0 .. (line.price * line.qty)
<1> DEFINE off == IF c.type = "percent" THEN (line.price * c.value) \div 100
                  ELSE IF c.value =< line.price THEN c.value ELSE line.price
<1>1. line.price \in Nat /\ line.qty \in Nat /\ c.value \in Nat
  BY QuantityMaxAssumption DEF Line, Quantity, CampaignRow
<1>2. off \in 0 .. line.price
  <2>1. CASE c.type = "percent"
    <3>1. c.value =< 100
      BY <2>1 DEF ValidCampaign
    <3>2. line.price * c.value =< line.price * 100 /\ line.price * c.value \in Nat
      BY <1>1, <3>1
    <3> DEFINE n == line.price * c.value
    <3>3. n \in Nat /\ n =< line.price * 100
      BY <3>2
    <3> HIDE DEF n
    <3>4. n \div 100 \in 0 .. line.price
      BY <1>1, <3>3
    <3> QED BY <2>1, <3>4 DEF n
  <2>2. CASE c.type # "percent"
    BY <1>1, <2>2
  <2> QED BY <2>1, <2>2
<1>3. ServerDiscountFor(line, c) = off * line.qty
  BY DEF ServerDiscountFor
<1> HIDE DEF off
<1>4. off * line.qty \in Nat /\ off * line.qty =< line.price * line.qty
  BY <1>1, <1>2
<1>5. line.price * line.qty \in Nat
  BY <1>1
<1> QED BY <1>3, <1>4, <1>5

(* One line, priced by both sides on a day whose active campaigns the      *)
(* screen holds.                                                           *)
LEMMA LineDiscountsAgree ==
  ASSUME NEW m \in Masters, NEW day \in Int, NEW code \in Product,
         NEW line \in Line, NEW codes \in SUBSET Product, code \in codes,
         NEW member \in BOOLEAN,
         \A c \in m.campaigns : c.product \in codes => ValidCampaign(c)
  PROVE  ClientLineDiscount(code, line, member, ActiveCampaigns(m, day)) =
         ServerLineDiscount(code, line, member,
                            {c \in m.campaigns : c.product \in codes}, day)
<1> DEFINE mine   == {c \in m.campaigns : c.product \in codes}
           client == ClientDiscounts(code, line, ActiveCampaigns(m, day))
           server == ServerDiscounts(code, line, mine, day)
           bound  == line.price * line.qty
<1>1. \A c \in m.campaigns : /\ c \in CampaignRow(Product)
                             /\ c.first \in Int /\ c.last \in Int
  BY MastersAssumption DEF CampaignRow
<1>2. \A c : ClientDiscountFor(line, c) = ServerDiscountFor(line, c)
  BY DEF ClientDiscountFor, ServerDiscountFor
<1>3. {c \in ActiveCampaigns(m, day) : c.product = code} =
      {c \in mine : c.product = code /\ ActiveOn(c, day)}
  BY <1>1 DEF ActiveCampaigns, ActiveOn
<1>4. client = server
  BY <1>2, <1>3 DEF ClientDiscounts, ServerDiscounts
<1>5. bound \in Nat
  BY QuantityMaxAssumption DEF Line, Quantity
<1>6. server \in SUBSET (0 .. bound)
  <2>1. \A c \in mine : ServerDiscountFor(line, c) \in 0 .. bound
    BY <1>1, DiscountWithinLine
  <2> HIDE DEF mine, bound
  <2> QED BY <2>1 DEF ServerDiscounts
<1> HIDE DEF bound, server, client
<1>7. Max({0} \cup server) = IF server = {} THEN 0 ELSE Max(server)
  BY <1>5, <1>6, MaxWithZero
<1>8. ClientLineDiscount(code, line, member, ActiveCampaigns(m, day)) =
        IF ~member THEN 0 ELSE Max({0} \cup client)
  BY DEF ClientLineDiscount, client
<1>9. ServerLineDiscount(code, line, member, mine, day) =
        IF ~member \/ server = {} THEN 0 ELSE Max(server)
  BY DEF ServerLineDiscount, server
<1> QED BY <1>4, <1>7, <1>8, <1>9

-----------------------------------------------------------------------------
(* The inductive invariant.  FreshScreenAgrees is not inductive: that the   *)
(* settings are those of the masters of their day is what it rests on.     *)
SettingsOfTheirDay ==
  settings # NoSettings /\ settings.on = today =>
    settings = SettingsOn(master, today)

IInv ==
  /\ TypeOK
  /\ IsFiniteSet(DOMAIN cart)
  /\ SettingsOfTheirDay

(* Of the rates in force there is a latest, so the rate is a number.       *)
LEMMA RateType ==
  ASSUME NEW m \in Masters, NEW day \in Nat, RatesInForce(m, day) # {}
  PROVE  RateOn(m, day) \in Nat
<1> DEFINE rates == RatesInForce(m, day)
<1>1. rates \subseteq Int /\ rates \subseteq DOMAIN m.rates /\ rates # {}
  BY MastersAssumption DEF RatesInForce
<1>2. PICK r \in rates : TRUE
  BY <1>1
<1>3. \A d \in rates : d =< day
  BY DEF RatesInForce
<1> HIDE DEF rates
<1> DEFINE later == {d - r : d \in {e \in rates : e >= r}}
<1>4. later \in SUBSET (0 .. (day - r)) /\ later # {}
  <2>1. \A d \in rates : d >= r => d - r \in 0 .. (day - r)
    BY <1>1, <1>2, <1>3
  <2>2. r - r \in later
    BY <1>1, <1>2
  <2> QED BY <2>1, <2>2
<1>5. day - r \in Nat
  BY <1>1, <1>2, <1>3
<1>6. PICK top \in later : \A x \in later : top >= x
  <2> HIDE DEF later
  <2> QED BY <1>4, <1>5, BoundedSetHasMax
<1>7. PICK d \in rates : d >= r /\ top = d - r
  BY <1>6
<1>8. \A e \in rates : d >= e
  <2> SUFFICES ASSUME NEW e \in rates PROVE d >= e
    OBVIOUS
  <2>1. CASE e < r
    BY <1>1, <1>2, <1>7, <2>1
  <2>2. CASE e >= r
    <3>1. e - r \in later
      BY <2>2
    <3>2. top >= e - r
      BY <3>1, <1>6
    <3> QED BY <1>1, <1>2, <1>7, <3>2
  <2> QED BY <1>1, <1>2, <2>1, <2>2
<1>9. Max(rates) = d
  BY <1>1, <1>7, <1>8, MaxIs
<1>10. m.rates[d] \in Nat
  BY <1>1, <1>7, MastersAssumption
<1> QED BY <1>9, <1>10 DEF RateOn, rates

LEMMA InitIInv == Init => IInv
<1> SUFFICES ASSUME Init PROVE IInv
  OBVIOUS
<1>1. DOMAIN cart = {} /\ cart \in [DOMAIN cart -> Line]
  BY DEF Init, NoLines
<1>2. IsFiniteSet(DOMAIN cart) /\ Cardinality(DOMAIN cart) =< LinesMax
  BY <1>1, FS_EmptySet, LinesMaxAssumption
<1>3. answer.status = "none"
  BY DEF Init, NoAnswer
<1>4. DOMAIN cart \subseteq Product
  BY <1>1
<1>5. /\ today \in 0 .. LastDay
      /\ master \in Masters
      /\ settings = NoSettings
  BY LastDayAssumption DEF Init
<1>6. isMember \in BOOLEAN
  BY DEF Init
<1>7. TypeOK
  BY <1>1, <1>2, <1>3, <1>4, <1>5, <1>6 DEF TypeOK
<1> QED BY <1>2, <1>5, <1>7 DEF Init, IInv, SettingsOfTheirDay

LEMMA OpenScreenStep == IInv /\ OpenScreen => IInv'
<1> SUFFICES ASSUME IInv, OpenScreen PROVE IInv'
  OBVIOUS
<1> USE DEF IInv, OpenScreen
<1>1. DOMAIN cart' = {} /\ (cart \in [DOMAIN cart -> Line])'
  BY DEF NoLines
<1>2. IsFiniteSet(DOMAIN cart)' /\ (Cardinality(DOMAIN cart) =< LinesMax)'
  BY <1>1, FS_EmptySet, LinesMaxAssumption
<1>3. (answer.status = "none")'
  BY DEF NoAnswer
<1>4. today' = today /\ master' = master /\ today \in Nat /\ master \in Masters
  BY LastDayAssumption DEF TypeOK
<1>5. ASSUME SettingsReadable(master, today)
      PROVE  /\ settings' = SettingsOn(master, today)
             /\ settings'.on = today
             /\ settings'.rate \in Nat
             /\ settings'.campaigns \subseteq CampaignRow(Product)
  <2>1. RateOn(master, today) \in Nat
    BY <1>4, <1>5, RateType DEF SettingsReadable
  <2>2. ActiveCampaigns(master, today) \subseteq CampaignRow(Product)
    BY <1>4, MastersAssumption DEF ActiveCampaigns
  <2> QED BY <1>5, <2>1, <2>2 DEF SettingsOn
<1>6. SettingsOfTheirDay'
  BY <1>4, <1>5 DEF SettingsOfTheirDay
<1>7. DOMAIN cart' \subseteq Product
  BY <1>1
<1>8. isMember' \in BOOLEAN
  OBVIOUS
<1>9. settings' = NoSettings \/
       /\ settings'.on \in 0 .. today
       /\ settings'.rate \in Nat
       /\ settings'.campaigns \subseteq CampaignRow(Product)
  BY <1>4, <1>5
<1>10. TypeOK'
  BY <1>1, <1>2, <1>3, <1>4, <1>7, <1>8, <1>9 DEF TypeOK
<1> QED BY <1>2, <1>6, <1>10

LEMMA AddProductStep ==
  ASSUME NEW c \in Product, IInv, AddProduct(c) PROVE IInv'
<1> USE DEF IInv, AddProduct
<1>1. SettingsOfTheirDay'
  BY DEF SettingsOfTheirDay, SettingsOn
<1>2. /\ DOMAIN cart' \subseteq Product
      /\ (cart \in [DOMAIN cart -> Line])'
      /\ IsFiniteSet(DOMAIN cart)'
      /\ (Cardinality(DOMAIN cart) =< LinesMax)'
  <2>1. CASE c \in DOMAIN cart
    <3>1. /\ cart[c] \in Line
          /\ cart[c].qty < QuantityMax
          /\ cart' = [cart EXCEPT ![c].qty = @ + 1]
      BY <2>1 DEF TypeOK
    <3>2. [cart[c] EXCEPT !.qty = @ + 1] \in Line
      BY <3>1, QuantityMaxAssumption DEF Line, Quantity
    <3>3. DOMAIN cart' = DOMAIN cart
      BY <3>1
    <3> QED BY <3>1, <3>2, <3>3 DEF TypeOK
  <2>2. CASE c \notin DOMAIN cart
    <3>1. DOMAIN cart' = DOMAIN cart \cup {c}
      BY <2>2
    <3>2. /\ IsFiniteSet(DOMAIN cart \cup {c})
          /\ Cardinality(DOMAIN cart \cup {c}) = Cardinality(DOMAIN cart) + 1
      BY <2>2, FS_AddElement
    <3>3. Cardinality(DOMAIN cart) + 1 =< LinesMax
      BY <2>2, LinesMaxAssumption, FS_CardinalityType
    <3>4. master.price[c] \in Nat
      BY MastersAssumption DEF TypeOK
    <3>5. [price |-> master.price[c], qty |-> 1] \in Line
      BY <3>4, QuantityMaxAssumption DEF Line, Quantity
    <3>6. (cart \in [DOMAIN cart -> Line])'
      BY <2>2, <3>1, <3>5 DEF TypeOK
    <3> QED BY <3>1, <3>2, <3>3, <3>6 DEF TypeOK
  <2> QED BY <2>1, <2>2
<1>3. TypeOK'
  BY <1>2 DEF TypeOK
<1> QED BY <1>1, <1>2, <1>3

LEMMA SetQuantityStep ==
  ASSUME NEW c \in Product, IInv, SetQuantity(c) PROVE IInv'
<1> USE DEF IInv, SetQuantity
<1>1. PICK q \in Quantity : cart' = [cart EXCEPT ![c].qty = q]
  OBVIOUS
<1>2. cart[c] \in Line
  BY DEF TypeOK
<1>3. [cart[c] EXCEPT !.qty = q] \in Line
  BY <1>2 DEF Line
<1>4. DOMAIN cart' = DOMAIN cart
  BY <1>1
<1>5. TypeOK'
  BY <1>1, <1>3, <1>4 DEF TypeOK
<1> QED BY <1>4, <1>5 DEF SettingsOfTheirDay, SettingsOn

LEMMA RemoveLineStep ==
  ASSUME NEW c \in Product, IInv, RemoveLine(c) PROVE IInv'
<1> USE DEF IInv, RemoveLine
<1>1. SettingsOfTheirDay'
  BY DEF SettingsOfTheirDay, SettingsOn
<1>2. DOMAIN cart' = DOMAIN cart \ {c}
  BY DEF Restrict
<1>3. /\ IsFiniteSet(DOMAIN cart \ {c})
      /\ Cardinality(DOMAIN cart \ {c}) = Cardinality(DOMAIN cart) - 1
  BY FS_RemoveElement
<1>4. Cardinality(DOMAIN cart) - 1 =< LinesMax
  BY LinesMaxAssumption, FS_CardinalityType DEF TypeOK
<1>5. (cart \in [DOMAIN cart -> Line])'
  BY <1>2 DEF TypeOK, Restrict
<1>6. TypeOK'
  BY <1>2, <1>3, <1>4, <1>5 DEF TypeOK
<1> QED BY <1>1, <1>2, <1>3, <1>6

LEMMA CloseCompletionStep == IInv /\ CloseCompletion => IInv'
<1> SUFFICES ASSUME IInv, CloseCompletion PROVE IInv'
  OBVIOUS
<1> USE DEF IInv, CloseCompletion
<1>1. DOMAIN cart' = {} /\ (cart \in [DOMAIN cart -> Line])'
  BY DEF NoLines
<1>2. IsFiniteSet(DOMAIN cart)' /\ (Cardinality(DOMAIN cart) =< LinesMax)'
  BY <1>1, FS_EmptySet, LinesMaxAssumption
<1>3. (answer.status = "none")'
  BY DEF NoAnswer
<1>4. DOMAIN cart' \subseteq Product
  BY <1>1
<1>5. TypeOK'
  BY <1>1, <1>2, <1>3, <1>4 DEF TypeOK
<1> QED BY <1>2, <1>5 DEF SettingsOfTheirDay, SettingsOn

(* The settings a screen kept over the night are never those of the new    *)
(* date: their date is an earlier one.                                     *)
LEMMA NextDayStep == IInv /\ NextDay => IInv'
<1> SUFFICES ASSUME IInv, NextDay PROVE IInv'
  OBVIOUS
<1> USE DEF IInv, NextDay
<1>1. today' \in 0 .. LastDay /\ today' = today + 1 /\ today \in Nat
  BY LastDayAssumption DEF TypeOK
<1>2. TypeOK'
  BY <1>1 DEF TypeOK
<1>3. settings # NoSettings => settings.on # today'
  BY <1>1 DEF TypeOK
<1> QED BY <1>2, <1>3 DEF SettingsOfTheirDay

LEMMA NextIInv == IInv /\ [Next]_vars => IInv'
<1> SUFFICES ASSUME IInv, [Next]_vars PROVE IInv'
  OBVIOUS
<1>1. CASE OpenScreen
  BY <1>1, OpenScreenStep
<1>2. ASSUME NEW c \in Product, AddProduct(c) PROVE IInv'
  BY <1>2, AddProductStep
<1>3. ASSUME NEW c \in Product, RemoveLine(c) PROVE IInv'
  BY <1>3, RemoveLineStep
<1>4. CASE SetMember
  BY <1>4 DEF SetMember, IInv, TypeOK, SettingsOfTheirDay, SettingsOn
<1>5. CASE Purchase
  <2>1. answer'.status \in {"created", "PRODUCT_NOT_FOUND",
                           "TOTALS_MISMATCH", "INTERNAL_ERROR"}
    BY <1>5 DEF Purchase
  <2> QED BY <1>5, <2>1
          DEF Purchase, IInv, TypeOK, SettingsOfTheirDay, SettingsOn
<1>6. CASE CloseCompletion
  BY <1>6, CloseCompletionStep
<1>7. CASE NextDay
  BY <1>7, NextDayStep
<1>8. ASSUME NEW c \in Product, SetQuantity(c) PROVE IInv'
  BY <1>8, SetQuantityStep
<1>9. CASE UNCHANGED vars
  BY <1>9 DEF vars, IInv, TypeOK, SettingsOfTheirDay, SettingsOn
<1> QED BY <1>1, <1>2, <1>3, <1>4, <1>5, <1>6, <1>7, <1>8, <1>9 DEF Next

(* On a fresh screen every line discount, hence every total, is the        *)
(* backend's; prices are the master's and the rate is the day's.           *)
LEMMA IInvAgrees == IInv => FreshScreenAgrees
<1> SUFFICES ASSUME IInv, Fresh, Calculable PROVE Shown = Recalculated
  BY DEF FreshScreenAgrees
<1>1. settings = SettingsOn(master, today)
  BY DEF IInv, SettingsOfTheirDay, Fresh
<1>2. settings.campaigns = ActiveCampaigns(master, today)
      /\ settings.rate = RateOn(master, today)
  BY <1>1 DEF SettingsOn
<1>3. /\ \A c \in DOMAIN cart : cart[c] \in Line /\ c \in Product
      /\ DOMAIN cart \in SUBSET Product
      /\ master \in Masters /\ today \in Int /\ isMember \in BOOLEAN
  BY LastDayAssumption DEF IInv, TypeOK
<1>4. MasterCart = cart
  <2>1. \A c \in DOMAIN cart : [cart[c] EXCEPT !.price = master.price[c]] = cart[c]
    BY <1>3 DEF Fresh, Line
  <2> QED BY <2>1 DEF MasterCart, IInv, TypeOK
<1>5. \A c \in DOMAIN cart :
        ClientLineDiscount(c, cart[c], isMember, settings.campaigns) =
        ServerLineDiscount(c, cart[c], isMember, CampaignsOf(DOMAIN cart), today)
  BY <1>2, <1>3, LineDiscountsAgree DEF Calculable, CampaignsOf
<1>6. [c \in DOMAIN cart |->
         ClientLineDiscount(c, cart[c], isMember, settings.campaigns)] =
      [c \in DOMAIN cart |->
         ServerLineDiscount(c, cart[c], isMember, CampaignsOf(DOMAIN cart), today)]
  BY <1>5
<1> QED BY <1>2, <1>4, <1>6 DEF Shown, Recalculated, ClientTotals, ServerTotals

-----------------------------------------------------------------------------
(* The cart, the settings and the answer always have their types: the cart *)
(* respects QUANTITY_MAX and LINES_MAX.                                    *)
THEOREM TypeCorrect == Spec => []TypeOK
<1>1. IInv => TypeOK
  BY DEF IInv
<1> QED BY <1>1, InitIInv, NextIInv, PTL DEF Spec

(* For every product range, master contents and number of days: a screen   *)
(* opened today with current prices shows what the backend computes.       *)
THEOREM ScreenAndBackendAgree == Spec => []FreshScreenAgrees
BY InitIInv, NextIInv, IInvAgrees, PTL DEF Spec

-----------------------------------------------------------------------------
(* The best of the discounts of a line, if any, stays within the line.     *)
LEMMA ServerDiscountBound ==
  ASSUME NEW code, NEW line \in Line, NEW member \in BOOLEAN, NEW day \in Int,
         NEW campaigns \in SUBSET CampaignRow(Product),
         \A c \in campaigns : ValidCampaign(c)
  PROVE  ServerLineDiscount(code, line, member, campaigns, day)
           \in 0 .. (line.price * line.qty)
<1> DEFINE discounts == ServerDiscounts(code, line, campaigns, day)
           bound     == line.price * line.qty
<1>1. bound \in Nat
  BY QuantityMaxAssumption DEF Line, Quantity
<1>2. discounts \in SUBSET (0 .. bound)
  <2>1. \A c \in campaigns : ServerDiscountFor(line, c) \in 0 .. bound
    BY DiscountWithinLine
  <2> HIDE DEF bound
  <2> QED BY <2>1 DEF ServerDiscounts
<1> HIDE DEF bound, discounts
<1>3. discounts # {} => Max(discounts) \in discounts
  <2> SUFFICES ASSUME discounts # {} PROVE Max(discounts) \in discounts
    OBVIOUS
  <2>1. PICK m \in discounts : \A x \in discounts : m >= x
    BY <1>1, <1>2, BoundedSetHasMax
  <2> QED BY <1>2, <2>1, MaxIs
<1>4. ServerLineDiscount(code, line, member, campaigns, day) =
        IF ~member \/ discounts = {} THEN 0 ELSE Max(discounts)
  BY DEF ServerLineDiscount, discounts
<1>5. 0 \in 0 .. bound
  BY <1>1
<1>6. ServerLineDiscount(code, line, member, campaigns, day) \in 0 .. bound
  BY <1>2, <1>3, <1>4, <1>5
<1> QED BY <1>6 DEF bound

(* Totals of lines whose discounts stay within them, at a rate that is no  *)
(* less than zero.                                                         *)
LEMMA TotalsAreSound ==
  ASSUME NEW D, IsFiniteSet(D), NEW lines \in [D -> Line],
         NEW off \in [D -> Nat], NEW rate \in Nat,
         \A c \in D : off[c] =< lines[c].price * lines[c].qty
  PROVE  LET t == TotalsOf(lines, off, rate)
         IN  /\ t.discount_total \in 0 .. t.subtotal
             /\ t.tax_amount \in Nat
             /\ t.total \in Int /\ t.total >= t.tax_amount
<1> DEFINE amount == [c \in D |-> lines[c].price * lines[c].qty]
           subtotal == SumFunction(amount)
           discount == SumFunction(off)
           tax == ((subtotal - discount) * rate) \div 10000
<1>1. amount \in [D -> Nat]
  <2>1. ASSUME NEW c \in D PROVE lines[c].price * lines[c].qty \in Nat
    BY QuantityMaxAssumption DEF Line, Quantity
  <2> QED BY <2>1
<1>2. \A c \in D : off[c] =< amount[c]
  OBVIOUS
<1>3. subtotal \in Nat /\ discount \in Nat /\ discount =< subtotal
  <2> HIDE DEF amount
  <2> QED BY <1>1, <1>2, SumsCompare
<1>4. DOMAIN lines = D
  OBVIOUS
<1>5. TotalsOf(lines, off, rate) =
        [subtotal |-> subtotal, discount_total |-> discount,
         tax_amount |-> tax, total |-> (subtotal - discount) + tax]
  BY <1>4 DEF TotalsOf
<1> HIDE DEF subtotal, discount
<1>6. tax \in Nat
  <2> DEFINE taxed == (subtotal - discount) * rate
  <2>1. taxed \in Nat
    <3>1. subtotal - discount \in Nat
      BY <1>3
    <3> QED BY <3>1
  <2> HIDE DEF taxed
  <2>2. taxed \div 10000 \in Nat
    BY <2>1
  <2> QED BY <2>2 DEF taxed
<1> HIDE DEF tax
<1> QED BY <1>3, <1>5, <1>6

(* What the backend computes from valid campaigns is a sound bill.         *)
LEMMA RecalculatedIsSound ==
  ASSUME IInv, AllOnSale, Calculable
  PROVE  /\ Recalculated.discount_total \in 0 .. Recalculated.subtotal
         /\ Recalculated.tax_amount \in Nat
         /\ Recalculated.total \in Int
         /\ Recalculated.total >= Recalculated.tax_amount
<1> DEFINE D == DOMAIN cart
           rate == RateOn(master, today)
           off == [c \in D |-> ServerLineDiscount(c, MasterCart[c], isMember,
                                                  CampaignsOf(D), today)]
<1>1. /\ master \in Masters /\ today \in Nat /\ isMember \in BOOLEAN
      /\ IsFiniteSet(D) /\ D \subseteq Product /\ cart \in [D -> Line]
  BY LastDayAssumption DEF IInv, TypeOK
<1>2. MasterCart \in [D -> Line]
  <2>1. \A c \in D : master.price[c] \in Nat
    BY <1>1, MastersAssumption
  <2>2. \A c \in D : [cart[c] EXCEPT !.price = master.price[c]] \in Line
    BY <1>1, <2>1 DEF Line
  <2> QED BY <2>2 DEF MasterCart
<1>3. rate \in Nat
  BY <1>1, RateType DEF Calculable
<1>4. CampaignsOf(D) \in SUBSET CampaignRow(Product)
  BY <1>1, MastersAssumption DEF CampaignsOf
<1>5. \A c \in D : off[c] \in 0 .. (MasterCart[c].price * MasterCart[c].qty)
  BY <1>1, <1>2, <1>4, ServerDiscountBound DEF Calculable
<1>6. off \in [D -> Nat] /\ \A c \in D : off[c] =< MasterCart[c].price * MasterCart[c].qty
  BY <1>5
<1>7. Recalculated = TotalsOf(MasterCart, off, rate)
  BY DEF Recalculated, ServerTotals, MasterCart
<1> HIDE DEF off, rate, D
<1> QED BY <1>1, <1>2, <1>3, <1>6, <1>7, TotalsAreSound

(* Only a purchase makes an answer that says "created".                    *)
LEMMA NextSoundSale == IInv /\ SoundSale /\ [Next]_vars => SoundSale'
<1> SUFFICES ASSUME IInv, SoundSale, [Next]_vars PROVE SoundSale'
  OBVIOUS
<1>1. CASE Purchase
  <2> SUFFICES ASSUME answer'.status = "created"
               PROVE  /\ answer'.saved = answer'.shown
                      /\ answer'.saved.discount_total \in 0 .. answer'.saved.subtotal
                      /\ answer'.saved.total \in answer'.saved.tax_amount .. ColumnMax
                      /\ answer'.saved.tax_amount >= 0
    BY DEF SoundSale
  <2>1. /\ AllOnSale /\ Calculable /\ Shown = Recalculated /\ Storable(Recalculated)
        /\ answer' = [status |-> "created", shown |-> Shown, saved |-> Recalculated]
    BY <1>1 DEF Purchase, Verified
  <2>2. answer'.saved = Recalculated /\ answer'.shown = Recalculated
    BY <2>1
  <2> QED BY <2>1, <2>2, RecalculatedIsSound, ColumnMaxAssumption DEF Storable
<1>2. CASE answer' = NoAnswer
  BY <1>2 DEF SoundSale, NoAnswer
<1>3. CASE UNCHANGED answer
  BY <1>3 DEF SoundSale
<1> QED BY <1>1, <1>2, <1>3 DEF Next, vars, OpenScreen, AddProduct, SetQuantity,
           RemoveLine, SetMember, CloseCompletion, NextDay

(* Whatever the masters, the screen's age and the number of lines: what is *)
(* saved is what was shown, no discount exceeds its goods, no total is     *)
(* negative and none is more than its column holds.                        *)
THEOREM SalesAreSound == Spec => []SoundSale
<1>1. Init => SoundSale
  BY DEF Init, NoAnswer, SoundSale
<1> QED BY <1>1, InitIInv, NextIInv, NextSoundSale, PTL DEF Spec

-----------------------------------------------------------------------------
(* The discounts of a line on the screen are natural numbers, even for     *)
(* campaigns the backend would refuse.                                     *)
LEMMA ClientDiscountType ==
  ASSUME NEW code, NEW line \in Line, NEW member \in BOOLEAN,
         NEW campaigns \in SUBSET CampaignRow(Product)
  PROVE  ClientLineDiscount(code, line, member, campaigns) \in Nat
<1> DEFINE discounts == ClientDiscounts(code, line, campaigns)
           bound     == (line.price * ColumnMax) * line.qty
<1>1. line.price \in Nat /\ line.qty \in Nat /\ bound \in Nat
  BY QuantityMaxAssumption, ColumnMaxAssumption DEF Line, Quantity
<1>2. ASSUME NEW c \in campaigns PROVE ClientDiscountFor(line, c) \in 0 .. bound
  <2>1. c.value \in 1 .. ColumnMax
    BY DEF CampaignRow
  <2> DEFINE off == IF c.type = "percent" THEN (line.price * c.value) \div 100
                    ELSE IF c.value =< line.price THEN c.value ELSE line.price
             most == line.price * ColumnMax
  <2>2. line.price * c.value \in Nat /\ line.price * c.value =< most /\ most \in Nat
        /\ line.price =< most
    BY <1>1, <2>1, ColumnMaxAssumption
  <2>3. off \in 0 .. most
    <3> DEFINE n == line.price * c.value
    <3>1. n \in Nat /\ n =< most /\ most \in Nat
      BY <2>2
    <3> HIDE DEF n, most
    <3>2. n \div 100 \in 0 .. most
      BY <3>1
    <3>3. line.price \in 0 .. most /\ c.value \in Nat
      BY <1>1, <2>1, <2>2, ColumnMaxAssumption DEF most
    <3> QED BY <3>1, <3>2, <3>3 DEF n
  <2> HIDE DEF off, most
  <2>4. off * line.qty \in Nat /\ off * line.qty =< most * line.qty
    BY <1>1, <2>2, <2>3
  <2>5. ClientDiscountFor(line, c) = off * line.qty
    BY DEF ClientDiscountFor, off
  <2> QED BY <1>1, <2>4, <2>5 DEF most
<1> HIDE DEF bound
<1>3. discounts \in SUBSET (0 .. bound)
  BY <1>2 DEF ClientDiscounts
<1> HIDE DEF discounts
<1>4. Max({0} \cup discounts) \in Nat
  <2>1. {0} \cup discounts \in SUBSET (0 .. bound) /\ {0} \cup discounts # {}
    BY <1>1, <1>3
  <2>2. PICK m \in {0} \cup discounts : \A x \in {0} \cup discounts : m >= x
    BY <1>1, <2>1, BoundedSetHasMax
  <2>3. Max({0} \cup discounts) = m
    BY <2>1, <2>2, MaxIs
  <2> QED BY <2>1, <2>2, <2>3
<1> QED BY <1>4 DEF ClientLineDiscount, discounts

(* What a purchase accepts: sums that are equal, and what they are sums of. *)
LEMMA AcceptedSums ==
  ASSUME IInv, Purchase, answer'.status = "created"
  PROVE  LET D == DOMAIN cart
             off == [c \in D |-> ClientLineDiscount(c, cart[c], isMember, settings.campaigns)]
             serverOff == [c \in D |-> ServerLineDiscount(c, MasterCart[c], isMember,
                                                           CampaignsOf(D), today)]
             amount == [c \in D |-> cart[c].price * cart[c].qty]
             serverAmount == [c \in D |-> master.price[c] * cart[c].qty]
         IN  /\ IsFiniteSet(D)
             /\ off \in [D -> Nat] /\ serverOff \in [D -> Nat]
             /\ amount \in [D -> Nat] /\ serverAmount \in [D -> Nat]
             /\ SumFunction(off) = SumFunction(serverOff)
             /\ SumFunction(amount) = SumFunction(serverAmount)
             /\ \A c \in D : cart[c].price \in Nat /\ master.price[c] \in Nat
                              /\ cart[c].qty \in Quantity
<1> DEFINE D == DOMAIN cart
           off == [c \in D |-> ClientLineDiscount(c, cart[c], isMember, settings.campaigns)]
           serverOff == [c \in D |-> ServerLineDiscount(c, MasterCart[c], isMember,
                                                         CampaignsOf(D), today)]
           amount == [c \in D |-> cart[c].price * cart[c].qty]
           serverAmount == [c \in D |-> master.price[c] * cart[c].qty]
<1>1. /\ Calculable /\ Shown = Recalculated
      /\ settings # NoSettings
  BY DEF Purchase, CanPurchase, Verified
<1>2. /\ master \in Masters /\ today \in Nat /\ isMember \in BOOLEAN
      /\ IsFiniteSet(D) /\ D \subseteq Product /\ cart \in [D -> Line]
      /\ settings.campaigns \in SUBSET CampaignRow(Product)
  BY <1>1, LastDayAssumption DEF IInv, TypeOK
<1>3. \A c \in D : cart[c].price \in Nat /\ master.price[c] \in Nat
                   /\ cart[c].qty \in Quantity /\ cart[c].qty \in Nat
  BY <1>2, MastersAssumption, QuantityMaxAssumption DEF Line, Quantity
<1>4. MasterCart = [c \in D |-> [price |-> master.price[c], qty |-> cart[c].qty]]
  <2>1. \A c \in D : [cart[c] EXCEPT !.price = master.price[c]] =
                       [price |-> master.price[c], qty |-> cart[c].qty]
    BY <1>2 DEF Line
  <2> QED BY <2>1 DEF MasterCart
<1>5. \A c \in D : MasterCart[c] \in Line
  BY <1>3, <1>4 DEF Line
<1>6. off \in [D -> Nat]
  BY <1>2, ClientDiscountType
<1>7. serverOff \in [D -> Nat]
  <2>1. CampaignsOf(D) \in SUBSET CampaignRow(Product)
    BY <1>2, MastersAssumption DEF CampaignsOf
  <2>2. ASSUME NEW c \in D PROVE serverOff[c] \in Nat
    <3>1. serverOff[c] \in 0 .. (MasterCart[c].price * MasterCart[c].qty)
      BY <1>1, <1>2, <1>5, <2>1, ServerDiscountBound DEF Calculable
    <3> QED BY <3>1
  <2> QED BY <2>2
<1>8. amount \in [D -> Nat] /\ serverAmount \in [D -> Nat]
  BY <1>3
<1>9. Shown.subtotal = SumFunction(amount) /\ Shown.discount_total = SumFunction(off)
  BY DEF Shown, ClientTotals, TotalsOf
<1>10. Recalculated.subtotal = SumFunction(serverAmount)
       /\ Recalculated.discount_total = SumFunction(serverOff)
  <2>1. DOMAIN MasterCart = D
        /\ [c \in D |-> MasterCart[c].price * MasterCart[c].qty] = serverAmount
    BY <1>4
  <2> HIDE DEF serverAmount
  <2> QED BY <2>1 DEF Recalculated, ServerTotals, TotalsOf
<1> QED BY <1>1, <1>2, <1>3, <1>6, <1>7, <1>8, <1>9, <1>10

(* However old the screen: lines saved with other prices or discounts than *)
(* those shown come at least in pairs, one dearer and one cheaper.         *)
THEOREM DifferencesComeInPairs == Spec => HiddenDifferencesCancel
<1> DEFINE D == DOMAIN cart
           off == [c \in D |-> ClientLineDiscount(c, cart[c], isMember, settings.campaigns)]
           serverOff == [c \in D |-> ServerLineDiscount(c, MasterCart[c], isMember,
                                                         CampaignsOf(D), today)]
           amount == [c \in D |-> cart[c].price * cart[c].qty]
           serverAmount == [c \in D |-> master.price[c] * cart[c].qty]
<1>1. ASSUME IInv, Purchase, answer'.status = "created"
      PROVE  Cancel([c \in D |-> cart[c].price], master.price) /\ Cancel(off, serverOff)
  <2>1. /\ IsFiniteSet(D)
        /\ off \in [D -> Nat] /\ serverOff \in [D -> Nat]
        /\ amount \in [D -> Nat] /\ serverAmount \in [D -> Nat]
        /\ SumFunction(off) = SumFunction(serverOff)
        /\ SumFunction(amount) = SumFunction(serverAmount)
        /\ \A c \in D : cart[c].price \in Nat /\ master.price[c] \in Nat
                         /\ cart[c].qty \in Quantity
    BY <1>1, AcceptedSums
  <2>2. Cancel(off, serverOff)
    <3> HIDE DEF off, serverOff
    <3> QED BY <2>1, EqualSumsCancel DEF Cancel
  <2>3. \A c \in D : /\ amount[c] < serverAmount[c] <=> cart[c].price < master.price[c]
                     /\ amount[c] > serverAmount[c] <=> cart[c].price > master.price[c]
    <3>1. ASSUME NEW p \in Nat, NEW m \in Nat, NEW q \in Nat \ {0}, p < m
          PROVE  p * q < m * q
      BY <3>1
    <3>2. ASSUME NEW c \in D
          PROVE  /\ amount[c] < serverAmount[c] <=> cart[c].price < master.price[c]
                 /\ amount[c] > serverAmount[c] <=> cart[c].price > master.price[c]
      <4> DEFINE p == cart[c].price
                 m == master.price[c]
                 q == cart[c].qty
      <4>1. p \in Nat /\ m \in Nat /\ q \in Nat \ {0}
        BY <2>1, QuantityMaxAssumption DEF Quantity
      <4>2. amount[c] = p * q /\ serverAmount[c] = m * q
        OBVIOUS
      <4> HIDE DEF p, m, q, amount, serverAmount
      <4>3. (p < m => p * q < m * q) /\ (m < p => m * q < p * q)
        BY <3>1, <4>1
      <4>4. p * q \in Nat /\ m * q \in Nat
        BY <4>1
      <4>5. amount[c] < serverAmount[c] <=> p < m
        BY <4>1, <4>2, <4>3, <4>4
      <4>6. amount[c] > serverAmount[c] <=> p > m
        BY <4>1, <4>2, <4>3, <4>4
      <4> QED BY <4>5, <4>6 DEF p, m
    <3> QED BY <3>2
  <2>4. (\E c \in D : amount[c] < serverAmount[c]) <=> (\E c \in D : amount[c] > serverAmount[c])
    <3> HIDE DEF amount, serverAmount
    <3> QED BY <2>1, EqualSumsCancel
  <2>5. Cancel([c \in D |-> cart[c].price], master.price)
    <3> HIDE DEF amount, serverAmount
    <3> QED BY <2>3, <2>4 DEF Cancel
  <2> QED BY <2>2, <2>5
<1>2. IInv /\ [Next]_vars =>
        [Purchase /\ answer'.status = "created" =>
           Cancel([c \in D |-> cart[c].price], master.price) /\ Cancel(off, serverOff)]_vars
  BY <1>1
<1> QED BY <1>2, InitIInv, NextIInv, PTL DEF Spec, HiddenDifferencesCancel
=============================================================================
