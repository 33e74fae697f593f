------------------------------ MODULE PartsProofs ------------------------------
(***************************************************************************)
(* What the stateless parts answer, for every question: theorems about their   *)
(* operators, and from them the invariants of Parts.                          *)
(***************************************************************************)
EXTENDS Parts, TLAPS, WellFoundedInduction, FiniteSetTheorems, SequenceTheorems
-----------------------------------------------------------------------------
(* Arithmetic, and the plan of the simulator. *)

\* A part of an amount, in shares of a whole.
LEMMA Share ==
  ASSUME NEW amount \in Nat, NEW whole \in Nat, NEW part \in 0..whole
  PROVE  amount * part \in 0..(amount * whole)
<1>1. part \in Nat /\ whole - part \in Nat OBVIOUS
<1>2. amount * part \in Nat /\ amount * (whole - part) \in Nat
  <2>1. \A a, b \in Nat : a * b \in Nat OBVIOUS
  <2> QED BY <1>1, <2>1
<1>3. amount * part + amount * (whole - part) = amount * whole BY <1>1
<1> QED BY <1>1, <1>2, <1>3

\* A factor is cancelled from both sides.
LEMMA Cancel ==
  ASSUME NEW a \in Int, NEW b \in Int, NEW price \in Nat, price > 0, a * price >= b * price
  PROVE  a >= b
<1> SUFFICES ASSUME a < b PROVE FALSE OBVIOUS
<1>1. a + 1 <= b OBVIOUS
<1>2. (b - a) * price >= price
  <2>1. (b - a - 1) >= 0 BY <1>1
  <2>2. PICK d \in Nat : d = b - a - 1 BY <2>1
  <2>3. d * price \in Nat OBVIOUS
  <2>4. (d + 1) * price = d * price + price OBVIOUS
  <2> QED BY <2>2, <2>3, <2>4
<1>3. (b - a) * price = b * price - a * price OBVIOUS
<1>4. a * price \in Int /\ b * price \in Int OBVIOUS
<1> QED BY <1>2, <1>3, <1>4

\* What a division leaves out is less than the divisor.
LEMMA Quotient ==
  ASSUME NEW x \in Nat, NEW d \in Nat, d > 0
  PROVE  x \div d \in Nat /\ (x \div d) * d <= x /\ x < (x \div d + 1) * d
  OBVIOUS

\* A product grows with its factor.
LEMMA Monotone ==
  ASSUME NEW a \in Int, NEW b \in Int, a <= b, NEW price \in Nat
  PROVE  a * price <= b * price
<1>2. PICK d \in Nat : b = a + d OBVIOUS
<1>3. d * price \in Nat OBVIOUS
<1>4. (a + d) * price = a * price + d * price OBVIOUS
<1> QED BY <1>2, <1>3, <1>4

\* A division rounded up covers what it divides.
LEMMA Ceiling ==
  ASSUME NEW x \in Nat, NEW d \in Nat, d > 0
  PROVE  LET up == (x + d - 1) \div d IN up \in Nat /\ up * d >= x /\ (x > 0 => up > 0) /\ \A n \in Int : n * d >= x => n >= up
<1> DEFINE up == (x + d - 1) \div d
<1>1. up \in Nat /\ up * d <= x + d - 1 /\ x + d - 1 < (up + 1) * d BY Quotient
<1> HIDE DEF up
<1>2. (up + 1) * d = up * d + d BY <1>1
<1>3. up * d >= x BY <1>1, <1>2
<1>4. x > 0 => up > 0 BY <1>1, <1>3
<1>5. ASSUME NEW n \in Int, n * d >= x PROVE n >= up
  <2>1. n * d + d - 1 >= up * d BY <1>1, <1>5
  <2>2. (n + 1) * d = n * d + d OBVIOUS
  <2> SUFFICES ASSUME n + 1 <= up PROVE FALSE BY <1>1
  <2>3. (n + 1) * d <= up * d BY Monotone, <1>1
  <2> QED BY <2>1, <2>2, <2>3, <1>1
<1> QED BY <1>1, <1>3, <1>4, <1>5 DEF up
-----------------------------------------------------------------------------
(* The simulator: what a plan promises, for every borrower, price and route. *)

IsInput(input) ==
  /\ input.debt \in Nat /\ input.collateral \in Nat /\ input.debtPrice \in Nat /\ input.collPrice \in Nat
  /\ input.closeFactorBps \in Nat /\ input.closeFactorBps <= 10000 /\ input.bonusBps \in Nat /\ input.maxRepayUsd \in Nat
  /\ input.floorBps \in Nat /\ input.borrowShares \in Nat /\ input.gasCapUsd \in Nat /\ input.nativePriceUsd \in Nat
  /\ input.preliq # NoOffer => input.preliq.closeFactorBps \in Nat /\ input.preliq.incentiveBps \in Nat

\* The terms a plan is made on are shares of one.
LEMMA Terms ==
  ASSUME NEW input, IsInput(input)
  PROVE  /\ closeFactorBps(input) = IF usePreliq(input) THEN input.preliq.closeFactorBps ELSE input.closeFactorBps
         /\ closeFactorBps(input) \in Nat /\ closeFactorBps(input) <= 10000 /\ bonusBps(input) \in Nat
<1>1. CASE usePreliq(input)
  <2>1. input.preliq # NoOffer /\ input.preliq.closeFactorBps <= 10000 BY <1>1, SMT DEF usePreliq
  <2>2. input.preliq.incentiveBps \in Nat /\ input.preliq.closeFactorBps \in Nat BY <2>1, SMT DEF IsInput
  <2> QED BY <1>1, <2>1, <2>2, SMT DEF closeFactorBps, bonusBps
<1>2. CASE ~usePreliq(input)
  BY <1>2 DEF IsInput, closeFactorBps, bonusBps
<1> QED BY <1>1, <1>2

\* The share of the debt that may be closed bounds the repayment, and so does the cap.
LEMMA RepayBounds ==
  ASSUME NEW input, IsInput(input), input.debtPrice > 0
  PROVE  /\ repayAmount(input) \in Nat
         /\ repayAmount(input) * 10000 <= input.debt * closeFactorBps(input)
         /\ repayAmount(input) <= input.debt
         /\ input.maxRepayUsd > 0 => repayAmount(input) * input.debtPrice <= input.maxRepayUsd
<1> DEFINE product == input.debt * closeFactorBps(input)
           share == applyBps(input.debt, closeFactorBps(input))
           cap == input.maxRepayUsd \div input.debtPrice
<1>1. product \in Nat /\ product <= input.debt * 10000
  <2>1. PICK whole \in Nat : whole = 10000 OBVIOUS
  <2>a. closeFactorBps(input) \in Nat /\ closeFactorBps(input) <= 10000 BY Terms
  <2>b. PICK part \in Nat : part = closeFactorBps(input) /\ part <= whole BY <2>1, <2>a
  <2>c. \A a, b \in Nat : a <= b => a \in 0..b OBVIOUS
  <2>2. part \in 0..whole BY <2>b, <2>c
  <2>3. input.debt \in Nat BY DEF IsInput
  <2>4. input.debt * part \in 0..(input.debt * whole) BY <2>2, <2>3, Share, Zenon
  <2> QED BY <2>1, <2>b, <2>4
<1>2. share \in Nat /\ share * 10000 <= product
  <2>1. share = product \div 10000 BY DEF applyBps
  <2> HIDE DEF product
  <2> QED BY <1>1, <2>1
<1>3. cap \in Nat /\ cap * input.debtPrice <= input.maxRepayUsd
  <2>1. input.maxRepayUsd \in Nat /\ input.debtPrice \in Nat BY DEF IsInput
  <2> QED BY <2>1, Quotient
<1>4. repayAmount(input) = IF input.maxRepayUsd > 0 /\ share * input.debtPrice > input.maxRepayUsd /\ cap < share
                           THEN cap ELSE share
  BY DEF repayAmount
<1> HIDE DEF share, cap
<1>5. repayAmount(input) \in Nat /\ repayAmount(input) <= share BY <1>2, <1>3, <1>4
<1>6. repayAmount(input) * 10000 <= product
  <2> HIDE DEF product
  <2> QED BY <1>1, <1>2, <1>5
<1>7. repayAmount(input) <= input.debt
  <2>1. input.debt \in Nat BY DEF IsInput
  <2> HIDE DEF product
  <2> QED BY <1>1, <1>5, <1>6, <2>1
<1>8. ASSUME input.maxRepayUsd > 0 PROVE repayAmount(input) * input.debtPrice <= input.maxRepayUsd
  <2>1. CASE repayAmount(input) = cap BY <1>3, <2>1
  <2>2. CASE repayAmount(input) = share /\ share * input.debtPrice <= input.maxRepayUsd BY <2>2
  <2>3. CASE repayAmount(input) = share /\ ~(cap < share)
    <3>1. share * input.debtPrice <= cap * input.debtPrice BY <1>2, <1>3, <2>3, Monotone DEF IsInput
    <3>2. share * input.debtPrice \in Int /\ cap * input.debtPrice \in Int /\ input.maxRepayUsd \in Int
      BY <1>2, <1>3 DEF IsInput
    <3> QED BY <1>3, <2>3, <3>1, <3>2
  <2>4. share * input.debtPrice \in Int /\ input.maxRepayUsd \in Int BY <1>2 DEF IsInput
  <2> QED BY <1>4, <1>8, <2>1, <2>2, <2>3, <2>4
<1> QED BY <1>5, <1>6, <1>7, <1>8

\* No more is seized than there is.
LEMMA SeizeBounds ==
  ASSUME NEW input, IsInput(input), input.debtPrice > 0, input.collPrice > 0
  PROVE  seizeAmount(input) \in Nat /\ seizeAmount(input) <= input.collateral
<1> DEFINE worth == repayAmount(input) * input.debtPrice * (10000 + bonusBps(input))
           unit == 10000 * input.collPrice
           raw == worth \div unit
<1>1. worth \in Nat
  <2>1. \A a, b, c \in Nat : a * b * c \in Nat OBVIOUS
  <2>2. repayAmount(input) \in Nat BY RepayBounds
  <2>3. bonusBps(input) \in Nat BY Terms
  <2>4. input.debtPrice \in Nat BY DEF IsInput
  <2>5. 10000 + bonusBps(input) \in Nat BY <2>3
  <2> QED BY <2>1, <2>2, <2>4, <2>5
<1>2. unit \in Nat /\ unit > 0 BY DEF IsInput
<1>3. seizeAmount(input) = IF raw > input.collateral THEN input.collateral ELSE raw BY DEF seizeAmount
<1>4. raw \in Nat
  <2> HIDE DEF worth, unit
  <2> QED BY <1>1, <1>2, Quotient
<1> HIDE DEF raw
<1> QED BY <1>3, <1>4 DEF IsInput

\* The profit asked of the contract is the policy's share of the repayment, rounded up.
LEMMA ProfitBounds ==
  ASSUME NEW input, IsInput(input), input.debtPrice > 0
  PROVE  /\ minProfit(input) \in Nat /\ minProfit(input) * 10000 >= input.floorBps * repayAmount(input)
         /\ \A profit \in Nat : profit * 10000 >= input.floorBps * repayAmount(input) => profit >= minProfit(input)
<1> DEFINE floor == repayAmount(input) * input.floorBps
<1>1. repayAmount(input) \in Nat /\ input.floorBps \in Nat BY RepayBounds DEF IsInput
<1>2. floor \in Nat /\ floor = input.floorBps * repayAmount(input) BY <1>1
<1>3. CASE input.floorBps > 0
  <2>1. minProfit(input) = (floor + 10000 - 1) \div 10000 BY <1>3 DEF minProfit, ceilDiv
  <2> HIDE DEF floor
  <2> QED BY <1>2, <2>1, Ceiling
<1>4. CASE input.floorBps = 0
  <2>1. minProfit(input) = 0 BY <1>4 DEF minProfit
  <2>2. floor = 0 BY <1>1, <1>4
  <2> QED BY <1>2, <2>1, <2>2
<1> QED BY <1>1, <1>3, <1>4

\* Morpho's shares are worth the amount at the least, and never more than are owed.
LEMMA SharesBounds ==
  ASSUME NEW input, IsInput(input), input.debtPrice > 0, input.debt > 0, input.borrowShares > 0,
         repayAmount(input) > 0
  PROVE  /\ repayShares(input) \in 1..input.borrowShares
         /\ repayShares(input) * input.debt >= repayAmount(input) * input.borrowShares
<1> DEFINE worth == repayAmount(input) * input.borrowShares
           shares == ceilDiv(worth, input.debt)
<1>1. repayAmount(input) \in Nat /\ repayAmount(input) <= input.debt /\ input.borrowShares \in Nat /\ input.debt \in Nat
  BY RepayBounds DEF IsInput
<1>2. worth \in Nat /\ worth > 0
  <2>1. \A a, b \in Nat : a > 0 /\ b > 0 => a * b \in Nat /\ a * b > 0 OBVIOUS
  <2> QED BY <1>1, <2>1
<1>3. shares \in Nat /\ shares * input.debt >= worth /\ shares > 0
  <2> HIDE DEF worth
  <2> QED BY <1>1, <1>2, Ceiling DEF ceilDiv
<1>4. input.borrowShares * input.debt >= worth
  <2>1. repayAmount(input) * input.borrowShares <= input.debt * input.borrowShares BY <1>1, Monotone
  <2>2. input.debt * input.borrowShares = input.borrowShares * input.debt BY <1>1
  <2> QED BY <2>1, <2>2
<1>5. repayShares(input) = IF shares > input.borrowShares THEN input.borrowShares ELSE shares BY DEF repayShares
<1> HIDE DEF shares
<1> QED BY <1>1, <1>3, <1>4, <1>5

\* A route that passes the policy's floor leaves the profit the contract insists on.
LEMMA PassingPays ==
  ASSUME NEW input, IsInput(input), input.debtPrice > 0, NEW route, route.amountOutMin \in Int, NEW gasUsd \in Nat,
         Passes(input, route, gasUsd)
  PROVE  /\ route.amountOutMin - repayAmount(input) >= minProfit(input)
         /\ netUsd(input, route, gasUsd) \in Nat /\ gasUsd <= input.gasCapUsd
         /\ netUsd(input, route, gasUsd) + gasUsd = (route.amountOutMin - repayAmount(input)) * input.debtPrice
<1> DEFINE net == netUsd(input, route, gasUsd)
           left == route.amountOutMin - repayAmount(input)
           floor == input.floorBps * repayAmount(input)
           price == input.debtPrice
<1>1. repayAmount(input) \in Nat /\ input.floorBps \in Nat /\ price \in Nat BY RepayBounds DEF IsInput
<1>2. floor \in Nat /\ left \in Int BY <1>1
<1>3. net + gasUsd = left * price /\ net \in Int
  <2>1. net = route.amountOutMin * price - repayAmount(input) * price - gasUsd BY DEF netUsd
  <2> QED BY <1>1, <2>1
<1>4. net * 10000 >= floor * price /\ gasUsd <= input.gasCapUsd BY DEF Passes
<1> HIDE DEF net, left, floor, price
<1>5. floor * price \in Nat BY <1>1, <1>2
<1>6. net \in Nat BY <1>3, <1>4, <1>5
<1>7. (left * 10000) * price >= floor * price
  <2>1. (left * 10000) * price = (left * price) * 10000 BY <1>1, <1>2
  <2>2. left * price \in Int BY <1>1, <1>2
  <2> QED BY <1>3, <1>4, <1>5, <2>1, <2>2
<1>8. left * 10000 >= floor
  <2>1. left * 10000 \in Int /\ floor \in Int BY <1>2
  <2> QED BY <1>1, <1>2, <1>7, <2>1, Cancel DEF price
<1>9. left >= minProfit(input)
  <2>1. left \in Nat BY <1>2, <1>8
  <2> QED BY <2>1, <1>8, ProfitBounds DEF floor
<1> QED BY <1>3, <1>4, <1>6, <1>9 DEF left, net, price

\* Induction, of a set that has zero and with every number the next.
LEMMA NatInductionSet ==
  ASSUME NEW S, 0 \in S, \A n \in Nat : n \in S => n + 1 \in S
  PROVE  Nat \subseteq S
<1> DEFINE R == OpToRel(<, Nat)
           T == Nat \ S
<1>1. IsWellFoundedOn(R, Nat) BY NatLessThanWellFounded
<1>2. R = {ss \in Nat \X Nat : ss[1] < ss[2]} BY DEF OpToRel
<1> SUFFICES ASSUME T # {} PROVE FALSE OBVIOUS
<1>3. T \subseteq Nat OBVIOUS
<1> HIDE DEF R, T
<1>4. PICK n \in T : \A m \in T : ~(<<m, n>> \in R) BY <1>1, <1>3, WFMin, Zenon
<1>5. n \in Nat /\ n \notin S BY <1>3, <1>4 DEF T
<1>6. n # 0 BY <1>5
<1>7. n - 1 \in Nat BY <1>5, <1>6
<1>8. n - 1 \in S \/ n - 1 \in T BY <1>7 DEF T
<1>9. n - 1 \notin T
  <2> SUFFICES ASSUME n - 1 \in T PROVE FALSE OBVIOUS
  <2>1. <<n - 1, n>> \in R BY <1>2, <1>5, <1>7
  <2> QED BY <1>4, <2>1
<1> QED BY <1>5, <1>7, <1>8, <1>9

\* Of finitely many places there is a best, the first of those that are worth most.
LEMMA BestExists ==
  ASSUME NEW n \in Nat, NEW worth, NEW good \in SUBSET (1..n), good # {}, \A i \in good : worth[i] \in Int
  PROVE  \E i \in good : \A j \in good : worth[j] < worth[i] \/ (worth[j] = worth[i] /\ i <= j)
<1> DEFINE Has(G) == \E i \in G : \A j \in G : worth[j] < worth[i] \/ (worth[j] = worth[i] /\ i <= j)
           S == {m \in Nat : \A G \in SUBSET (1..m) : G # {} /\ G \subseteq good => Has(G)}
<1>1. 0 \in S
  <2>1. 1..0 = {} OBVIOUS
  <2>2. ASSUME NEW G \in SUBSET (1..0), G # {} PROVE FALSE BY <2>1, <2>2
  <2> QED BY <2>2
<1>2. ASSUME NEW m \in Nat, m \in S PROVE m + 1 \in S
  <2> SUFFICES ASSUME NEW G \in SUBSET (1..(m + 1)), G # {}, G \subseteq good PROVE Has(G) OBVIOUS
  <2> DEFINE H == G \ {m + 1}
  <2>1. H \in SUBSET (1..m) OBVIOUS
  <2>2. CASE m + 1 \notin G
    <3>1. G = H BY <2>2
    <3> QED BY <1>2, <2>1, <3>1
  <2>3. CASE H = {}
    <3>1. G = {m + 1} BY <2>3
    <3> QED BY <3>1
  <2>4. CASE m + 1 \in G /\ H # {}
    <3>1. H \subseteq good OBVIOUS
    <3>2. Has(H) BY <1>2, <2>1, <2>4, <3>1
    <3>3. PICK i \in H : \A j \in H : worth[j] < worth[i] \/ (worth[j] = worth[i] /\ i <= j) BY <3>2
    <3>4. i \in Int /\ i <= m + 1 /\ worth[i] \in Int /\ worth[m + 1] \in Int BY <3>1, <2>1, <2>4
    <3>5. \A j \in H : worth[j] \in Int /\ j \in Int BY <3>1, <2>1
    <3>6. CASE worth[m + 1] > worth[i]
      <4>1. \A j \in G : worth[j] < worth[m + 1] \/ (worth[j] = worth[m + 1] /\ m + 1 <= j)
        BY <3>3, <3>4, <3>5, <3>6
      <4> QED BY <2>4, <4>1
    <3>7. CASE ~(worth[m + 1] > worth[i])
      <4>1. \A j \in G : worth[j] < worth[i] \/ (worth[j] = worth[i] /\ i <= j)
        BY <3>3, <3>4, <3>5, <3>7
      <4> QED BY <4>1
    <3> QED BY <3>4, <3>6, <3>7
  <2> QED BY <2>2, <2>3, <2>4
<1> HIDE DEF S
<1>3. Nat \subseteq S BY <1>1, <1>2, NatInductionSet
<1>4. n \in S BY <1>3
<1>5. Has(good) BY <1>4 DEF S
<1> QED BY <1>5

\* The gas a route costs in dollars, and what it is worth with that.
gasUsd(input, quotes, gasOf, i) == gasOf[quotes[i].option].eth * nativePrice(input)
worthOf(input, quotes, gasOf, i) == netUsd(input, quotes[i], gasUsd(input, quotes, gasOf, i))
routesThatPass(input, quotes, gasOf) ==
  {i \in DOMAIN quotes : gasOf[quotes[i].option].kind = "gas" /\ Passes(input, quotes[i], gasUsd(input, quotes, gasOf, i))}

IsQuotes(quotes, gasOf) ==
  /\ \E n \in Nat : DOMAIN quotes \subseteq 1..n
  /\ \A i \in DOMAIN quotes :
       /\ quotes[i].amountOutMin \in Int
       /\ gasOf[quotes[i].option].kind = "gas" => gasOf[quotes[i].option].eth \in Nat

\* A plan is of a route that passes, none that passes is worth more, and it repays no
\* more than may be closed, sells no more than there is, and leaves the profit asked.
THEOREM SimulatedPlan ==
  ASSUME NEW input, IsInput(input), NEW quotes, NEW gasOf, IsQuotes(quotes, gasOf),
         simulate(input, quotes, gasOf).outcome = "plan"
  PROVE  \E i \in routesThatPass(input, quotes, gasOf) :
           /\ simulate(input, quotes, gasOf) =
                [outcome |-> "plan", protocol |-> input.protocol, repayAmount |-> repayAmount(input),
                 seizeAmount |-> seizeAmount(input), option |-> quotes[i].option,
                 amountOutMin |-> quotes[i].amountOutMin, gasUsd |-> gasUsd(input, quotes, gasOf, i),
                 netUsd |-> worthOf(input, quotes, gasOf, i), minProfit |-> minProfit(input),
                 repayShares |-> IF input.protocol = "morphoblue" THEN repayShares(input) ELSE 0,
                 preliq |-> usePreliq(input)]
           /\ \A j \in routesThatPass(input, quotes, gasOf) :
                worthOf(input, quotes, gasOf, j) <= worthOf(input, quotes, gasOf, i)
           /\ ~Hopeless(input, quotes)
<1> DEFINE gas == [i \in DOMAIN quotes |-> gasOf[quotes[i].option]]
           usd(i) == gas[i].eth * nativePrice(input)
           good == {i \in DOMAIN quotes : gas[i].kind = "gas" /\ Passes(input, quotes[i], usd(i))}
           worth(i) == netUsd(input, quotes[i], usd(i))
           best == CHOOSE i \in good : \A j \in good : worth(j) < worth(i) \/ (worth(j) = worth(i) /\ i <= j)
           plan(i) == [outcome |-> "plan", protocol |-> input.protocol, repayAmount |-> repayAmount(input),
                       seizeAmount |-> seizeAmount(input), option |-> quotes[i].option,
                       amountOutMin |-> quotes[i].amountOutMin, gasUsd |-> usd(i), netUsd |-> worth(i),
                       minProfit |-> minProfit(input),
                       repayShares |-> IF input.protocol = "morphoblue" THEN repayShares(input) ELSE 0,
                       preliq |-> usePreliq(input)]
<1>1. simulate(input, quotes, gasOf) =
        IF Hopeless(input, quotes) THEN [outcome |-> "null"]
        ELSE IF \E i \in DOMAIN quotes : gas[i].kind = "thrown" THEN [outcome |-> "thrown"]
        ELSE IF good = {} THEN [outcome |-> "null"] ELSE plan(best)
  BY Zenon DEF simulate
<1>2. \A i \in DOMAIN quotes : gas[i] = gasOf[quotes[i].option] /\ usd(i) = gasUsd(input, quotes, gasOf, i)
                               /\ worth(i) = worthOf(input, quotes, gasOf, i)
  BY DEF gasUsd, worthOf
<1>3. good = routesThatPass(input, quotes, gasOf) /\ good \subseteq DOMAIN quotes
  BY <1>2 DEF routesThatPass
<1> HIDE DEF gas, usd, good, worth, best
<1>4. ~Hopeless(input, quotes) /\ good # {} /\ simulate(input, quotes, gasOf) = plan(best)
  <2> HIDE DEF plan
  <2>1. [outcome |-> "null"].outcome # "plan" /\ [outcome |-> "thrown"].outcome # "plan" OBVIOUS
  <2> QED BY <1>1, <2>1
<1>5. \A i \in good : worth(i) \in Int
  <2> SUFFICES ASSUME NEW i \in good PROVE worth(i) \in Int OBVIOUS
  <2>1. i \in DOMAIN quotes /\ gasOf[quotes[i].option].kind = "gas" BY <1>3 DEF routesThatPass
  <2>2. quotes[i].amountOutMin \in Int /\ gasOf[quotes[i].option].eth \in Nat BY <2>1 DEF IsQuotes
  <2>3. input.debtPrice > 0 /\ input.debtPrice \in Nat /\ nativePrice(input) \in Nat
    BY <1>4 DEF Hopeless, IsInput, nativePrice
  <2>4. repayAmount(input) \in Nat BY <2>3, RepayBounds
  <2>5. gasUsd(input, quotes, gasOf, i) \in Nat BY <2>2, <2>3 DEF gasUsd
  <2>6. worthOf(input, quotes, gasOf, i) \in Int
    BY <2>2, <2>3, <2>4, <2>5 DEF worthOf, netUsd
  <2> QED BY <1>2, <2>1, <2>6
<1>6. best \in good /\ \A j \in good : worth(j) < worth(best) \/ (worth(j) = worth(best) /\ best <= j)
  <2> DEFINE w == [i \in good |-> worth(i)]
  <2>1. PICK n \in Nat : DOMAIN quotes \subseteq 1..n BY DEF IsQuotes
  <2>2. good \in SUBSET (1..n) BY <1>3, <2>1
  <2>3. \A i \in good : w[i] = worth(i) /\ w[i] \in Int BY <1>5
  <2> HIDE DEF w
  <2>4. \E i \in good : \A j \in good : w[j] < w[i] \/ (w[j] = w[i] /\ i <= j)
    BY <1>4, <2>2, <2>3, BestExists
  <2>5. \E i \in good : \A j \in good : worth(j) < worth(i) \/ (worth(j) = worth(i) /\ i <= j)
    BY <2>3, <2>4
  <2> QED BY <2>5, Zenon DEF best
<1>7. \A j \in good : worth(j) <= worth(best) BY <1>5, <1>6
<1>8. worth(best) = worthOf(input, quotes, gasOf, best) /\ usd(best) = gasUsd(input, quotes, gasOf, best)
      /\ \A j \in good : worth(j) = worthOf(input, quotes, gasOf, j)
  BY <1>2, <1>3, <1>6
<1> QED BY <1>3, <1>4, <1>6, <1>7, <1>8

\* A plan repays no more than may be closed and the cap allows, asks at least the policy's
\* share, counts its gain in dollars, and in Morpho's shares repays at least the amount.
KeepsTerms(plan, input) ==
  /\ plan.repayAmount * 10000 <=
       input.debt * (IF plan.preliq THEN input.preliq.closeFactorBps ELSE input.closeFactorBps)
  /\ input.maxRepayUsd > 0 => plan.repayAmount * input.debtPrice <= input.maxRepayUsd
  /\ plan.minProfit * 10000 >= input.floorBps * plan.repayAmount
  /\ plan.netUsd + plan.gasUsd = (plan.amountOutMin - plan.repayAmount) * input.debtPrice
  /\ plan.protocol = "morphoblue" => plan.repayShares * input.debt >= plan.repayAmount * input.borrowShares

\* Every promise of a plan, for every input of the simulator.
THEOREM PlanKept ==
  ASSUME NEW input, IsInput(input), NEW quotes, NEW gasOf, IsQuotes(quotes, gasOf),
         simulate(input, quotes, gasOf).outcome = "plan"
  PROVE  LET plan == simulate(input, quotes, gasOf)
         IN /\ plan.repayAmount \in Nat /\ plan.repayAmount > 0 /\ plan.repayAmount <= input.debt
            /\ plan.seizeAmount \in Nat /\ plan.seizeAmount > 0 /\ plan.seizeAmount <= input.collateral
            /\ plan.minProfit \in Nat /\ plan.minProfit > 0
            /\ plan.amountOutMin - plan.repayAmount >= plan.minProfit
            /\ plan.netUsd \in Nat /\ plan.gasUsd \in Nat /\ plan.gasUsd <= input.gasCapUsd
            /\ plan.protocol = "morphoblue" =>
                 plan.repayShares \in Nat /\ plan.repayShares > 0 /\ plan.repayShares <= input.borrowShares
            /\ \E i \in DOMAIN quotes : quotes[i].option = plan.option /\ quotes[i].amountOutMin = plan.amountOutMin
            /\ plan.preliq = usePreliq(input) /\ plan.protocol = input.protocol
            /\ KeepsTerms(plan, input)
<1> DEFINE plan == simulate(input, quotes, gasOf)
<1>1. PICK i \in routesThatPass(input, quotes, gasOf) :
         /\ plan = [outcome |-> "plan", protocol |-> input.protocol, repayAmount |-> repayAmount(input),
                    seizeAmount |-> seizeAmount(input), option |-> quotes[i].option,
                    amountOutMin |-> quotes[i].amountOutMin, gasUsd |-> gasUsd(input, quotes, gasOf, i),
                    netUsd |-> worthOf(input, quotes, gasOf, i), minProfit |-> minProfit(input),
                    repayShares |-> IF input.protocol = "morphoblue" THEN repayShares(input) ELSE 0,
                    preliq |-> usePreliq(input)]
         /\ ~Hopeless(input, quotes)
  BY SimulatedPlan
<1>2. /\ plan.repayAmount = repayAmount(input) /\ plan.seizeAmount = seizeAmount(input)
      /\ plan.option = quotes[i].option /\ plan.amountOutMin = quotes[i].amountOutMin
      /\ plan.gasUsd = gasUsd(input, quotes, gasOf, i) /\ plan.netUsd = worthOf(input, quotes, gasOf, i)
      /\ plan.minProfit = minProfit(input) /\ plan.preliq = usePreliq(input) /\ plan.protocol = input.protocol
      /\ plan.protocol = "morphoblue" => plan.repayShares = repayShares(input)
  <2> HIDE DEF plan
  <2> QED BY <1>1
<1> HIDE DEF plan
<1>3. /\ input.debtPrice \in Nat /\ input.collPrice \in Nat /\ input.debt \in Nat /\ input.borrowShares \in Nat
      /\ input.nativePriceUsd \in Nat
  BY DEF IsInput
<1>4. /\ input.debtPrice > 0 /\ input.collPrice > 0 /\ repayAmount(input) # 0 /\ seizeAmount(input) # 0
      /\ minProfit(input) # 0
      /\ input.protocol = "morphoblue" => input.borrowShares > 0 /\ input.debt > 0
  BY <1>1, <1>3 DEF Hopeless
<1>5. /\ repayAmount(input) \in Nat /\ repayAmount(input) <= input.debt
      /\ repayAmount(input) * 10000 <= input.debt * closeFactorBps(input)
      /\ input.maxRepayUsd > 0 => repayAmount(input) * input.debtPrice <= input.maxRepayUsd
  BY <1>4, RepayBounds
<1>6. seizeAmount(input) \in Nat /\ seizeAmount(input) <= input.collateral
  BY <1>4, SeizeBounds
<1>7. /\ i \in DOMAIN quotes /\ Passes(input, quotes[i], gasUsd(input, quotes, gasOf, i))
      /\ quotes[i].amountOutMin \in Int /\ gasOf[quotes[i].option].eth \in Nat
  BY DEF routesThatPass, IsQuotes
<1>8. gasUsd(input, quotes, gasOf, i) \in Nat
  <2>1. nativePrice(input) \in Nat BY <1>3 DEF nativePrice
  <2> QED BY <1>7, <2>1 DEF gasUsd
<1>9. /\ quotes[i].amountOutMin - repayAmount(input) >= minProfit(input)
      /\ worthOf(input, quotes, gasOf, i) \in Nat /\ gasUsd(input, quotes, gasOf, i) <= input.gasCapUsd
      /\ worthOf(input, quotes, gasOf, i) + gasUsd(input, quotes, gasOf, i)
           = (quotes[i].amountOutMin - repayAmount(input)) * input.debtPrice
  BY <1>4, <1>7, <1>8, PassingPays, Zenon DEF worthOf
<1>10. /\ minProfit(input) \in Nat /\ minProfit(input) * 10000 >= input.floorBps * repayAmount(input)
  BY <1>4, ProfitBounds
<1>11. input.protocol = "morphoblue" =>
         /\ repayShares(input) \in Nat /\ repayShares(input) > 0 /\ repayShares(input) <= input.borrowShares
         /\ repayShares(input) * input.debt >= repayAmount(input) * input.borrowShares
  <2> SUFFICES ASSUME input.protocol = "morphoblue"
               PROVE  /\ repayShares(input) \in Nat /\ repayShares(input) > 0 /\ repayShares(input) <= input.borrowShares
                      /\ repayShares(input) * input.debt >= repayAmount(input) * input.borrowShares
    OBVIOUS
  <2>1. repayAmount(input) > 0 BY <1>4, <1>5
  <2>2. /\ repayShares(input) \in 1..input.borrowShares
        /\ repayShares(input) * input.debt >= repayAmount(input) * input.borrowShares
    BY <1>4, <2>1, SharesBounds
  <2>3. \A n \in Nat : \A x \in 1..n : x \in Nat /\ x > 0 /\ x <= n OBVIOUS
  <2> QED BY <1>3, <2>2, <2>3, Zenon
<1>12. closeFactorBps(input) = IF plan.preliq THEN input.preliq.closeFactorBps ELSE input.closeFactorBps
  BY <1>2, Terms
<1>13. repayAmount(input) > 0 /\ seizeAmount(input) > 0 /\ minProfit(input) > 0 BY <1>4, <1>5, <1>6, <1>10
<1>a. /\ plan.repayAmount \in Nat /\ plan.repayAmount > 0 /\ plan.repayAmount <= input.debt
      /\ plan.repayAmount * 10000 <=
           input.debt * (IF plan.preliq THEN input.preliq.closeFactorBps ELSE input.closeFactorBps)
      /\ input.maxRepayUsd > 0 => plan.repayAmount * input.debtPrice <= input.maxRepayUsd
      /\ plan.seizeAmount \in Nat /\ plan.seizeAmount > 0 /\ plan.seizeAmount <= input.collateral
  BY <1>2, <1>5, <1>6, <1>12, <1>13
<1>b. /\ plan.amountOutMin - plan.repayAmount >= plan.minProfit
      /\ plan.minProfit \in Nat /\ plan.minProfit > 0
      /\ plan.minProfit * 10000 >= input.floorBps * plan.repayAmount
      /\ plan.netUsd \in Nat /\ plan.gasUsd \in Nat /\ plan.gasUsd <= input.gasCapUsd
      /\ plan.netUsd + plan.gasUsd = (plan.amountOutMin - plan.repayAmount) * input.debtPrice
  BY <1>2, <1>8, <1>9, <1>10, <1>13
<1>c. plan.protocol = "morphoblue" =>
        /\ plan.repayShares \in Nat /\ plan.repayShares > 0 /\ plan.repayShares <= input.borrowShares
        /\ plan.repayShares * input.debt >= plan.repayAmount * input.borrowShares
  BY <1>2, <1>11
<1>d. KeepsTerms(plan, input) BY <1>a, <1>b, <1>c DEF KeepsTerms
<1>e. \E k \in DOMAIN quotes : quotes[k].option = plan.option /\ quotes[k].amountOutMin = plan.amountOutMin
  BY <1>2, <1>7
<1> QED BY <1>2, <1>a, <1>b, <1>c, <1>d, <1>e DEF plan
-----------------------------------------------------------------------------
(* The contracts: what one transaction leaves, in closed form.                *)

World == [debt : Nat, coll : Nat, paid : Nat]
Ledger == [debt : Int, coll : Int, paid : Int]

IsMarket(market) ==
  /\ market.repaid \in Nat /\ market.seized \in Nat /\ market.out \in Nat /\ market.premium \in Nat
  /\ market.revert \in BOOLEAN

\* What a transaction asks: the repayment, the profit and the minimum output.
IsOrder(p) == p.repayAmount \in Nat /\ p.minProfit \in Nat /\ p.amountOutMin \in Nat

\* The router takes the order and keeps to its minimum output.
RouterKeeps(p, market) ==
  /\ ~market.revert /\ ~p.late /\ market.out >= p.amountOutMin
  /\ ~(p.dexId = "UniV3Multi" /\ p.pathShort)
  /\ p.dexId \in SwapDexes

\* The contract's balances are a ledger, a revert is none.
LEMMA WorldIsLedger == World \subseteq Ledger /\ Revert \notin Ledger
  BY ContractsAssumption DEF World, Ledger

\* Two fields of a ledger set at once.
LEMMA TwoFields ==
  ASSUME NEW world \in Ledger, NEW a, NEW b
  PROVE  /\ [world EXCEPT !.coll = a, !.debt = b] = [debt |-> b, coll |-> a, paid |-> world.paid]
         /\ [world EXCEPT !.debt = b, !.coll = a] = [debt |-> b, coll |-> a, paid |-> world.paid]
         /\ [world EXCEPT !.debt = b, !.paid = a] = [debt |-> b, coll |-> world.coll, paid |-> a]
<1> DEFINE w1 == [world EXCEPT !.coll = a]
           w2 == [world EXCEPT !.debt = b]
<1>1. w1 = [debt |-> world.debt, coll |-> a, paid |-> world.paid] BY DEF Ledger
<1>2. w2 = [debt |-> b, coll |-> world.coll, paid |-> world.paid] BY DEF Ledger
<1> HIDE DEF w1, w2
<1>3. [w1 EXCEPT !.debt = b] = [debt |-> b, coll |-> a, paid |-> world.paid] BY <1>1
<1>4. [w2 EXCEPT !.coll = a] = [debt |-> b, coll |-> a, paid |-> world.paid] BY <1>2
<1>5. [w2 EXCEPT !.paid = a] = [debt |-> b, coll |-> world.coll, paid |-> a] BY <1>2
<1> QED BY <1>3, <1>4, <1>5 DEF w1, w2

\* The beneficiary is paid out of the debt token.
LEMMA PaidOut ==
  ASSUME NEW world \in Ledger, NEW profit
  PROVE  payBeneficiary(world, profit)
           = [debt |-> world.debt - profit, coll |-> world.coll, paid |-> world.paid + profit]
  BY TwoFields, Zenon DEF payBeneficiary

\* All collateral is sold for what the market gives.
LEMMA Sold ==
  ASSUME NEW world \in Ledger, NEW out
  PROVE  sellCollateral(world, out) = [debt |-> world.debt + out, coll |-> 0, paid |-> world.paid]
  BY TwoFields, Zenon DEF sellCollateral

\* A swap reverts, or sells all collateral for no less than the minimum.
LEMMA SwapOutcome ==
  ASSUME NEW world \in World, NEW p, IsOrder(p), NEW market, IsMarket(market)
  PROVE  swapCollateralForDebt(world, p, market) =
           IF world.coll > 0 /\ RouterKeeps(p, market)
           THEN [debt |-> world.debt + market.out, coll |-> 0, paid |-> world.paid] ELSE Revert
<1>1. CASE RouterKeeps(p, market)
  <2>1. RouterPays(p, market) = market.out BY <1>1 DEF RouterPays, RouterKeeps, IsOrder, IsMarket
  <2>2. market.out # Revert BY ContractsAssumption DEF IsMarket
  <2>3. sellCollateral(world, market.out) = [debt |-> world.debt + market.out, coll |-> 0, paid |-> world.paid]
    BY WorldIsLedger, Sold, Zenon
  <2> QED BY <1>1, <2>1, <2>2, <2>3 DEF swapCollateralForDebt, RouterKeeps, World
<1>2. CASE ~RouterKeeps(p, market)
  BY <1>2 DEF swapCollateralForDebt, RouterKeeps, RouterPays, IsOrder, IsMarket
<1> QED BY <1>1, <1>2

\* The pool takes the repayment and gives what it seizes, or reverts.
LEMMA PoolOutcome ==
  ASSUME NEW world \in World, NEW market, IsMarket(market)
  PROVE  liquidationCall(world, market) =
           IF market.revert \/ world.debt < market.repaid THEN Revert
           ELSE [debt |-> world.debt - market.repaid, coll |-> world.coll + market.seized, paid |-> world.paid]
<1>1. [world EXCEPT !.debt = @ - market.repaid, !.coll = @ + market.seized]
        = [debt |-> world.debt - market.repaid, coll |-> world.coll + market.seized, paid |-> world.paid]
  BY WorldIsLedger, TwoFields, Zenon
<1> QED BY <1>1 DEF liquidationCall

\* The contract counts the swap's output over what it owes, whatever else it holds.
LEMMA FinalizeOutcome ==
  ASSUME NEW world \in World, NEW p, IsOrder(p), NEW market, IsMarket(market), NEW owe \in Nat
  PROVE  finalizeFlash(world, p, market, owe) =
           IF world.coll > 0 /\ RouterKeeps(p, market) /\ market.out >= owe + p.minProfit
           THEN [debt |-> world.debt + owe, coll |-> 0, paid |-> world.paid + (market.out - owe)] ELSE Revert
<1> DEFINE after == [debt |-> world.debt + market.out, coll |-> 0, paid |-> world.paid]
<1>1. CASE world.coll > 0 /\ RouterKeeps(p, market)
  <2>1. swapCollateralForDebt(world, p, market) = after /\ after \in Ledger /\ after # Revert
    BY <1>1, SwapOutcome, WorldIsLedger DEF World, Ledger, IsMarket
  <2>2. payBeneficiary(after, market.out - owe)
          = [debt |-> world.debt + owe, coll |-> 0, paid |-> world.paid + (market.out - owe)]
    <3>1. payBeneficiary(after, market.out - owe)
            = [debt |-> after.debt - (market.out - owe), coll |-> after.coll, paid |-> after.paid + (market.out - owe)]
      BY <2>1, PaidOut, Zenon
    <3> QED BY <3>1 DEF World, IsMarket
  <2>3. finalizeFlash(world, p, market, owe) =
          IF market.out < owe \/ market.out - owe < p.minProfit THEN Revert
          ELSE payBeneficiary(after, market.out - owe)
    BY <2>1 DEF finalizeFlash
  <2> QED BY <1>1, <2>2, <2>3 DEF IsOrder, IsMarket
<1>2. CASE ~(world.coll > 0 /\ RouterKeeps(p, market))
  BY <1>2, SwapOutcome DEF finalizeFlash
<1> QED BY <1>1, <1>2

\* A loan is repaid in full or the transaction reverts.
LEMMA LoanRepaid ==
  ASSUME NEW world \in Ledger, NEW owe \in Nat, world.debt >= owe
  PROVE  repayLoan(world, owe) = [debt |-> world.debt - owe, coll |-> world.coll, paid |-> world.paid]
  BY WorldIsLedger DEF repayLoan, Ledger

\* What has reverted stays reverted.
LEMMA NoLoanToRepay == \A owe : repayLoan(Revert, owe) = Revert
  BY DEF repayLoan

\* A loan adds to the debt token.
LEMMA Lent ==
  ASSUME NEW world \in World, NEW amount \in Nat
  PROVE  [world EXCEPT !.debt = @ + amount] = [debt |-> world.debt + amount, coll |-> world.coll, paid |-> world.paid]
  BY DEF World
-----------------------------------------------------------------------------
\* When Liquidator.sol carries a liquidation through.
FlashGoes(contract, sender, world, p, market) ==
  /\ mayLiquidate(contract, sender, p)
  /\ RouterKeeps(p, market)
  /\ world.coll + market.seized > 0
  /\ market.repaid <= world.debt + p.repayAmount
  /\ market.out >= p.repayAmount + market.premium + p.minProfit

\* liquidateWithFlash: the profit paid is the swap's output less loan and premium, and
\* what the pool did not take of the loan stays in the contract.
THEOREM FlashOutcome ==
  ASSUME NEW contract, NEW sender, NEW world \in World, NEW p, IsOrder(p), NEW market, IsMarket(market)
  PROVE  liquidateWithFlash(contract, sender, world, p, market) =
           IF FlashGoes(contract, sender, world, p, market)
           THEN [debt |-> world.debt + p.repayAmount - market.repaid, coll |-> 0,
                 paid |-> world.paid + (market.out - p.repayAmount - market.premium)]
           ELSE Revert
<1> DEFINE lent == [debt |-> world.debt + p.repayAmount, coll |-> world.coll, paid |-> world.paid]
           seized == [debt |-> lent.debt - market.repaid, coll |-> lent.coll + market.seized, paid |-> lent.paid]
           owe == p.repayAmount + market.premium
           done == [debt |-> seized.debt + owe, coll |-> 0, paid |-> seized.paid + (market.out - owe)]
<1>1. lent \in World /\ owe \in Nat BY DEF World, IsOrder, IsMarket
<1>2. liquidateWithFlash(contract, sender, world, p, market) =
        IF mayLiquidate(contract, sender, p) THEN repayLoan(executeOperation(lent, p, market), owe) ELSE Revert
  BY Lent DEF liquidateWithFlash, IsOrder
<1>3. CASE market.revert \/ lent.debt < market.repaid
  <2>1. executeOperation(lent, p, market) = Revert BY <1>1, <1>3, PoolOutcome DEF executeOperation
  <2>2. ~FlashGoes(contract, sender, world, p, market)
    BY <1>1, <1>3 DEF FlashGoes, RouterKeeps, IsMarket, World, IsOrder
  <2> QED BY <1>2, <2>1, <2>2, NoLoanToRepay
<1>4. CASE ~market.revert /\ lent.debt >= market.repaid
  <2>1. seized \in World /\ seized # Revert BY <1>4, <1>1, WorldIsLedger DEF World, IsMarket
  <2>2. executeOperation(lent, p, market) = finalizeFlash(seized, p, market, owe)
    BY <1>1, <1>4, <2>1, PoolOutcome DEF executeOperation, World, IsMarket
  <2>3. executeOperation(lent, p, market) =
          IF seized.coll > 0 /\ RouterKeeps(p, market) /\ market.out >= owe + p.minProfit THEN done ELSE Revert
    BY <1>1, <2>1, <2>2, FinalizeOutcome
  <2>4. FlashGoes(contract, sender, world, p, market) <=>
          mayLiquidate(contract, sender, p) /\ seized.coll > 0 /\ RouterKeeps(p, market) /\ market.out >= owe + p.minProfit
    BY <1>4 DEF FlashGoes, World, IsOrder, IsMarket
  <2>5. repayLoan(done, owe) = [debt |-> world.debt + p.repayAmount - market.repaid, coll |-> 0,
                                paid |-> world.paid + (market.out - p.repayAmount - market.premium)]
    <3>1. done \in Ledger /\ done.debt >= owe BY <2>1, <1>1 DEF Ledger, World, IsMarket
    <3>2. repayLoan(done, owe) = [debt |-> done.debt - owe, coll |-> done.coll, paid |-> done.paid]
      BY <3>1, <1>1, LoanRepaid, Zenon
    <3> QED BY <3>2, <1>1 DEF World, IsOrder, IsMarket
  <2> QED BY <1>2, <2>3, <2>4, <2>5, NoLoanToRepay
<1> QED BY <1>1, <1>3, <1>4 DEF World, IsMarket

FundsGo(contract, sender, world, p, market) ==
  /\ sender = contract.owner /\ mayLiquidate(contract, sender, p)
  /\ RouterKeeps(p, market)
  /\ world.coll + market.seized > 0
  /\ p.repayAmount <= world.debt /\ market.repaid <= world.debt
  /\ market.out >= p.repayAmount + p.minProfit

\* liquidateWithFunds: likewise, out of the contract's own balance.
THEOREM FundsOutcome ==
  ASSUME NEW contract, NEW sender, NEW world \in World, NEW p, IsOrder(p), NEW market, IsMarket(market)
  PROVE  liquidateWithFunds(contract, sender, world, p, market) =
           IF FundsGo(contract, sender, world, p, market)
           THEN [debt |-> world.debt - market.repaid + p.repayAmount, coll |-> 0,
                 paid |-> world.paid + (market.out - p.repayAmount)]
           ELSE Revert
<1> DEFINE seized == [debt |-> world.debt - market.repaid, coll |-> world.coll + market.seized, paid |-> world.paid]
           may == sender = contract.owner /\ mayLiquidate(contract, sender, p) /\ p.repayAmount <= world.debt
<1>1. ~may => liquidateWithFunds(contract, sender, world, p, market) = Revert
  BY DEF liquidateWithFunds, World, IsOrder
<1>2. ~may => ~FundsGo(contract, sender, world, p, market)
  BY DEF FundsGo
<1>3. CASE may /\ (market.revert \/ world.debt < market.repaid)
  <2>1. liquidateWithFunds(contract, sender, world, p, market) = Revert
    BY <1>3, PoolOutcome DEF liquidateWithFunds
  <2>2. ~FundsGo(contract, sender, world, p, market)
    BY <1>3 DEF FundsGo, RouterKeeps, World, IsMarket
  <2> QED BY <2>1, <2>2
<1>4. CASE may /\ ~market.revert /\ world.debt >= market.repaid
  <2>1. seized \in World /\ seized # Revert BY <1>4, WorldIsLedger DEF World, IsMarket
  <2>2. liquidateWithFunds(contract, sender, world, p, market) = finalizeFlash(seized, p, market, p.repayAmount)
    BY <1>4, <2>1, PoolOutcome DEF liquidateWithFunds, World, IsMarket, IsOrder
  <2>3. FundsGo(contract, sender, world, p, market) <=>
          seized.coll > 0 /\ RouterKeeps(p, market) /\ market.out >= p.repayAmount + p.minProfit
    BY <1>4 DEF FundsGo, World, IsOrder, IsMarket
  <2> QED BY <2>1, <2>2, <2>3, FinalizeOutcome DEF IsOrder
<1> QED BY <1>1, <1>2, <1>3, <1>4 DEF World, IsMarket

MorphoGoes(contract, sender, world, p, market) ==
  /\ mayLiquidate(contract, sender, p)
  /\ RouterKeeps(p, market)
  /\ market.premium = 0 /\ market.seized > 0
  /\ market.repaid <= world.debt + p.repayAmount
  /\ world.debt + market.out - market.repaid >= p.minProfit

\* MorphoBlueLiquidator.sol pays out all it holds.
THEOREM MorphoOutcome ==
  ASSUME NEW contract, NEW sender, NEW world \in World, NEW p, IsOrder(p), NEW market, IsMarket(market)
  PROVE  morphoLiquidateWithFlash(contract, sender, world, p, market) =
           IF MorphoGoes(contract, sender, world, p, market)
           THEN [debt |-> 0, coll |-> 0, paid |-> world.paid + (world.debt + market.out - market.repaid)]
           ELSE Revert
<1> DEFINE lent == [debt |-> world.debt + p.repayAmount, coll |-> world.coll, paid |-> world.paid]
           seized == [debt |-> lent.debt - market.repaid, coll |-> lent.coll + market.seized, paid |-> lent.paid]
           after == [debt |-> seized.debt + market.out, coll |-> 0, paid |-> seized.paid]
           gain == after.debt - p.repayAmount
           done == [debt |-> p.repayAmount, coll |-> 0, paid |-> world.paid + gain]
<1>1. lent \in World /\ p.repayAmount \in Nat BY DEF World, IsOrder
<1>2. morphoLiquidateWithFlash(contract, sender, world, p, market) =
        IF mayLiquidate(contract, sender, p) THEN repayLoan(onMorphoFlashLoan(lent, p, market), p.repayAmount) ELSE Revert
  BY Lent, <1>1 DEF morphoLiquidateWithFlash
<1>3. CASE market.revert \/ lent.debt < market.repaid \/ market.premium # 0 \/ market.seized = 0
  <2>1. onMorphoFlashLoan(lent, p, market) = Revert BY <1>1, <1>3, PoolOutcome DEF onMorphoFlashLoan
  <2>2. ~MorphoGoes(contract, sender, world, p, market)
    BY <1>1, <1>3 DEF MorphoGoes, RouterKeeps, IsMarket, World, IsOrder
  <2> QED BY <1>2, <2>1, <2>2, NoLoanToRepay
<1>4. CASE ~market.revert /\ lent.debt >= market.repaid /\ market.premium = 0 /\ market.seized # 0
  <2>1. seized \in World /\ seized # Revert /\ seized.coll > 0 BY <1>4, <1>1, WorldIsLedger DEF World, IsMarket
  <2>2. liquidationCall(lent, market) = seized
    BY <1>1, <1>4, PoolOutcome DEF World, IsMarket
  <2>3. CASE ~RouterKeeps(p, market)
    <3>1. swapCollateralForDebt(seized, p, market) = Revert BY <2>1, <2>3, SwapOutcome
    <3>2. onMorphoFlashLoan(lent, p, market) = Revert BY <2>2, <3>1 DEF onMorphoFlashLoan
    <3> QED BY <3>2, <2>3, <1>2, NoLoanToRepay DEF MorphoGoes
  <2>4. CASE RouterKeeps(p, market)
    <3>1. swapCollateralForDebt(seized, p, market) = after /\ after \in World /\ after # Revert
      BY <2>1, <2>4, SwapOutcome, WorldIsLedger DEF World, IsMarket
    <3>2. onMorphoFlashLoan(lent, p, market) =
            IF after.debt < p.repayAmount \/ gain < p.minProfit THEN Revert ELSE payBeneficiary(after, gain)
      BY <1>4, <2>1, <2>2, <3>1 DEF onMorphoFlashLoan
    <3>3. payBeneficiary(after, gain) = done
      <4>1. payBeneficiary(after, gain) = [debt |-> after.debt - gain, coll |-> after.coll, paid |-> after.paid + gain]
        BY <3>1, WorldIsLedger, PaidOut, Zenon
      <4> QED BY <4>1, <3>1, <1>1 DEF World
    <3>4. repayLoan(done, p.repayAmount) = [debt |-> 0, coll |-> 0, paid |-> world.paid + gain]
      <4>1. done \in Ledger /\ done.debt >= p.repayAmount BY <3>1, <1>1 DEF Ledger, World, IsOrder
      <4>2. repayLoan(done, p.repayAmount) = [debt |-> done.debt - p.repayAmount, coll |-> done.coll, paid |-> done.paid]
        BY <4>1, <1>1, LoanRepaid, Zenon
      <4> QED BY <4>2, <1>1
    <3>5. gain = world.debt + market.out - market.repaid BY <1>1 DEF World, IsMarket, IsOrder
    <3>6. MorphoGoes(contract, sender, world, p, market) <=>
            mayLiquidate(contract, sender, p) /\ ~(after.debt < p.repayAmount \/ gain < p.minProfit)
      BY <1>4, <2>4, <3>1, <3>5 DEF MorphoGoes, World, IsOrder, IsMarket
    <3> QED BY <1>2, <3>2, <3>3, <3>4, <3>5, <3>6, NoLoanToRepay
  <2> QED BY <2>3, <2>4
<1> QED BY <1>1, <1>3, <1>4 DEF World, IsMarket

SeamlessGoes(contract, sender, world, p, market) ==
  /\ sender = contract.owner /\ p.repayAmount > 0
  /\ ~market.revert /\ market.out >= p.amountOutMin
  /\ world.coll + market.seized > 0
  /\ market.repaid <= world.debt + p.repayAmount
  /\ market.out >= p.repayAmount + market.premium + requiredProfit(p)

\* SeamlessLiquidator.sol keeps the profit, a share of the repayment.
THEOREM SeamlessOutcome ==
  ASSUME NEW contract, NEW sender, NEW world \in World, NEW p, IsOrder(p), p.minProfitBps \in Nat,
         NEW market, IsMarket(market)
  PROVE  seamlessLiquidate(contract, sender, world, p, market) =
           IF SeamlessGoes(contract, sender, world, p, market)
           THEN [debt |-> world.debt + (market.out - market.repaid - market.premium), coll |-> 0, paid |-> world.paid]
           ELSE Revert
<1> DEFINE lent == [debt |-> world.debt + p.repayAmount, coll |-> world.coll, paid |-> world.paid]
           seized == [debt |-> lent.debt - market.repaid, coll |-> lent.coll + market.seized, paid |-> lent.paid]
           owe == p.repayAmount + market.premium
           done == [debt |-> seized.debt + market.out, coll |-> 0, paid |-> seized.paid]
<1>1. lent \in World /\ owe \in Nat BY DEF World, IsOrder, IsMarket
<1>2. requiredProfit(p) \in Nat
  <2>1. p.repayAmount * p.minProfitBps \in Nat BY DEF IsOrder
  <2> QED BY <2>1 DEF requiredProfit
<1>3. seamlessLiquidate(contract, sender, world, p, market) =
        IF sender = contract.owner /\ p.repayAmount > 0
        THEN repayLoan(seamlessExecuteOperation(lent, p, market), owe) ELSE Revert
  BY Lent DEF seamlessLiquidate, IsOrder
<1>4. CASE market.revert \/ lent.debt < market.repaid
  <2>1. seamlessExecuteOperation(lent, p, market) = Revert BY <1>1, <1>4, PoolOutcome DEF seamlessExecuteOperation
  <2>2. ~SeamlessGoes(contract, sender, world, p, market)
    BY <1>1, <1>4 DEF SeamlessGoes, IsMarket, World, IsOrder
  <2> QED BY <1>3, <2>1, <2>2, NoLoanToRepay
<1>5. CASE ~market.revert /\ lent.debt >= market.repaid
  <2>1. seized \in World /\ seized # Revert BY <1>5, <1>1, WorldIsLedger DEF World, IsMarket
  <2>2. liquidationCall(lent, market) = seized BY <1>1, <1>5, PoolOutcome DEF World, IsMarket
  <2>3. sellCollateral(seized, market.out) = done
    BY <2>1, WorldIsLedger, Sold, Zenon
  <2>4. seamlessExecuteOperation(lent, p, market) =
          IF seized.coll = 0 \/ market.out < p.amountOutMin \/ market.out < owe \/ market.out - owe < requiredProfit(p)
          THEN Revert ELSE done
    BY <2>1, <2>2, <2>3 DEF seamlessExecuteOperation
  <2>5. SeamlessGoes(contract, sender, world, p, market) <=>
          /\ sender = contract.owner /\ p.repayAmount > 0
          /\ ~(seized.coll = 0 \/ market.out < p.amountOutMin \/ market.out < owe \/ market.out - owe < requiredProfit(p))
    BY <1>5, <1>1, <1>2 DEF SeamlessGoes, World, IsOrder, IsMarket
  <2>6. market.out >= owe =>
          repayLoan(done, owe) = [debt |-> world.debt + (market.out - market.repaid - market.premium), coll |-> 0,
                                  paid |-> world.paid]
    <3> SUFFICES ASSUME market.out >= owe
                 PROVE  repayLoan(done, owe) = [debt |-> world.debt + (market.out - market.repaid - market.premium),
                                                coll |-> 0, paid |-> world.paid]
      OBVIOUS
    <3>1. done \in Ledger /\ done.debt >= owe BY <2>1, <1>1 DEF Ledger, World, IsMarket
    <3>2. repayLoan(done, owe) = [debt |-> done.debt - owe, coll |-> done.coll, paid |-> done.paid]
      BY <3>1, <1>1, LoanRepaid, Zenon
    <3> QED BY <3>2, <1>1 DEF World, IsOrder, IsMarket
  <2>7. ~(market.out < owe) => market.out >= owe BY <1>1 DEF IsMarket
  <2> QED BY <1>3, <2>4, <2>5, <2>6, <2>7, NoLoanToRepay
<1> QED BY <1>1, <1>4, <1>5 DEF World, IsMarket

\* What CompoundV3Liquidator.sol gets for the collateral it has after buying.
CompoundGets(world, market) == IF world.coll + market.seized = 0 THEN 0 ELSE market.out

CompoundGoes(contract, sender, world, p, market) ==
  /\ sender = contract.owner /\ market.liquidatable /\ market.absorbed # 0 /\ world.debt > 0
  /\ ~market.revert /\ market.repaid <= world.debt
  /\ world.coll + market.seized > 0 => market.out >= p.amountOutMin
  /\ p.minProfit = 0 \/ CompoundGets(world, market) >= market.repaid + p.minProfit

\* CompoundV3Liquidator.sol goes through only where the comet shows it collateral, and with
\* no profit asked may end with less than it had.
THEOREM CompoundOutcome ==
  ASSUME NEW contract, NEW sender, NEW world \in World, NEW p, IsOrder(p), NEW market, IsMarket(market)
  PROVE  compoundLiquidate(contract, sender, world, p, market) =
           IF CompoundGoes(contract, sender, world, p, market)
           THEN [debt |-> world.debt - market.repaid + CompoundGets(world, market), coll |-> 0, paid |-> world.paid]
           ELSE Revert
<1> DEFINE bought == [debt |-> world.debt - market.repaid, coll |-> world.coll + market.seized, paid |-> world.paid]
           got == CompoundGets(world, market)
           profit == IF got > market.repaid THEN got - market.repaid ELSE 0
<1>1. CASE market.revert \/ world.debt < market.repaid
  <2>1. compoundLiquidate(contract, sender, world, p, market) = Revert
    BY <1>1, PoolOutcome DEF compoundLiquidate
  <2> QED BY <1>1, <2>1 DEF CompoundGoes, World, IsMarket
<1>2. CASE ~market.revert /\ world.debt >= market.repaid
  <2>1. bought \in World /\ bought # Revert /\ got \in Nat
    BY <1>2, WorldIsLedger DEF World, IsMarket, CompoundGets
  <2>2. liquidationCall(world, market) = bought BY <1>2, PoolOutcome DEF World, IsMarket
  <2>3. sellCollateral(bought, got) = [debt |-> bought.debt + got, coll |-> 0, paid |-> bought.paid]
    BY <2>1, WorldIsLedger, Sold, Zenon
  <2>4. (IF bought = Revert THEN 0 ELSE IF bought.coll = 0 THEN 0 ELSE market.out) = got
    BY <2>1 DEF CompoundGets
  <2> HIDE DEF got
  <2>5. compoundLiquidate(contract, sender, world, p, market) =
          IF sender # contract.owner \/ ~market.liquidatable \/ market.absorbed = 0 \/ world.debt = 0 THEN Revert
          ELSE IF (bought.coll > 0 /\ (market.out < p.amountOutMin \/ market.revert)) \/ profit < p.minProfit THEN Revert
          ELSE [debt |-> bought.debt + got, coll |-> 0, paid |-> bought.paid]
    BY <2>1, <2>2, <2>3, <2>4 DEF compoundLiquidate
  <2>6. profit < p.minProfit <=> ~(p.minProfit = 0 \/ got >= market.repaid + p.minProfit)
    BY <2>1 DEF IsOrder, IsMarket
  <2>7. CompoundGoes(contract, sender, world, p, market) <=>
          /\ ~(sender # contract.owner \/ ~market.liquidatable \/ market.absorbed = 0 \/ world.debt = 0)
          /\ ~((bought.coll > 0 /\ (market.out < p.amountOutMin \/ market.revert)) \/ profit < p.minProfit)
    BY <1>2, <2>1, <2>6 DEF CompoundGoes, World, IsMarket, IsOrder, got
  <2> QED BY <2>5, <2>7 DEF got
<1> QED BY <1>1, <1>2 DEF World, IsMarket

\* What the owner extracts is all the contract has of the debt asset.
LEMMA ExtractOutcome ==
  ASSUME NEW contract, NEW sender, NEW world \in World
  PROVE  extractProfit(contract, sender, world) =
           IF sender = contract.owner THEN [debt |-> 0, coll |-> world.coll, paid |-> world.paid + world.debt]
           ELSE Revert
<1>1. payBeneficiary(world, world.debt)
        = [debt |-> world.debt - world.debt, coll |-> world.coll, paid |-> world.paid + world.debt]
  BY WorldIsLedger, PaidOut, Zenon
<1> QED BY <1>1 DEF extractProfit, World
-----------------------------------------------------------------------------
(* The contracts' invariants. *)

\* The markets asked about are markets.
LEMMA AskedMarkets ==
  /\ \A world \in Worlds : world \in World /\ world.paid = 0
  /\ \A market \in Markets : IsMarket(market) /\ market.repaid <= 4 /\ market.liquidatable
<1>1. ASSUME NEW world \in Worlds PROVE world \in World /\ world.paid = 0
  BY DEF Worlds, World
<1>2. ASSUME NEW market \in Markets PROVE IsMarket(market) /\ market.repaid <= 4 /\ market.liquidatable
  <2>1. /\ market.repaid \in {2, 4} /\ market.seized \in {0, 3} /\ market.out \in {3, 5, 7}
        /\ market.premium \in {0, 1} /\ market.revert \in BOOLEAN /\ market.liquidatable \in {TRUE}
    BY Zenon DEF Markets
  <2>2. {2, 4} \subseteq Nat /\ {0, 3} \subseteq Nat /\ {3, 5, 7} \subseteq Nat /\ {0, 1} \subseteq Nat
    OBVIOUS
  <2>3. market.repaid <= 4 BY <2>1
  <2>4. market.liquidatable BY <2>1, Zenon
  <2> QED BY <2>1, <2>2, <2>3, <2>4, Zenon DEF IsMarket
<1> QED BY <1>1, <1>2

\* A question answered about one thing leaves the promises about the others empty.
LEMMA ContractAnswered == AskContract => ContractSound'
<1> SUFFICES ASSUME AskContract PROVE ContractSound' OBVIOUS
<1> DEFINE order(amountOutMin, profit, dexId, late) ==
             [repayAmount |-> 4, minProfit |-> profit, minProfitBps |-> 2500 * profit,
              amountOutMin |-> amountOutMin, dexId |-> dexId, pathShort |-> FALSE, late |-> late, router |-> "router"]
           outcome(kind, world, q, market) ==
             CASE kind = "flash" -> liquidateWithFlash(Deployed, "bot", world, q, market)
               [] kind = "funds" -> liquidateWithFunds(Deployed, "deployer", world, q, market)
               [] kind = "morpho" -> morphoLiquidateWithFlash(Deployed, "bot", world, q, market)
               [] kind = "seamless" -> seamlessLiquidate(Deployed, "deployer", world, q, market)
               [] kind = "compound" -> compoundLiquidate(Deployed, "deployer", world, q, market)
<1>a. PICK world \in Worlds, market \in Markets, amountOutMin \in {0, 6}, profit \in 0..2,
           dexId \in {"UniV3", "UniV3Multi", "none"}, late \in BOOLEAN,
           kind \in {"flash", "funds", "morpho", "seamless", "compound"} :
        /\ kind # "compound" => market.absorbed = 1
        /\ decision' = [about |-> "contract", kind |-> kind, world |-> world, market |-> market,
                        plan |-> order(amountOutMin, profit, dexId, late),
                        after |-> outcome(kind, world, order(amountOutMin, profit, dexId, late), market)]
  BY ZenonT(40) DEF AskContract, Decide
<1> DEFINE p == order(amountOutMin, profit, dexId, late)
           after == outcome(kind, world, p, market)
<1>b. p = [repayAmount |-> 4, minProfit |-> profit, minProfitBps |-> 2500 * profit,
           amountOutMin |-> amountOutMin, dexId |-> dexId, pathShort |-> FALSE, late |-> late, router |-> "router"]
  OBVIOUS
<1>c. after = CASE kind = "flash" -> liquidateWithFlash(Deployed, "bot", world, p, market)
                [] kind = "funds" -> liquidateWithFunds(Deployed, "deployer", world, p, market)
                [] kind = "morpho" -> morphoLiquidateWithFlash(Deployed, "bot", world, p, market)
                [] kind = "seamless" -> seamlessLiquidate(Deployed, "deployer", world, p, market)
                [] kind = "compound" -> compoundLiquidate(Deployed, "deployer", world, p, market)
  OBVIOUS
<1>d. decision' = [about |-> "contract", kind |-> kind, world |-> world, market |-> market, plan |-> p, after |-> after]
  BY <1>a
<1> HIDE DEF order, outcome, p, after
<1> DEFINE gain == after.debt + after.paid - world.debt - world.paid
<1>1. /\ world \in World /\ world.paid = 0
      /\ IsMarket(market) /\ market.repaid <= 4 /\ market.liquidatable
      /\ IsOrder(p) /\ p.minProfitBps \in Nat
  <2>1. IsOrder(p) /\ p.minProfitBps \in Nat BY <1>b DEF IsOrder
  <2> QED BY <2>1, AskedMarkets
<1>2. p.repayAmount = 4 /\ p.minProfit = profit /\ p.amountOutMin = amountOutMin /\ p.dexId = dexId
      /\ p.late = late /\ ~p.pathShort /\ p.router = "router" /\ requiredProfit(p) = profit
  BY <1>b DEF requiredProfit
<1>3. p.minProfit > 0 => mayLiquidate(Deployed, "bot", p)
  BY <1>2 DEF mayLiquidate, Deployed
<1>4. ASSUME after # Revert
      PROVE  /\ after.coll = 0 /\ after.debt >= 0
             /\ kind \in {"flash", "funds", "seamless"} => after.debt >= world.debt /\ gain >= p.minProfit
             /\ kind \in {"flash", "funds"} =>
                  after.paid - world.paid >= p.minProfit /\ after.debt = world.debt + p.repayAmount - market.repaid
             /\ kind = "morpho" => after.debt = 0 /\ after.paid - world.paid >= p.minProfit
             /\ kind = "compound" => gain >= p.minProfit \/ (p.minProfit = 0 /\ world.debt + gain >= 0)
  <2>1. CASE kind = "flash"
    <3>1. after = liquidateWithFlash(Deployed, "bot", world, p, market) BY <2>1, <1>c
    <3>2. /\ FlashGoes(Deployed, "bot", world, p, market)
          /\ after = [debt |-> world.debt + p.repayAmount - market.repaid, coll |-> 0,
                      paid |-> world.paid + (market.out - p.repayAmount - market.premium)]
      BY <3>1, <1>1, <1>4, FlashOutcome
    <3> QED BY <2>1, <3>2, <1>1, <1>2 DEF FlashGoes, World, IsMarket
  <2>2. CASE kind = "funds"
    <3>1. after = liquidateWithFunds(Deployed, "deployer", world, p, market) BY <2>2, <1>c
    <3>2. /\ FundsGo(Deployed, "deployer", world, p, market)
          /\ after = [debt |-> world.debt - market.repaid + p.repayAmount, coll |-> 0,
                      paid |-> world.paid + (market.out - p.repayAmount)]
      BY <3>1, <1>1, <1>4, FundsOutcome
    <3> QED BY <2>2, <3>2, <1>1, <1>2 DEF FundsGo, World, IsMarket
  <2>3. CASE kind = "morpho"
    <3>1. after = morphoLiquidateWithFlash(Deployed, "bot", world, p, market) BY <2>3, <1>c
    <3>2. /\ MorphoGoes(Deployed, "bot", world, p, market)
          /\ after = [debt |-> 0, coll |-> 0, paid |-> world.paid + (world.debt + market.out - market.repaid)]
      BY <3>1, <1>1, <1>4, MorphoOutcome
    <3> QED BY <2>3, <3>2, <1>1, <1>2 DEF MorphoGoes, World, IsMarket
  <2>4. CASE kind = "seamless"
    <3>1. after = seamlessLiquidate(Deployed, "deployer", world, p, market) BY <2>4, <1>c
    <3>2. /\ SeamlessGoes(Deployed, "deployer", world, p, market)
          /\ after = [debt |-> world.debt + (market.out - market.repaid - market.premium), coll |-> 0,
                      paid |-> world.paid]
      BY <3>1, <1>1, <1>4, SeamlessOutcome
    <3> QED BY <2>4, <3>2, <1>1, <1>2 DEF SeamlessGoes, World, IsMarket
  <2>5. CASE kind = "compound"
    <3>1. after = compoundLiquidate(Deployed, "deployer", world, p, market) BY <2>5, <1>c
    <3>2. /\ CompoundGoes(Deployed, "deployer", world, p, market)
          /\ after = [debt |-> world.debt - market.repaid + CompoundGets(world, market), coll |-> 0, paid |-> world.paid]
      BY <3>1, <1>1, <1>4, CompoundOutcome
    <3>3. CompoundGets(world, market) \in Nat BY <1>1 DEF CompoundGets, IsMarket
    <3> QED BY <2>5, <3>2, <3>3, <1>1, <1>2 DEF CompoundGoes, World, IsMarket
  <2> QED BY <2>1, <2>2, <2>3, <2>4, <2>5
<1>5. ASSUME kind = "flash", p.minProfit > 0, ~p.late, p.dexId # "none", ~market.revert,
             world.coll + market.seized > 0, market.out >= p.amountOutMin,
             p.amountOutMin >= p.repayAmount + p.minProfit + market.premium
      PROVE  after # Revert
  <2>1. RouterKeeps(p, market) BY <1>2, <1>5, ContractsAssumption DEF RouterKeeps
  <2>2. FlashGoes(Deployed, "bot", world, p, market)
    BY <1>1, <1>2, <1>3, <1>5, <2>1 DEF FlashGoes, World, IsMarket
  <2>3. after = [debt |-> world.debt + p.repayAmount - market.repaid, coll |-> 0,
                 paid |-> world.paid + (market.out - p.repayAmount - market.premium)]
    BY <1>1, <1>5, <1>c, <2>2, FlashOutcome
  <2>4. after \in Ledger BY <2>3, <1>1, <1>2 DEF Ledger, World, IsMarket
  <2> QED BY <2>4, WorldIsLedger
<1> QED BY <1>4, <1>5, <1>d DEF ContractSound, About
-----------------------------------------------------------------------------
People == {"deployer", "bot", "heir"}
Contracts == [owner : People, pending : People \cup {"nobody"}, paused : BOOLEAN, executors : SUBSET People,
              routers : SUBSET {"router"}]

\* The calls asked about are orders.
LEMMA CallsAsked ==
  ASSUME NEW call \in AdminCalls
  PROVE  /\ call.what \in {"transfer", "accept", "pause", "executor", "router"}
         /\ call.what = "transfer" => call.who \in {"bot", "heir"}
         /\ call.what = "executor" => call.who = "bot"
         /\ call.none = "nobody" /\ call.on \in BOOLEAN
  BY DEF AdminCalls

\* A call of the owner's changes a setting, only an accepted handover the owner; nobody
\* becomes an executor but the bot and who becomes owner.
LEMMA Administered ==
  ASSUME NEW contract \in Contracts, NEW sender \in People, NEW call \in AdminCalls
  PROVE  LET after == administer(contract, sender, call)
         IN /\ after \in Contracts
            /\ after.owner = contract.owner \/ (call.what = "accept" /\ sender = contract.pending /\ after.owner = sender)
            /\ after.executors \subseteq contract.executors \cup {"bot", after.owner}
<1> DEFINE after == administer(contract, sender, call)
<1>1. CASE call.what = "accept"
  <2>1. after = IF sender # contract.pending THEN contract
                ELSE [contract EXCEPT !.owner = sender, !.pending = call.none, !.executors = @ \cup {sender}]
    BY <1>1 DEF administer
  <2>2. CASE sender = contract.pending
    <3>1. after = [contract EXCEPT !.owner = sender, !.pending = call.none, !.executors = @ \cup {sender}]
      BY <2>1, <2>2
    <3>2. after = [owner |-> sender, pending |-> call.none, paused |-> contract.paused,
                   executors |-> contract.executors \cup {sender}, routers |-> contract.routers]
      BY <3>1, Zenon DEF Contracts
    <3>3. after \in Contracts
      <4>1. call.none = "nobody" BY CallsAsked
      <4>2. contract.executors \cup {sender} \in SUBSET People BY DEF Contracts
      <4>3. call.none \in People \cup {"nobody"} BY <4>1
      <4>4. contract.paused \in BOOLEAN /\ contract.routers \in SUBSET {"router"} BY DEF Contracts
      <4>5. [owner |-> sender, pending |-> call.none, paused |-> contract.paused,
             executors |-> contract.executors \cup {sender}, routers |-> contract.routers] \in Contracts
        BY <4>2, <4>3, <4>4, Zenon DEF Contracts
      <4> QED BY <3>2, <4>5, Zenon
    <3> HIDE DEF after
    <3>4. after.owner = sender /\ after.executors = contract.executors \cup {sender} BY <3>2
    <3> QED BY <3>3, <3>4, <2>2, <1>1 DEF after
  <2> QED BY <2>1, <2>2
<1>2. CASE call.what # "accept" /\ sender # contract.owner
  BY <1>2 DEF administer
<1>3. CASE call.what = "transfer" /\ sender = contract.owner
  <2>1. after = [contract EXCEPT !.pending = call.who] BY <1>3 DEF administer
  <2> QED BY <2>1, <1>3, CallsAsked DEF Contracts, People
<1>4. CASE call.what = "pause" /\ sender = contract.owner
  <2>1. after = [contract EXCEPT !.paused = call.on] BY <1>4 DEF administer
  <2> QED BY <2>1, <1>4, CallsAsked DEF Contracts, People
<1>5. CASE call.what = "executor" /\ sender = contract.owner
  <2>1. after = [contract EXCEPT !.executors = IF call.on THEN @ \cup {call.who} ELSE @ \ {call.who}]
    BY <1>5 DEF administer
  <2> QED BY <2>1, <1>5, CallsAsked DEF Contracts, People
<1>6. CASE call.what = "router" /\ sender = contract.owner
  <2>1. after = [contract EXCEPT !.routers = IF call.on THEN @ \cup {call.who} ELSE @ \ {call.who}]
    BY <1>6 DEF administer
  <2>2. call.on = FALSE /\ call.who = "router" BY <1>6 DEF AdminCalls
  <2> QED BY <2>1, <2>2, <1>6, CallsAsked DEF Contracts, People
<1> QED BY <1>1, <1>2, <1>3, <1>4, <1>5, <1>6, CallsAsked

\* Whoever the settings leave as owner liquidates unless paused or without the router.
LEMMA SettingsAnswered == AskSettings => SettingsSound'
<1> SUFFICES ASSUME AskSettings PROVE SettingsSound' OBVIOUS
<1> DEFINE p == [repayAmount |-> 4, minProfit |-> 1, amountOutMin |-> 6, dexId |-> "UniV2", pathShort |-> FALSE,
                 late |-> FALSE, router |-> "router"]
           market == [repaid |-> 4, seized |-> 3, out |-> 7, premium |-> 0, revert |-> FALSE]
           world == [debt |-> 0, coll |-> 0, paid |-> 0]
           settings(first, one, second, two) == administer(administer(Deployed, one, first), two, second)
<1>a. PICK first \in AdminCalls, second \in AdminCalls, one \in {"deployer", "heir", "bot"},
           two \in {"deployer", "heir", "bot"}, sender \in {"deployer", "heir", "bot"} :
        decision' = [about |-> "settings", calls |-> {first, second}, sender |-> sender,
                     contract |-> settings(first, one, second, two),
                     after |-> liquidateWithFlash(settings(first, one, second, two), sender, world, p, market),
                     extracted |-> extractProfit(settings(first, one, second, two), sender, [world EXCEPT !.debt = 3])]
  BY Zenon DEF AskSettings, Decide
<1> DEFINE contract == settings(first, one, second, two)
           between == administer(Deployed, one, first)
           after == liquidateWithFlash(contract, sender, world, p, market)
           extracted == extractProfit(contract, sender, [world EXCEPT !.debt = 3])
<1>b. decision' = [about |-> "settings", calls |-> {first, second}, sender |-> sender, contract |-> contract,
                   after |-> after, extracted |-> extracted]
  BY <1>a
<1>1. world \in World /\ IsOrder(p) /\ IsMarket(market) BY DEF World, IsOrder, IsMarket
<1>2. Deployed \in Contracts /\ Deployed.owner = "deployer" /\ Deployed.pending = "nobody"
      /\ Deployed.executors = {"deployer", "bot"}
  BY DEF Deployed, Contracts, People
<1>3. /\ between \in Contracts
      /\ between.owner = "deployer" /\ between.executors \subseteq {"deployer", "bot"}
  <2>1. one \in People BY DEF People
  <2>2. /\ between \in Contracts
        /\ between.owner = Deployed.owner \/ (first.what = "accept" /\ one = Deployed.pending /\ between.owner = one)
        /\ between.executors \subseteq Deployed.executors \cup {"bot", between.owner}
    BY <2>1, <1>2, Administered, Zenon
  <2> HIDE DEF between
  <2> QED BY <2>1, <2>2, <1>2 DEF People
<1>4. /\ contract \in Contracts
      /\ contract.owner = "deployer" \/ second.what = "accept"
      /\ contract.executors \subseteq {"deployer", "bot", contract.owner}
  <2>1. two \in People BY DEF People
  <2>2. contract = administer(between, two, second) OBVIOUS
  <2> HIDE DEF between
  <2>3. /\ contract \in Contracts
        /\ contract.owner = between.owner \/ (second.what = "accept" /\ two = between.pending /\ contract.owner = two)
        /\ contract.executors \subseteq between.executors \cup {"bot", contract.owner}
    <3>1. /\ administer(between, two, second) \in Contracts
          /\ \/ administer(between, two, second).owner = between.owner
             \/ /\ second.what = "accept" /\ two = between.pending
                /\ administer(between, two, second).owner = two
          /\ administer(between, two, second).executors
                \subseteq between.executors \cup {"bot", administer(between, two, second).owner}
      BY <2>1, <1>3, Administered, Zenon
    <3> HIDE DEF contract
    <3> QED BY <3>1, <2>2
  <2> HIDE DEF contract
  <2> QED BY <2>3, <1>3
<1>5. after # Revert <=> mayLiquidate(contract, sender, p)
  <2>1. FlashGoes(contract, sender, world, p, market) <=> mayLiquidate(contract, sender, p)
    BY ContractsAssumption DEF FlashGoes, RouterKeeps
  <2>2. [debt |-> world.debt + p.repayAmount - market.repaid, coll |-> 0,
         paid |-> world.paid + (market.out - p.repayAmount - market.premium)] \in Ledger
    BY DEF Ledger
  <2> HIDE DEF world, p, market, contract
  <2> QED BY <1>1, <2>1, <2>2, FlashOutcome, WorldIsLedger
<1>6. extracted = IF sender = contract.owner THEN [debt |-> 0, coll |-> 0, paid |-> 3] ELSE Revert
  <2>1. [world EXCEPT !.debt = 3] = [debt |-> 3, coll |-> 0, paid |-> 0] OBVIOUS
  <2>2. [debt |-> 3, coll |-> 0, paid |-> 0] \in World BY DEF World
  <2> QED BY <2>1, <2>2, ExtractOutcome
<1>7. mayLiquidate(contract, sender, p) <=>
        sender \in contract.executors \cup {contract.owner} /\ ~contract.paused /\ "router" \in contract.routers
  BY DEF mayLiquidate
<1> HIDE DEF contract, after, extracted, world, p, market
<1>8. contract.owner # "nobody" BY <1>4 DEF Contracts, People
<1> QED BY <1>b, <1>4, <1>5, <1>6, <1>7, <1>8 DEF SettingsSound, About, People
-----------------------------------------------------------------------------
(* Pre-liquidations. *)

IsOffer(params) ==
  /\ params.repayAmount \in Nat /\ params.repayShares \in Nat /\ params.seizeAmount \in Nat
  /\ params.collateralAmount \in Nat

\* Whatever slippage is configured, the least the callback accepts is no more than the repayment.
LEMMA RepayBounded ==
  ASSUME NEW amount \in Nat, NEW amountOut, NEW slippageBps \in Int
  PROVE  minRepayAssets(amount, amountOut, slippageBps) \in 0..amount
<1> DEFINE bps == IF slippageBps < 0 THEN 0 ELSE IF slippageBps > 10000 THEN 10000 ELSE slippageBps
<1>1. PICK whole \in Nat : whole = 10000 OBVIOUS
<1>2. PICK part \in 0..whole : part = 10000 - bps BY <1>1, SMTT(30)
<1> DEFINE share == amount * part
<1>3. share \in 0..(amount * whole) BY Share, Zenon
<1>4. minRepayAssets(amount, amountOut, slippageBps) = share \div 10000
  BY <1>2 DEF minRepayAssets
<1> HIDE DEF share
<1> QED BY <1>1, <1>3, <1>4

\* A bundle is built on a quote above the repayment, of one of the two.
THEOREM BundleBuilt ==
  ASSUME NEW params, IsOffer(params), NEW primary, NEW odos, NEW oneInch, NEW slippageBps \in Int,
         odos.answer \in Int \cup {NoQuote}, oneInch.answer \in Int \cup {NoQuote},
         odos.key \in BOOLEAN, odos.router \in BOOLEAN, oneInch.key \in BOOLEAN,
         executePreLiquidation(params, primary, odos, oneInch, slippageBps) # NoQuote
  PROVE  LET bundle == executePreLiquidation(params, primary, odos, oneInch, slippageBps)
         IN \E amountOut \in Int :
              /\ amountOut > params.repayAmount /\ params.repayShares > 0
              /\ (odos.key /\ odos.router /\ amountOut = odos.answer) \/ (oneInch.key /\ amountOut = oneInch.answer)
              /\ bundle = [minRepayAssets |-> minRepayAssets(params.repayAmount, amountOut, slippageBps),
                           sellAmount |-> IF params.seizeAmount > 0 THEN params.seizeAmount ELSE params.collateralAmount,
                           repayShares |-> params.repayShares, profit |-> amountOut - params.repayAmount,
                           beneficiary |-> TRUE]
<1> DEFINE amountOut == swapQuote(primary, odos, oneInch)
<1>1. \/ amountOut = NoQuote
      \/ amountOut \in Int /\ odos.key /\ odos.router /\ amountOut = odos.answer
      \/ amountOut \in Int /\ oneInch.key /\ amountOut = oneInch.answer
  BY DEF swapQuote, getOdosQuote, get1inchQuote
<1> HIDE DEF amountOut
<1>2. executePreLiquidation(params, primary, odos, oneInch, slippageBps) =
        IF params.repayShares = 0 \/ ~params.chainConfigured \/ amountOut = NoQuote \/ amountOut <= params.repayAmount
        THEN NoQuote
        ELSE [minRepayAssets |-> minRepayAssets(params.repayAmount, amountOut, slippageBps),
              sellAmount |-> IF params.seizeAmount > 0 THEN params.seizeAmount ELSE params.collateralAmount,
              repayShares |-> params.repayShares, profit |-> amountOut - params.repayAmount, beneficiary |-> TRUE]
  BY DEF executePreLiquidation, buildPreLiqBundle, amountOut
<1>3. params.repayShares # 0 /\ amountOut # NoQuote /\ ~(amountOut <= params.repayAmount)
  BY <1>2
<1>4. amountOut \in Int /\ amountOut > params.repayAmount /\ params.repayShares > 0
  BY <1>1, <1>3 DEF IsOffer
<1> QED BY <1>1, <1>2, <1>3, <1>4

\* The callback repays the offer exactly, keeps nothing and hands the rest over.
THEOREM SettledOutcome ==
  ASSUME NEW repayAssets \in Nat, NEW payload, payload.beneficiary = TRUE, payload.sellAmount \in Nat,
         payload.minRepayAssets \in Nat, NEW held \in Nat, NEW got \in Nat, NEW sold \in Nat
  PROVE  onPreLiquidate(TRUE, repayAssets, payload, held, payload.sellAmount,
                        [got |-> got, sold |-> sold, fails |-> FALSE]) =
           IF /\ repayAssets > 0 /\ payload.sellAmount > 0 /\ sold <= payload.sellAmount
              /\ held + got >= repayAssets /\ held + got >= payload.minRepayAssets
           THEN [repaid |-> repayAssets, beneficiaryDebt |-> held + got - repayAssets,
                 beneficiaryColl |-> payload.sellAmount - sold, leftDebt |-> 0, leftColl |-> 0, allowance |-> 0]
           ELSE CallReverts
  BY DEF onPreLiquidate

\* A pre-liquidation that settles repays the offer and loses nothing; one whose swap
\* brings the repayment settles.
LEMMA BundleAnswered == AskBundle => BundleSound'
<1> SUFFICES ASSUME AskBundle PROVE BundleSound' OBVIOUS
<1>z. PICK repay \in {0, 100}, shares \in {0, 5}, seize \in {0, 40}, odosAnswer \in {NoQuote, 90, 110},
           oneInchAnswer \in {NoQuote, 90, 110}, odosKey \in BOOLEAN, oneInchKey \in BOOLEAN, odosRouter \in BOOLEAN,
           primary \in {"odos", "oneinch", "none"}, slippageBps \in Slippages :
        AnswerBundle([repayAmount |-> repay, repayShares |-> shares, seizeAmount |-> seize,
                      collateralAmount |-> 60, chainConfigured |-> TRUE],
                     primary, [key |-> odosKey, router |-> odosRouter, answer |-> odosAnswer],
                     [key |-> oneInchKey, answer |-> oneInchAnswer], slippageBps)
  BY Zenon DEF AskBundle, AnswerBundle
<1> DEFINE params == [repayAmount |-> repay, repayShares |-> shares, seizeAmount |-> seize,
                      collateralAmount |-> 60, chainConfigured |-> TRUE]
           odos == [key |-> odosKey, router |-> odosRouter, answer |-> odosAnswer]
           oneInch == [key |-> oneInchKey, answer |-> oneInchAnswer]
           bundle == executePreLiquidation(params, primary, odos, oneInch, slippageBps)
           settle(repayAssets, got, held, sold) ==
             IF bundle = NoQuote THEN CallReverts
             ELSE onPreLiquidate(TRUE, repayAssets, bundle, held, bundle.sellAmount,
                                 [got |-> got, sold |-> sold, fails |-> FALSE])
<1>y. AnswerBundle(params, primary, odos, oneInch, slippageBps) BY <1>z
<1>a. PICK repayAssets \in {0, 95, 100, 103}, got \in {80, 99, 100, 115}, held \in {0, 3}, sold \in {40, 70} :
        /\ bundle = NoQuote => /\ repayAssets = 100 /\ got = 100 /\ held = 0 /\ sold = 40
        /\ decision' = [about |-> "bundle", params |-> params, bundle |-> bundle, repayAssets |-> repayAssets,
                        got |-> got, held |-> held, sold |-> sold, odos |-> odos, oneInch |-> oneInch,
                        settled |-> settle(repayAssets, got, held, sold)]
  <2> HIDE DEF params, odos, oneInch
  <2> QED BY <1>y DEF AnswerBundle, Decide
<1> DEFINE settled == settle(repayAssets, got, held, sold)
<1>b. decision' = [about |-> "bundle", params |-> params, bundle |-> bundle, repayAssets |-> repayAssets,
                   got |-> got, held |-> held, sold |-> sold, odos |-> odos, oneInch |-> oneInch, settled |-> settled]
  BY <1>a, Zenon
<1>1. /\ IsOffer(params) /\ params.repayAmount = repay /\ params.seizeAmount = seize /\ params.collateralAmount = 60
      /\ odos.answer \in Int \cup {NoQuote} /\ oneInch.answer \in Int \cup {NoQuote}
      /\ odos.key \in BOOLEAN /\ odos.router \in BOOLEAN /\ oneInch.key \in BOOLEAN
      /\ slippageBps \in Int /\ repay \in Nat
  BY DEF IsOffer, Slippages
<1>2. bundle = executePreLiquidation(params, primary, odos, oneInch, slippageBps) OBVIOUS
<1>3. settled = IF bundle = NoQuote THEN CallReverts
                ELSE onPreLiquidate(TRUE, repayAssets, bundle, held, bundle.sellAmount,
                                    [got |-> got, sold |-> sold, fails |-> FALSE])
  OBVIOUS
<1> HIDE DEF settle, params, odos, oneInch, bundle, settled
<1>4. CASE bundle = NoQuote
  <2>1. settled = CallReverts BY <1>3, <1>4
  <2> QED BY <1>b, <1>4, <2>1 DEF BundleSound, About
<1>5. CASE bundle # NoQuote
  <2>1. PICK amountOut \in Int :
           /\ amountOut > params.repayAmount /\ params.repayShares > 0
           /\ (odos.key /\ odos.router /\ amountOut = odos.answer) \/ (oneInch.key /\ amountOut = oneInch.answer)
           /\ bundle = [minRepayAssets |-> minRepayAssets(params.repayAmount, amountOut, slippageBps),
                        sellAmount |-> IF params.seizeAmount > 0 THEN params.seizeAmount ELSE params.collateralAmount,
                        repayShares |-> params.repayShares, profit |-> amountOut - params.repayAmount,
                        beneficiary |-> TRUE]
    BY <1>1, <1>2, <1>5, BundleBuilt
  <2>2. minRepayAssets(repay, amountOut, slippageBps) \in 0..repay BY <1>1, RepayBounded
  <2>3. /\ bundle.beneficiary = TRUE /\ bundle.sellAmount \in Nat /\ bundle.sellAmount > 0
        /\ bundle.minRepayAssets \in 0..repay /\ bundle.profit > 0 /\ bundle.repayShares > 0
        /\ amountOut = bundle.profit + params.repayAmount
    BY <1>1, <2>1, <2>2
  <2>4. settled = IF /\ repayAssets > 0 /\ bundle.sellAmount > 0 /\ sold <= bundle.sellAmount
                     /\ held + got >= repayAssets /\ held + got >= bundle.minRepayAssets
                  THEN [repaid |-> repayAssets, beneficiaryDebt |-> held + got - repayAssets,
                        beneficiaryColl |-> bundle.sellAmount - sold, leftDebt |-> 0, leftColl |-> 0, allowance |-> 0]
                  ELSE CallReverts
    <3>1. repayAssets \in Nat /\ got \in Nat /\ held \in Nat /\ sold \in Nat /\ bundle.minRepayAssets \in Nat
      BY <2>3, <1>1
    <3>2. onPreLiquidate(TRUE, repayAssets, bundle, held, bundle.sellAmount,
                         [got |-> got, sold |-> sold, fails |-> FALSE]) =
            IF /\ repayAssets > 0 /\ bundle.sellAmount > 0 /\ sold <= bundle.sellAmount
               /\ held + got >= repayAssets /\ held + got >= bundle.minRepayAssets
            THEN [repaid |-> repayAssets, beneficiaryDebt |-> held + got - repayAssets,
                  beneficiaryColl |-> bundle.sellAmount - sold, leftDebt |-> 0, leftColl |-> 0, allowance |-> 0]
            ELSE CallReverts
      BY <3>1, <2>3 DEF onPreLiquidate
    <3> QED BY <3>2, <1>3, <1>5
  <2>5. ASSUME got >= params.repayAmount, sold <= bundle.sellAmount, repayAssets \in 1..params.repayAmount
        PROVE  settled # CallReverts
    <3>1. settled = [repaid |-> repayAssets, beneficiaryDebt |-> held + got - repayAssets,
                     beneficiaryColl |-> bundle.sellAmount - sold, leftDebt |-> 0, leftColl |-> 0, allowance |-> 0]
      BY <1>1, <2>3, <2>4, <2>5
    <3> QED BY <3>1, <2>3, ContractsAssumption
  <2>6. ASSUME settled # CallReverts
        PROVE  /\ settled.repaid = repayAssets
               /\ settled.repaid + settled.beneficiaryDebt = held + got
               /\ settled.beneficiaryDebt >= 0 /\ settled.beneficiaryColl >= 0
    BY <2>3, <2>4, <2>6
  <2> QED BY <1>b, <1>1, <2>1, <2>3, <2>5, <2>6 DEF BundleSound, About
<1> QED BY <1>4, <1>5

\* What the quoter says of each option; the quotes made of it.
LEMMA QuotesMade ==
  ASSUME NEW options, NEW answers, NEW allowedRouters, NEW seize, NEW slippageBps \in Int,
         \E n \in Nat : DOMAIN options \subseteq 1..n,
         \A i \in DOMAIN options : quoted(options[i], answers[options[i]]) \in Nat \cup {Failure}
  PROVE  LET quotes == quoteRoutes(options, answers, allowedRouters, seize, slippageBps)
         IN /\ \E n \in Nat : DOMAIN quotes \subseteq 1..n
            /\ \A i \in DOMAIN quotes :
                 /\ i \in DOMAIN options /\ quotes[i].option = options[i]
                 /\ quotes[i].quotedOut \in Nat /\ quotes[i].quotedOut = quoted(options[i], answers[options[i]])
                 /\ quotes[i].amountOutMin \in Int
                 /\ quotes[i].amountOutMin * 10000 <= quotes[i].quotedOut * (10000 - slippageBps)
<1> DEFINE quote(i) == buildRouteQuote(options[i], answers[options[i]], allowedRouters, slippageBps)
           dom == {j \in DOMAIN options : seize # 0 /\ quote(j) # Failure}
           quotes == quoteRoutes(options, answers, allowedRouters, seize, slippageBps)
<1>1. quotes = [i \in dom |-> quote(i)] BY DEF quoteRoutes
<1>2. ASSUME NEW i \in dom
      PROVE  /\ i \in DOMAIN options /\ quote(i).option = options[i]
             /\ quote(i).quotedOut \in Nat /\ quote(i).quotedOut = quoted(options[i], answers[options[i]])
             /\ quote(i).amountOutMin \in Int
             /\ quote(i).amountOutMin * 10000 <= quote(i).quotedOut * (10000 - slippageBps)
  <2> DEFINE out == quoted(options[i], answers[options[i]])
             share == out * (10000 - slippageBps)
  <2>1. quote(i) # Failure /\ i \in DOMAIN options OBVIOUS
  <2>2. quote(i) = [option |-> options[i], quotedOut |-> out, amountOutMin |-> share \div 10000] /\ out # Failure
    BY <2>1 DEF buildRouteQuote
  <2>3. out \in Nat BY <2>1, <2>2
  <2> HIDE DEF quote, out
  <2>4. share \in Int BY <2>3
  <2> HIDE DEF share
  <2>5. share \div 10000 \in Int /\ (share \div 10000) * 10000 <= share BY <2>4
  <2> QED BY <2>1, <2>2, <2>3, <2>5 DEF out, share
<1> HIDE DEF quote
<1>3. DOMAIN quotes = dom /\ \A i \in dom : quotes[i] = quote(i) BY <1>1
<1>4. dom \subseteq DOMAIN options OBVIOUS
<1> HIDE DEF quotes, dom
<1>5. \E n \in Nat : DOMAIN quotes \subseteq 1..n BY <1>3, <1>4
<1>6. \A i \in DOMAIN quotes :
        /\ i \in DOMAIN options /\ quotes[i].option = options[i]
        /\ quotes[i].quotedOut \in Nat /\ quotes[i].quotedOut = quoted(options[i], answers[options[i]])
        /\ quotes[i].amountOutMin \in Int
        /\ quotes[i].amountOutMin * 10000 <= quotes[i].quotedOut * (10000 - slippageBps)
  <2> SUFFICES ASSUME NEW i \in dom
               PROVE  /\ i \in DOMAIN options /\ quotes[i].option = options[i]
                      /\ quotes[i].quotedOut \in Nat /\ quotes[i].quotedOut = quoted(options[i], answers[options[i]])
                      /\ quotes[i].amountOutMin \in Int
                      /\ quotes[i].amountOutMin * 10000 <= quotes[i].quotedOut * (10000 - slippageBps)
    BY <1>3
  <2>1. quotes[i] = quote(i) BY <1>3
  <2> QED BY <1>2, <2>1
<1> QED BY <1>5, <1>6 DEF quotes

\* The plan of a route, mined.
LEMMA EndToEndAnswered == AskEndToEnd => EndToEndSound'
<1> SUFFICES ASSUME AskEndToEnd PROVE EndToEndSound' OBVIOUS
<1>a. PICK debt \in {4, 9, 16}, closeFactorBpsIn \in CloseFactors, collateral \in {3, 30}, floorBps \in {30, 1000},
           bonusBpsIn \in Bonuses, slippageBps \in {0, 1000}, quoteBps \in QuoteShares, gas \in {0, 1},
           premium \in {0, 1}, fillBps \in FillShares, repaidLess \in {0, 1}, mode \in {"flash", "funds"},
           late \in BOOLEAN :
        CarryThrough([debt |-> debt, collateral |-> collateral, debtPrice |-> 1, collPrice |-> 1,
                      closeFactorBps |-> closeFactorBpsIn, bonusBps |-> bonusBpsIn, maxRepayUsd |-> 10,
                      floorBps |-> floorBps, protocol |-> "aavev3", preliq |-> NoOffer, now |-> 1,
                      borrowShares |-> 0, gasCapUsd |-> 4, nativePriceUsd |-> 1],
                     slippageBps, quoteBps, gas, premium, fillBps, repaidLess, mode, late)
  BY Zenon DEF AskEndToEnd
<1> DEFINE input == [debt |-> debt, collateral |-> collateral, debtPrice |-> 1, collPrice |-> 1,
                     closeFactorBps |-> closeFactorBpsIn, bonusBps |-> bonusBpsIn, maxRepayUsd |-> 10,
                     floorBps |-> floorBps, protocol |-> "aavev3", preliq |-> NoOffer, now |-> 1,
                     borrowShares |-> 0, gasCapUsd |-> 4, nativePriceUsd |-> 1]
           option == [type |-> "UniV2", router |-> "router"]
           quote == applyBps(seizeAmount(input), quoteBps)
           gasOf == [o \in {option} |-> [kind |-> "gas", eth |-> gas]]
           answers == [o \in {option} |-> <<quote, quote>>]
           quotes == quoteRoutes(<<option>>, answers, {}, seizeAmount(input), slippageBps)
           plan == simulate(input, quotes, gasOf)
           call == encodePlan(plan, mode, late)
           market == [repaid |-> plan.repayAmount - repaidLess, seized |-> plan.seizeAmount,
                      out |-> applyBps(quote, fillBps), premium |-> premium, revert |-> FALSE]
           world == [debt |-> 16, coll |-> 0, paid |-> 0]
           after == IF call.function = "liquidateWithFunds"
                    THEN liquidateWithFunds(Deployed, "deployer", world, call, market)
                    ELSE liquidateWithFlash(Deployed, "bot", world, call, market)
<1>1. IsInput(input) /\ input.debt <= 16 /\ input.protocol = "aavev3" /\ input.debtPrice = 1 /\ input.collPrice = 1
  BY SMT DEF IsInput, CloseFactors, Bonuses
<1> HIDE DEF input
<1>2. quote \in Nat
  <2>1. seizeAmount(input) \in Nat
    BY <1>1, SeizeBounds
  <2>2. quoteBps \in Nat BY DEF QuoteShares
  <2>4. seizeAmount(input) * quoteBps \in Nat BY <2>1, <2>2, SMT
  <2> QED BY <2>4 DEF applyBps
<1>3. CarryThrough(input, slippageBps, quoteBps, gas, premium, fillBps, repaidLess, mode, late)
  BY <1>a DEF input
<1>4. /\ plan.outcome = "plan"
      /\ decision' = [about |-> "end-to-end", plan |-> plan, call |-> call, market |-> market, world |-> world,
                      after |-> after]
  BY <1>3, ZenonT(40) DEF CarryThrough, Decide
<1>5. market.out \in Nat
  <2> HIDE DEF quote
  <2>1. fillBps \in Nat BY DEF FillShares
  <2>3. quote * fillBps \in Nat BY <1>2, <2>1, SMT
  <2>4. applyBps(quote, fillBps) \in Nat BY <2>3 DEF applyBps
  <2> QED BY <2>4
<1> HIDE DEF quote
<1>6. /\ \E n \in Nat : DOMAIN quotes \subseteq 1..n
      /\ \A i \in DOMAIN quotes : quotes[i].option = option /\ quotes[i].amountOutMin \in Int
  <2>1. DOMAIN <<option>> \subseteq 1..1 /\ \A i \in DOMAIN <<option>> : <<option>>[i] = option OBVIOUS
  <2>2. quoted(option, answers[option]) \in Nat
    <3>1. answers[option] = <<quote, quote>> OBVIOUS
    <3> HIDE DEF answers
    <3>2. option.type = "UniV2" OBVIOUS
    <3> HIDE DEF option
    <3> QED BY <1>2, <3>1, <3>2 DEF quoted
  <2>3. slippageBps \in Int OBVIOUS
  <2> DEFINE options == <<option>>
  <2> HIDE DEF answers, option
  <2>4. \E n \in Nat : DOMAIN options \subseteq 1..n BY <2>1
  <2>5. \A i \in DOMAIN options : quoted(options[i], answers[options[i]]) \in Nat \cup {Failure} BY <2>1, <2>2
  <2>6. \A i \in DOMAIN options : options[i] = option BY <2>1
  <2>7. quotes = quoteRoutes(options, answers, {}, seizeAmount(input), slippageBps) OBVIOUS
  <2> HIDE DEF options, quotes
  <2> QED BY <2>3, <2>4, <2>5, <2>6, <2>7, QuotesMade
<1>7. gasOf[option].eth \in Nat OBVIOUS
<1> HIDE DEF quotes, gasOf, answers
<1>8. IsQuotes(quotes, gasOf) BY <1>6, <1>7 DEF IsQuotes
<1>9. /\ plan.repayAmount \in Nat /\ plan.repayAmount > 0 /\ plan.repayAmount <= 16
      /\ plan.seizeAmount \in Nat /\ plan.seizeAmount > 0
      /\ plan.minProfit \in Nat /\ plan.minProfit > 0
      /\ plan.amountOutMin \in Int /\ plan.amountOutMin - plan.repayAmount >= plan.minProfit
      /\ plan.option = option
  <2>1. simulate(input, quotes, gasOf).outcome = "plan" /\ IsInput(input) BY <1>1, <1>4
  <2>2. /\ plan.repayAmount \in Nat /\ plan.repayAmount > 0 /\ plan.repayAmount <= input.debt
        /\ plan.seizeAmount \in Nat /\ plan.seizeAmount > 0
        /\ plan.amountOutMin - plan.repayAmount >= plan.minProfit
        /\ plan.minProfit \in Nat /\ plan.minProfit > 0
        /\ \E i \in DOMAIN quotes : quotes[i].option = plan.option /\ quotes[i].amountOutMin = plan.amountOutMin
    BY <1>8, <2>1, PlanKept, SMTT(30)
  <2>3. input.debt \in Nat BY <1>1 DEF IsInput
  <2> HIDE DEF plan
  <2> QED BY <1>1, <1>6, <2>2, <2>3
<1> HIDE DEF plan
<1>10. /\ call.function = IF mode = "funds" THEN "liquidateWithFunds" ELSE "liquidateWithFlash"
       /\ call.repayAmount = plan.repayAmount /\ call.minProfit = plan.minProfit
       /\ call.amountOutMin = plan.amountOutMin /\ call.dexId = plan.option.type /\ call.router = plan.option.router
       /\ ~call.pathShort /\ call.late = late
  BY DEF encodePlan
<1>11. plan.option.type = "UniV2" /\ plan.option.router = "router" BY <1>9
<1>12. /\ market.repaid = plan.repayAmount - repaidLess /\ market.seized = plan.seizeAmount
       /\ market.premium = premium /\ ~market.revert
  OBVIOUS
<1>13. IsMarket(market) /\ market.repaid <= plan.repayAmount
  BY <1>5, <1>9, <1>12 DEF IsMarket
<1>14. world \in World /\ world.debt = 16 /\ world.coll = 0 /\ world.paid = 0 BY DEF World
<1> HIDE DEF call, market, world
<1>15. IsOrder(call) BY <1>9, <1>10 DEF IsOrder
<1>16. mayLiquidate(Deployed, "bot", call) /\ mayLiquidate(Deployed, "deployer", call) /\ Deployed.owner = "deployer"
  BY <1>9, <1>10, <1>11 DEF mayLiquidate, Deployed
<1>17. RouterKeeps(call, market) <=> ~call.late /\ market.out >= plan.amountOutMin
  BY <1>10, <1>11, <1>12, ContractsAssumption DEF RouterKeeps
<1> HIDE DEF after
<1>b. /\ decision' # None => About("end-to-end")'
      /\ decision'.plan = plan /\ decision'.call = call /\ decision'.market = market /\ decision'.world = world
      /\ decision'.after = after
  BY <1>4 DEF About
<1> USE DEF after
<1>18. CASE mode = "funds"
  <2>1. after = liquidateWithFunds(Deployed, "deployer", world, call, market) BY <1>10, <1>18
  <2>2. FundsGo(Deployed, "deployer", world, call, market) <=> ~call.late /\ market.out >= plan.amountOutMin
    BY <1>5, <1>9, <1>10, <1>12, <1>13, <1>14, <1>16, <1>17 DEF FundsGo
  <2> DEFINE done == [debt |-> world.debt - market.repaid + call.repayAmount, coll |-> 0,
                      paid |-> world.paid + (market.out - call.repayAmount)]
  <2>3. after = IF FundsGo(Deployed, "deployer", world, call, market) THEN done ELSE Revert
    BY <2>1, <1>13, <1>14, <1>15, FundsOutcome
  <2>4. done \in Ledger /\ done.debt >= world.debt
        /\ (market.out >= plan.amountOutMin => done.paid >= plan.minProfit)
    BY <1>5, <1>9, <1>10, <1>12, <1>13, <1>14 DEF Ledger, IsMarket
  <2> HIDE DEF done, after
  <2>5. after # Revert <=> ~call.late /\ market.out >= plan.amountOutMin BY <2>2, <2>3, <2>4, WorldIsLedger
  <2>6. after # Revert => after.paid >= plan.minProfit /\ after.debt >= world.debt BY <2>2, <2>3, <2>4
  <2>7. call.function = "liquidateWithFunds" BY <1>10, <1>18
  <2> DEFINE cost == IF decision'.call.function = "liquidateWithFunds" THEN 0 ELSE decision'.market.premium
  <2>8. cost = 0 BY <1>b, <2>7
  <2>9. ~(cost > 0) BY <2>8
  <2> HIDE DEF cost
  <2>10. /\ decision'.after # Revert <=>
              /\ ~decision'.call.late /\ decision'.market.out >= decision'.plan.amountOutMin
              /\ cost > 0 => decision'.market.out >= decision'.plan.repayAmount + cost + decision'.plan.minProfit
         /\ decision'.after # Revert => /\ decision'.after.paid >= decision'.plan.minProfit
                                        /\ decision'.after.debt >= decision'.world.debt
    BY <1>b, <2>5, <2>6, <2>9
  <2> QED BY <2>10, Zenon DEF EndToEndSound, cost
<1>19. CASE mode = "flash"
  <2>1. after = liquidateWithFlash(Deployed, "bot", world, call, market) BY <1>10, <1>19
  <2>2. FlashGoes(Deployed, "bot", world, call, market) <=>
          /\ ~call.late /\ market.out >= plan.amountOutMin
          /\ market.premium > 0 => market.out >= plan.repayAmount + market.premium + plan.minProfit
    BY <1>5, <1>9, <1>10, <1>12, <1>13, <1>14, <1>16, <1>17 DEF FlashGoes
  <2> DEFINE done == [debt |-> world.debt + call.repayAmount - market.repaid, coll |-> 0,
                      paid |-> world.paid + (market.out - call.repayAmount - market.premium)]
  <2>3. after = IF FlashGoes(Deployed, "bot", world, call, market) THEN done ELSE Revert
    BY <2>1, <1>13, <1>14, <1>15, FlashOutcome
  <2>4. done \in Ledger /\ done.debt >= world.debt
        /\ (market.out >= plan.repayAmount + market.premium + plan.minProfit => done.paid >= plan.minProfit)
    BY <1>5, <1>9, <1>10, <1>12, <1>13, <1>14 DEF Ledger, IsMarket
  <2>5. FlashGoes(Deployed, "bot", world, call, market) =>
          market.out >= plan.repayAmount + market.premium + plan.minProfit
    BY <1>10 DEF FlashGoes
  <2> HIDE DEF done, after
  <2>6. after # Revert <=>
          /\ ~call.late /\ market.out >= plan.amountOutMin
          /\ market.premium > 0 => market.out >= plan.repayAmount + market.premium + plan.minProfit
    BY <2>2, <2>3, <2>4, WorldIsLedger
  <2>7. after # Revert => after.paid >= plan.minProfit /\ after.debt >= world.debt BY <2>3, <2>4, <2>5
  <2>8. call.function # "liquidateWithFunds" BY <1>10, <1>19
  <2> DEFINE cost == IF decision'.call.function = "liquidateWithFunds" THEN 0 ELSE decision'.market.premium
  <2>9. cost = market.premium BY <1>b, <2>8
  <2> HIDE DEF cost
  <2>10. /\ decision'.after # Revert <=>
              /\ ~decision'.call.late /\ decision'.market.out >= decision'.plan.amountOutMin
              /\ cost > 0 => decision'.market.out >= decision'.plan.repayAmount + cost + decision'.plan.minProfit
         /\ decision'.after # Revert => /\ decision'.after.paid >= decision'.plan.minProfit
                                        /\ decision'.after.debt >= decision'.world.debt
    BY <1>b, <2>6, <2>7, <2>9
  <2> QED BY <2>10, Zenon DEF EndToEndSound, cost
<1> QED BY <1>18, <1>19
-----------------------------------------------------------------------------
(* The scorers. *)

\* A set of natural numbers has a least one, and Min is it.
LEMMA MinIsLeast ==
  ASSUME NEW S \in SUBSET Nat, S # {}
  PROVE  Min(S) \in S /\ \A y \in S : Min(S) <= y
<1> DEFINE R == OpToRel(<, Nat)
<1>1. IsWellFoundedOn(R, Nat) BY NatLessThanWellFounded
<1>2. R = {ss \in Nat \X Nat : ss[1] < ss[2]} BY DEF OpToRel
<1> HIDE DEF R
<1>3. PICK x \in S : \A y \in S : ~(<<y, x>> \in R) BY <1>1, WFMin, Zenon
<1>4. \A y \in S : x <= y
  <2> SUFFICES ASSUME NEW y \in S PROVE x <= y OBVIOUS
  <2>1. ~(<<y, x>> \in R) BY <1>3
  <2>2. x \in Nat /\ y \in Nat OBVIOUS
  <2>3. ~(y < x) BY <1>2, <2>1, <2>2
  <2> QED BY <2>2, <2>3
<1> QED BY <1>4 DEF Min

\* A verdict is either that no gate holds, or a gate that does.
LEMMA Verdict ==
  ASSUME NEW gates, NEW holding, NEW n \in Nat, DOMAIN gates = 1..n, \A i \in DOMAIN gates : gates[i] # Accepted
  PROVE  /\ FirstReason(gates, holding) = Accepted <=> \A i \in DOMAIN gates : gates[i] \notin holding
         /\ FirstReason(gates, holding) # Accepted => FirstReason(gates, holding) \in holding
<1> DEFINE at == {i \in DOMAIN gates : gates[i] \in holding}
<1>1. at \in SUBSET Nat OBVIOUS
<1>2. CASE at = {}
  <2>1. FirstReason(gates, holding) = Accepted BY <1>2 DEF FirstReason
  <2> QED BY <1>2, <2>1
<1>3. CASE at # {}
  <2>1. FirstReason(gates, holding) = gates[Min(at)] BY <1>3 DEF FirstReason
  <2> HIDE DEF at
  <2>2. Min(at) \in at BY <1>1, <1>3, MinIsLeast
  <2> USE DEF at
  <2>3. Min(at) \in DOMAIN gates /\ gates[Min(at)] \in holding BY <2>2
  <2> QED BY <2>1, <2>3
<1> QED BY <1>2, <1>3

\* The adaptive cap on the gap is never more than a hundred over the configured one, nor,
\* unless the gaps have been wild, less; the cap on the health factor is a number.
LEMMA ThresholdsBounds ==
  ASSUME NEW base, NEW gaps, base.gapCap \in Nat, base.hfMax \in Nat
  PROVE  /\ Thresholds(base, gaps).hfMax \in Int
         /\ Thresholds(base, gaps).gapCap \in Int
         /\ Thresholds(base, gaps).gapCap <= Larger(20, base.gapCap + 100)
         /\ ~(Thresholds(base, gaps).state.emaVol > Wild) => Thresholds(base, gaps).gapCap >= base.gapCap
<1> DEFINE state == averages(base, Front(gaps))
           last == Last(gaps)
           after == adaptiveUpdate(state, base, last)
           hf == base.hfMax
           cap == base.gapCap
           vol == after.state.emaVol
           wildHf == Clamp(hf - 200, Larger(8000, (hf * 9) \div 10), hf)
           calmHf == Clamp(hf + 100, hf, (hf * 21) \div 20)
           wildCap == Clamp((cap * 85 + 50) \div 100, 20, cap)
           calmCap == Clamp((cap * 115 + 50) \div 100, 20, cap + 100)
<1> HIDE DEF state, last
<1>1. /\ after.hfMax = IF vol > Wild THEN wildHf ELSE IF vol < Calm THEN calmHf ELSE hf
      /\ after.gapCap = IF vol > Wild THEN wildCap ELSE IF vol < Calm THEN calmCap ELSE cap
  BY DEF adaptiveUpdate
<1>2. hf \in Nat /\ cap \in Nat OBVIOUS
<1>3. wildHf \in Int /\ calmHf \in Int
  <2> HIDE DEF hf
  <2>1. (hf * 9) \div 10 \in Int /\ (hf * 21) \div 20 \in Int BY <1>2
  <2> QED BY <1>2, <2>1, SMT DEF Clamp, Larger
<1>4. /\ wildCap \in Int /\ wildCap <= Larger(20, cap + 100)
      /\ calmCap \in Int /\ calmCap <= Larger(20, cap + 100) /\ calmCap >= cap
  <2> HIDE DEF cap
  <2>1. (cap * 85 + 50) \div 100 \in Int /\ (cap * 115 + 50) \div 100 \in Int BY <1>2
  <2>2. (cap * 115 + 50) \div 100 >= cap BY <1>2
  <2> QED BY <1>2, <2>1, <2>2, SMT DEF Clamp, Larger
<1>5. Thresholds(base, gaps) = after BY DEF Thresholds, state, last
<1> HIDE DEF after, hf, cap, wildHf, calmHf, wildCap, calmCap
<1>6. after.hfMax \in Int /\ after.gapCap \in Int /\ after.gapCap <= Larger(20, cap + 100) BY <1>1, <1>2, <1>3, <1>4 DEF Larger
<1>7. ~(vol > Wild) => after.gapCap >= cap BY <1>1, <1>2, <1>4
<1> QED BY <1>5, <1>6, <1>7 DEF hf, cap

\* What a candidate brings to the scorer.
IsItem(item) ==
  /\ item.hfMax \in Nat /\ item.policyCap \in Nat /\ Last(item.gaps) \in Int /\ item.minNetUsd \in Int
  /\ item.healthFactor \in Int \cup {Unknown}
  /\ \E debt, coll : item.prices = [debt |-> debt, coll |-> coll]
  /\ item.remote # Failure => item.remote.hfMax \in Int /\ item.remote.gapCap \in Int
  /\ item.plan # Failure => item.plan.netUsd \in Int
  /\ \A reason \in item.missing : \E i \in DOMAIN ScoreGates : ScoreGates[i] = reason

\* What lets a candidate through, in terms of what it was judged on.
LEMMA ScoreGatesPassed ==
  ASSUME NEW item, IsItem(item), score(item).reason = Accepted
  PROVE  LET base == [hfMax |-> item.hfMax, gapCap |-> baseGapCap(item.policyCap, item.pegged)]
             adaptive == providedThresholds(base, item.gaps, item.remote)
         IN /\ item.missing = {} /\ item.protocol \in Adapters
            /\ PricesKnown(inferPrices(item.prices, item.dexRatio))
            /\ item.healthFactor # Unknown => ~(item.healthFactor >= effectiveHfMax(base, adaptive))
            /\ ~(Last(item.gaps) > effectiveGapCap(base, adaptive))
            /\ item.plan # Failure /\ item.plan.netUsd >= item.minNetUsd
<1> DEFINE prices == inferPrices(item.prices, item.dexRatio)
           base == [hfMax |-> item.hfMax, gapCap |-> baseGapCap(item.policyCap, item.pegged)]
           adaptive == providedThresholds(base, item.gaps, item.remote)
           hfCap == effectiveHfMax(base, adaptive)
           gapCap == effectiveGapCap(base, adaptive)
           plan == adapterSimulate(item.protocol, item.plan)
           worth == {r \in {"net-below-min", "pnl-mult-below-min"} :
                      IF r = "net-below-min" THEN plan.netUsd < item.minNetUsd
                      ELSE plan.gasUsd > 0 /\ plan.netUsd < item.pnlMultMin * plan.gasUsd}
           found == item.missing \cup {r \in {"protocol-adapter-missing"} : item.protocol \notin Adapters}
                    \cup {r \in {"price-missing"} : ~PricesKnown(prices)}
                    \cup {r \in {"health-factor-above-max"} :
                            item.healthFactor # Unknown /\ item.healthFactor >= hfCap}
                    \cup {r \in {"gap-exceeds-cap"} : Last(item.gaps) > gapCap}
                    \cup (IF plan = Failure THEN {"plan-null"} ELSE worth)
<1>1. score(item).reason = FirstReason(ScoreGates, found) BY DEF score
<1>2. DOMAIN ScoreGates = 1..16 BY DEF ScoreGates
<1>3. /\ ScoreGates[1] = "protocol-adapter-missing" /\ ScoreGates[10] = "price-missing"
      /\ ScoreGates[12] = "health-factor-above-max" /\ ScoreGates[13] = "gap-exceeds-cap"
      /\ ScoreGates[14] = "plan-null" /\ ScoreGates[15] = "net-below-min"
  BY DEF ScoreGates
<1> HIDE DEF hfCap, gapCap, plan, prices
<1> HIDE DEF found
<1>4. \A i \in DOMAIN ScoreGates : ScoreGates[i] \notin found BY <1>1, <1>2, ScoresAssumption, Verdict
<1>5. /\ "protocol-adapter-missing" \notin found /\ "price-missing" \notin found
      /\ "health-factor-above-max" \notin found /\ "gap-exceeds-cap" \notin found
      /\ "plan-null" \notin found /\ "net-below-min" \notin found
  BY <1>2, <1>3, <1>4
<1> USE DEF found
<1>6. item.missing = {} BY <1>4 DEF IsItem
<1>7. item.protocol \in Adapters /\ PricesKnown(prices) BY <1>5
<1>8. item.healthFactor # Unknown => ~(item.healthFactor >= hfCap) BY <1>5
<1>9. ~(Last(item.gaps) > gapCap) BY <1>5
<1>10. plan # Failure /\ "net-below-min" \notin worth BY <1>5
<1>11. ~(plan.netUsd < item.minNetUsd) BY <1>10
<1>12. plan = item.plan BY <1>10 DEF adapterSimulate, plan
<1>13. item.plan # Failure /\ item.plan.netUsd >= item.minNetUsd BY <1>10, <1>11, <1>12 DEF IsItem
<1> QED BY <1>6, <1>7, <1>8, <1>9, <1>13 DEF hfCap, gapCap, prices

\* What refuses a candidate for its gap.
LEMMA GapRefused ==
  ASSUME NEW item, "gap-exceeds-cap" \notin item.missing, score(item).reason = "gap-exceeds-cap"
  PROVE  LET base == [hfMax |-> item.hfMax, gapCap |-> baseGapCap(item.policyCap, item.pegged)]
             adaptive == providedThresholds(base, item.gaps, item.remote)
         IN Last(item.gaps) > effectiveGapCap(base, adaptive)
<1> DEFINE prices == inferPrices(item.prices, item.dexRatio)
           base == [hfMax |-> item.hfMax, gapCap |-> baseGapCap(item.policyCap, item.pegged)]
           adaptive == providedThresholds(base, item.gaps, item.remote)
           hfCap == effectiveHfMax(base, adaptive)
           gapCap == effectiveGapCap(base, adaptive)
           plan == adapterSimulate(item.protocol, item.plan)
           worth == {r \in {"net-below-min", "pnl-mult-below-min"} :
                      IF r = "net-below-min" THEN plan.netUsd < item.minNetUsd
                      ELSE plan.gasUsd > 0 /\ plan.netUsd < item.pnlMultMin * plan.gasUsd}
           found == item.missing \cup {r \in {"protocol-adapter-missing"} : item.protocol \notin Adapters}
                    \cup {r \in {"price-missing"} : ~PricesKnown(prices)}
                    \cup {r \in {"health-factor-above-max"} :
                            item.healthFactor # Unknown /\ item.healthFactor >= hfCap}
                    \cup {r \in {"gap-exceeds-cap"} : Last(item.gaps) > gapCap}
                    \cup (IF plan = Failure THEN {"plan-null"} ELSE worth)
<1>1. score(item).reason = FirstReason(ScoreGates, found) BY DEF score
<1>2. DOMAIN ScoreGates = 1..16 /\ ScoreGates[13] = "gap-exceeds-cap" BY DEF ScoreGates
<1> HIDE DEF hfCap, gapCap, plan, prices
<1> HIDE DEF found
<1>3. Accepted # "gap-exceeds-cap" BY <1>2, ScoresAssumption
<1>4. FirstReason(ScoreGates, found) # Accepted => FirstReason(ScoreGates, found) \in found
  BY <1>2, ScoresAssumption, Verdict
<1>5. "gap-exceeds-cap" \in found BY <1>1, <1>3, <1>4
<1> USE DEF found
<1>6. Last(item.gaps) > gapCap BY <1>5
<1> QED BY <1>6 DEF gapCap

\* The caps a candidate is judged by are within bounds of the configured ones, whatever the
\* risk engine answers.
LEMMA CapsBounds ==
  ASSUME NEW item, IsItem(item)
  PROVE  LET base == [hfMax |-> item.hfMax, gapCap |-> baseGapCap(item.policyCap, item.pegged)]
             adaptive == providedThresholds(base, item.gaps, item.remote)
         IN /\ base.gapCap \in Nat
            /\ effectiveHfMax(base, adaptive) \in Int /\ effectiveHfMax(base, adaptive) <= item.hfMax
            /\ effectiveGapCap(base, adaptive) \in Int
            /\ effectiveGapCap(base, adaptive) <= Larger(20, base.gapCap + (IF item.remote = Failure THEN 100 ELSE 200))
            /\ (item.remote = Failure /\ ~(Thresholds(base, item.gaps).state.emaVol > Wild)) =>
                 effectiveGapCap(base, adaptive) >= base.gapCap
<1> DEFINE cap == baseGapCap(item.policyCap, item.pegged)
           base == [hfMax |-> item.hfMax, gapCap |-> cap]
           adaptive == providedThresholds(base, item.gaps, item.remote)
           vol == Thresholds(base, item.gaps).state.emaVol
<1>1. cap \in Nat BY SMT DEF baseGapCap, Larger, PEGGED_GAP_CAP_BPS, IsItem
<1>2. base.hfMax \in Nat /\ base.gapCap \in Nat /\ base.gapCap = cap /\ base.hfMax = item.hfMax BY <1>1 DEF IsItem
<1> HIDE DEF cap, base
<1>3. CASE item.remote = Failure
  <2>1. adaptive = Thresholds(base, item.gaps) BY <1>3 DEF providedThresholds
  <2>2. adaptive.hfMax \in Int /\ adaptive.gapCap \in Int /\ adaptive.gapCap <= Larger(20, cap + 100)
        /\ (~(vol > Wild) => adaptive.gapCap >= cap)
    BY <1>2, <2>1, ThresholdsBounds
  <2> HIDE DEF adaptive, vol
  <2>3. /\ effectiveHfMax(base, adaptive) \in Int /\ effectiveHfMax(base, adaptive) <= base.hfMax
        /\ effectiveGapCap(base, adaptive) \in Int
        /\ effectiveGapCap(base, adaptive) <= Larger(20, cap + 100)
        /\ (~(vol > Wild) => effectiveGapCap(base, adaptive) >= cap)
    BY <1>1, <1>2, <2>2, SMT DEF effectiveHfMax, effectiveGapCap, Larger, Smaller
  <2>4. (IF item.remote = Failure THEN 100 ELSE 200) = 100 BY <1>3
  <2> QED BY <1>2, <2>3, <2>4 DEF base, cap, adaptive, vol
<1>4. CASE item.remote # Failure
  <2>1. adaptive = item.remote BY <1>4 DEF providedThresholds
  <2>2. adaptive.hfMax \in Int /\ adaptive.gapCap \in Int BY <1>4, <2>1 DEF IsItem
  <2> HIDE DEF adaptive, vol
  <2>3. /\ effectiveHfMax(base, adaptive) \in Int /\ effectiveHfMax(base, adaptive) <= base.hfMax
        /\ effectiveGapCap(base, adaptive) \in Int
        /\ effectiveGapCap(base, adaptive) <= Larger(20, cap + 200)
    BY <1>1, <1>2, <2>2, SMT DEF effectiveHfMax, effectiveGapCap, Larger, Smaller
  <2>4. (IF item.remote = Failure THEN 100 ELSE 200) = 200 BY <1>4
  <2> QED BY <1>2, <1>4, <2>3, <2>4 DEF base, cap, adaptive, vol
<1> QED BY <1>3, <1>4

\* A candidate accepted is below the configured health factor and its pools near enough to
\* the configured gap, whatever the gaps have been and whatever the risk engine answers; a
\* price the oracles have is kept, another one inferred; its plan pays the floor.
THEOREM AcceptedWithin ==
  ASSUME NEW item, IsItem(item), score(item).reason = Accepted
  PROVE  LET prices == score(item).prices
         IN /\ item.healthFactor # Unknown => item.healthFactor < item.hfMax
            /\ Last(item.gaps) <= Larger(20, baseGapCap(item.policyCap, item.pegged)
                                               + (IF item.remote = Failure THEN 100 ELSE 200))
            /\ item.prices.debt # Unknown => prices.debt = item.prices.debt
            /\ item.prices.coll # Unknown => prices.coll = item.prices.coll
            /\ (item.prices.coll = Unknown /\ item.prices.debt # Unknown) =>
                 item.dexRatio # Unknown /\ prices.coll = prices.debt * item.dexRatio
            /\ (item.prices.debt = Unknown /\ item.prices.coll # Unknown) =>
                 item.dexRatio # Unknown /\ prices.debt = prices.coll \div item.dexRatio
            /\ ~(item.prices.debt = Unknown /\ item.prices.coll = Unknown)
            /\ item.missing = {} /\ item.protocol \in Adapters
            /\ item.plan # Failure /\ item.plan.netUsd >= item.minNetUsd
<1> DEFINE prices == inferPrices(item.prices, item.dexRatio)
           cap == baseGapCap(item.policyCap, item.pegged)
           base == [hfMax |-> item.hfMax, gapCap |-> cap]
           adaptive == providedThresholds(base, item.gaps, item.remote)
           hfCap == effectiveHfMax(base, adaptive)
           gapCap == effectiveGapCap(base, adaptive)
           most == cap + (IF item.remote = Failure THEN 100 ELSE 200)
<1>1. /\ item.missing = {} /\ item.protocol \in Adapters /\ PricesKnown(prices)
      /\ item.healthFactor # Unknown => ~(item.healthFactor >= hfCap)
      /\ ~(Last(item.gaps) > gapCap)
      /\ item.plan # Failure /\ item.plan.netUsd >= item.minNetUsd
  BY ScoreGatesPassed
<1>2. /\ cap \in Nat /\ hfCap \in Int /\ hfCap <= item.hfMax /\ gapCap \in Int
      /\ gapCap <= Larger(20, cap + (IF item.remote = Failure THEN 100 ELSE 200))
  <2>1. base.gapCap = cap OBVIOUS
  <2> QED BY CapsBounds, <2>1
<1>3. score(item).prices = prices BY DEF score
<1> HIDE DEF hfCap, gapCap, cap
<1>4. item.healthFactor # Unknown => item.healthFactor < item.hfMax BY <1>1, <1>2 DEF IsItem
<1>5. Last(item.gaps) <= Larger(20, most)
  <2>1. most \in Int BY <1>2
  <2> HIDE DEF most
  <2>2. Larger(20, most) \in Int BY <2>1 DEF Larger
  <2>3. gapCap <= Larger(20, most) BY <1>2 DEF most
  <2> QED BY <1>1, <1>2, <2>2, <2>3 DEF IsItem
<1>6. ~(item.prices.debt = Unknown /\ item.prices.coll = Unknown)
  BY <1>1 DEF PricesKnown, inferPrices
<1>7. CASE item.prices.debt # Unknown /\ item.prices.coll # Unknown
  <2>1. prices = item.prices BY <1>7 DEF inferPrices
  <2> QED BY <1>1, <1>3, <1>4, <1>5, <1>7, <2>1 DEF cap
<1>8. CASE item.prices.debt # Unknown /\ item.prices.coll = Unknown
  <2>1. item.dexRatio # Unknown BY <1>1, <1>8 DEF PricesKnown, inferPrices
  <2>2. prices = [item.prices EXCEPT !.coll = item.prices.debt * item.dexRatio] BY <1>8, <2>1 DEF inferPrices
  <2> QED BY <1>1, <1>3, <1>4, <1>5, <1>8, <2>1, <2>2 DEF cap
<1>9. CASE item.prices.debt = Unknown /\ item.prices.coll # Unknown
  <2>1. item.dexRatio # Unknown BY <1>1, <1>9 DEF PricesKnown, inferPrices
  <2>2. prices = [item.prices EXCEPT !.debt = item.prices.coll \div item.dexRatio] BY <1>9, <2>1 DEF inferPrices
  <2> QED BY <1>1, <1>3, <1>4, <1>5, <1>9, <2>1, <2>2 DEF cap
<1> QED BY <1>6, <1>7, <1>8, <1>9

\* A candidate, scored.
LEMMA ScoreAnswered == AskScore => decision'.about = "score" /\ ScoreSound' /\ CalmIsNoStricter'
<1> SUFFICES ASSUME AskScore PROVE decision'.about = "score" /\ ScoreSound' /\ CalmIsNoStricter' OBVIOUS
<1>1. PICK protocol \in {"aavev3", "compoundv3", "unknown"}, missing \in {{}, {"market-disabled", "policy-missing"}},
           prices \in [debt : {Unknown, 2}, coll : {Unknown, 4}], dexRatio \in {Unknown, 2}, remote \in Remotes,
           gaps \in Gaps, healthFactor \in CandidateHealths, policyCap \in {10, 100}, pegged \in BOOLEAN,
           plan \in {Failure} \cup [netUsd : {1, 6}, gasUsd : {0, 2}] :
        /\ OneWrong(protocol, missing, prices, plan)
        /\ AnswerScore([protocol |-> protocol, missing |-> missing, prices |-> prices, dexRatio |-> dexRatio,
                        remote |-> remote, gaps |-> gaps, healthFactor |-> healthFactor, hfMax |-> ConfiguredHfMax,
                        policyCap |-> policyCap, pegged |-> pegged, plan |-> plan, minNetUsd |-> 2, pnlMultMin |-> 2])
  BY Zenon DEF AskScore
<1> DEFINE item == [protocol |-> protocol, missing |-> missing, prices |-> prices, dexRatio |-> dexRatio,
                    remote |-> remote, gaps |-> gaps, healthFactor |-> healthFactor, hfMax |-> ConfiguredHfMax,
                    policyCap |-> policyCap, pegged |-> pegged, plan |-> plan, minNetUsd |-> 2, pnlMultMin |-> 2]
<1>2. decision' = [about |-> "score", item |-> item, score |-> score(item)] BY <1>1 DEF AnswerScore, Decide
<1>3. IsItem(item)
  <2>1. Last(gaps) \in Int
    <3>1. CASE \E g \in {0, 110, 190, 400} : gaps = <<g>> BY <3>1 DEF Last
    <3>2. CASE \E f \in {0, 9000}, g \in {0, 60, 110, 190, 9000} : gaps = <<f, g>> BY <3>2 DEF Last
    <3> QED BY <3>1, <3>2 DEF Gaps
  <2>2. \A reason \in missing : \E i \in DOMAIN ScoreGates : ScoreGates[i] = reason
    <3>1. DOMAIN ScoreGates = 1..16 /\ ScoreGates[3] = "policy-missing" /\ ScoreGates[6] = "market-disabled" BY DEF ScoreGates
    <3> QED BY <3>1
  <2>3. remote # Failure => remote.hfMax \in Int /\ remote.gapCap \in Int BY DEF Remotes
  <2>4. prices = [debt |-> prices.debt, coll |-> prices.coll] OBVIOUS
  <2>5. plan # Failure => plan.netUsd \in Int OBVIOUS
  <2> QED BY <2>1, <2>2, <2>3, <2>4, <2>5 DEF IsItem, ConfiguredHfMax, CandidateHealths
<1>4. /\ item.hfMax = ConfiguredHfMax /\ item.missing \in {{}, {"market-disabled", "policy-missing"}}
      /\ item.prices.debt \in {Unknown, 2} /\ item.prices.coll \in {Unknown, 4} /\ item.dexRatio \in {Unknown, 2}
  OBVIOUS
<1> HIDE DEF item
<1>5. decision'.about = "score" BY <1>2
<1>6. ScoreSound'
  <2> DEFINE verdict == score(item)
             prices1 == verdict.prices
             most == baseGapCap(item.policyCap, item.pegged) + (IF item.remote = Failure THEN 100 ELSE 200)
  <2>1. CASE verdict.reason = Accepted
    <3>1. /\ item.healthFactor # Unknown => item.healthFactor < item.hfMax
          /\ Last(item.gaps) <= Larger(20, most)
          /\ item.prices.debt # Unknown => prices1.debt = item.prices.debt
          /\ item.prices.coll # Unknown => prices1.coll = item.prices.coll
          /\ (item.prices.coll = Unknown /\ item.prices.debt # Unknown) =>
               item.dexRatio # Unknown /\ prices1.coll = prices1.debt * item.dexRatio
          /\ (item.prices.debt = Unknown /\ item.prices.coll # Unknown) =>
               item.dexRatio # Unknown /\ prices1.debt = prices1.coll \div item.dexRatio
          /\ ~(item.prices.debt = Unknown /\ item.prices.coll = Unknown)
          /\ item.missing = {} /\ item.protocol \in Adapters
          /\ item.plan # Failure /\ item.plan.netUsd >= item.minNetUsd
      BY <1>3, <2>1, AcceptedWithin
    <3>2. Unknown \in {item.prices.debt, item.prices.coll} => prices1.coll = prices1.debt * item.dexRatio
      <4>1. CASE item.prices.coll = Unknown BY <3>1, <4>1
      <4>2. CASE item.prices.debt = Unknown /\ item.prices.coll # Unknown
        <5>1. prices1.coll = 4 /\ item.dexRatio = 2 /\ prices1.debt = 4 \div 2 BY <1>4, <3>1, <4>2
        <5> QED BY <5>1
      <4> QED BY <4>1, <4>2
    <3> HIDE DEF verdict, most
    <3>3. decision'.item = item /\ decision'.score = verdict BY <1>2 DEF verdict
    <3>4. LET item1 == decision'.item
          IN /\ item1.healthFactor # Unknown => item1.healthFactor < item1.hfMax
             /\ Last(item1.gaps) <= Larger(20, baseGapCap(item1.policyCap, item1.pegged)
                                                 + (IF item1.remote = Failure THEN 100 ELSE 200))
             /\ item1.prices.debt # Unknown => decision'.score.prices.debt = item1.prices.debt
             /\ item1.prices.coll # Unknown => decision'.score.prices.coll = item1.prices.coll
             /\ Unknown \in {item1.prices.debt, item1.prices.coll} =>
                  decision'.score.prices.coll = decision'.score.prices.debt * item1.dexRatio
             /\ item1.missing = {} /\ item1.protocol \in Adapters
             /\ item1.plan # Failure /\ item1.plan.netUsd >= item1.minNetUsd
      BY <3>1, <3>2, <3>3, Zenon DEF most
    <3> QED BY <3>4, Zenon DEF ScoreSound
  <2>2. CASE verdict.reason # Accepted BY <1>2, <2>2 DEF ScoreSound
  <2> QED BY <2>1, <2>2
<1>7. CalmIsNoStricter'
  <2> DEFINE cap == baseGapCap(item.policyCap, item.pegged)
             base == [hfMax |-> item.hfMax, gapCap |-> cap]
             adaptive == providedThresholds(base, item.gaps, item.remote)
             gapCap == effectiveGapCap(base, adaptive)
             vol == Thresholds(base, item.gaps).state.emaVol
  <2>1. CASE item.remote = Failure /\ score(item).reason = "gap-exceeds-cap"
    <3>1. Last(item.gaps) > gapCap BY <1>4, <2>1, GapRefused
    <3>2. cap \in Nat /\ gapCap \in Int /\ (~(vol > Wild) => gapCap >= cap)
      <4>1. base.gapCap = cap OBVIOUS
      <4> QED BY <1>3, <2>1, <4>1, CapsBounds
    <3>3. Last(item.gaps) \in Int BY <1>3 DEF IsItem
    <3> HIDE DEF gapCap, cap, vol
    <3>4. Last(item.gaps) > cap \/ vol > Wild BY <3>1, <3>2, <3>3
    <3>5. decision'.item = item BY <1>2
    <3>6. base = [hfMax |-> 9800, gapCap |-> cap] BY <1>4 DEF ConfiguredHfMax
    <3>7. Last(decision'.item.gaps) > cap \/ Thresholds([hfMax |-> 9800, gapCap |-> cap], decision'.item.gaps).state.emaVol > Wild
      BY <3>4, <3>5, <3>6 DEF vol
    <3>8. cap = baseGapCap(decision'.item.policyCap, decision'.item.pegged) BY <3>5 DEF cap
    <3> QED BY <3>7, <3>8 DEF CalmIsNoStricter
  <2>2. CASE ~(item.remote = Failure /\ score(item).reason = "gap-exceeds-cap") BY <1>2, <2>2 DEF CalmIsNoStricter
  <2> QED BY <2>1, <2>2
<1> QED BY <1>5, <1>6, <1>7

\* What an offer brings to its scorer.
IsOffered(c) ==
  /\ c.minNetUsd \in Int /\ c.now \in Int /\ c.offer.expiry \in Int
  /\ c.healthFactor \in Int \cup {Unknown}
  /\ \A reason \in c.missing : \E i \in DOMAIN PreliqGates : PreliqGates[i] = reason

\* What lets an offer through, in terms of what it was judged on.
LEMMA PreliqGatesPassed ==
  ASSUME NEW c, NEW plan, IsOffered(c), scorePreLiq(c, plan).reason = Accepted
  PROVE  /\ c.missing = {} /\ c.offer.expiry > c.now
         /\ c.healthFactor # Unknown /\ c.healthFactor > 10000 /\ c.healthFactor < 10500
         /\ ~(c.offer.incentiveBps < c.minIncentiveBps)
         /\ PricesKnown(preliqPrices(c)) /\ scorePreLiq(c, plan).prices = preliqPrices(c)
         /\ scorePreLiq(c, plan).plan = plan /\ plan # Failure
         /\ ~(plan.netUsd < c.minNetUsd)
         /\ ~(divergenceBps(c.oracleRatio, preliqPrices(c)) > 200)
<1> DEFINE prices == preliqPrices(c)
           divergence == divergenceBps(c.oracleRatio, prices)
           early == c.missing
                    \cup {r \in {"health-factor-too-low"} : preliqHealth(c) <= 10000}
                    \cup {r \in {"health-factor-too-high"} : preliqHealth(c) >= 10500}
                    \cup {r \in {"offer-expired"} : c.offer.expiry <= c.now}
                    \cup {r \in {"incentive-too-low"} : c.offer.incentiveBps < c.minIncentiveBps}
                    \cup {r \in {"price-missing"} : ~PricesKnown(prices)}
           judged == IF early # {} THEN Failure ELSE plan
           late == IF judged = Failure THEN {"plan-null"}
                   ELSE {r \in {"profit-too-low"} : judged.netUsd < c.minNetUsd}
                        \cup {r \in {"gas-cost-too-high"} : judged.gasUsd > c.gasCapUsd}
                        \cup {r \in {"liquidity-score-too-low"} : c.liquidityScore < 50}
                        \cup {r \in {"oracle-divergence-too-high"} : divergence > 200}
           holding == IF early # {} THEN early ELSE late
<1>1. /\ scorePreLiq(c, plan).reason = FirstReason(PreliqGates, holding)
      /\ scorePreLiq(c, plan).prices = prices /\ scorePreLiq(c, plan).plan = judged
  BY DEF scorePreLiq
<1>2. DOMAIN PreliqGates = 1..19 BY DEF PreliqGates
<1>3. /\ PreliqGates[3] = "health-factor-too-low" /\ PreliqGates[4] = "health-factor-too-high"
      /\ PreliqGates[5] = "offer-expired" /\ PreliqGates[6] = "incentive-too-low"
      /\ PreliqGates[13] = "price-missing" /\ PreliqGates[15] = "plan-null" /\ PreliqGates[16] = "profit-too-low"
      /\ PreliqGates[19] = "oracle-divergence-too-high"
  BY DEF PreliqGates
<1> HIDE DEF divergence, prices, holding
<1>4. \A i \in DOMAIN PreliqGates : PreliqGates[i] \notin holding
  <2>1. FirstReason(PreliqGates, holding) = Accepted <=> \A i \in DOMAIN PreliqGates : PreliqGates[i] \notin holding
    <3>1. 19 \in Nat /\ \A i \in DOMAIN PreliqGates : PreliqGates[i] # Accepted BY ScoresAssumption
    <3> QED BY <1>2, <3>1, Verdict
  <2> QED BY <1>1, <2>1
<1>5. early = {}
  <2> SUFFICES ASSUME early # {} PROVE FALSE OBVIOUS
  <2>1. holding = early BY DEF holding
  <2>2. \A r \in early : \E i \in DOMAIN PreliqGates : PreliqGates[i] = r BY <1>2, <1>3 DEF IsOffered
  <2> HIDE DEF early
  <2> QED BY <1>4, <2>1, <2>2
<1>6. /\ c.missing = {} /\ ~(preliqHealth(c) <= 10000) /\ ~(preliqHealth(c) >= 10500)
      /\ ~(c.offer.expiry <= c.now) /\ ~(c.offer.incentiveBps < c.minIncentiveBps) /\ PricesKnown(prices)
  BY <1>5
<1>7. holding = late /\ judged = plan BY <1>5 DEF holding
<1> HIDE DEF early, judged
<1>8. "plan-null" \notin late /\ "profit-too-low" \notin late /\ "oracle-divergence-too-high" \notin late
  <2> HIDE DEF late
  <2> QED BY <1>2, <1>3, <1>4, <1>7
<1>9. judged # Failure /\ ~(judged.netUsd < c.minNetUsd) /\ ~(divergence > 200) BY <1>8
<1>10. c.healthFactor # Unknown /\ c.healthFactor > 10000 /\ c.healthFactor < 10500
  BY <1>6 DEF preliqHealth, IsOffered
<1>11. c.offer.expiry > c.now BY <1>6 DEF IsOffered
<1> QED BY <1>1, <1>6, <1>7, <1>9, <1>10, <1>11 DEF divergence, prices

\* Where the oracle was read, a divergence of at most two hundred basis points, rounded.
LEMMA DivergenceBounds ==
  ASSUME NEW ratio \in Nat, NEW prices, prices.coll \in Nat, prices.debt \in Nat, ratio > 0, prices.debt > 0,
         ratio # Unknown, ~(divergenceBps(ratio, prices) > 200)
  PROVE  Distance(prices.coll, ratio * prices.debt) * 10000 <= 201 * ratio * prices.debt
<1> DEFINE whole == ratio * prices.debt
           off == Distance(prices.coll, whole)
           figure == (2 * 10000 * off + whole) \div (2 * whole)
<1>1. whole \in Nat /\ whole > 0
  <2>1. \A a, b \in Nat : a > 0 /\ b > 0 => a * b \in Nat /\ a * b > 0
    <3> SUFFICES ASSUME NEW a \in Nat, NEW b \in Nat, a > 0, b > 0 PROVE a * b \in Nat /\ a * b > 0 OBVIOUS
    <3>1. PICK d \in Nat : a = d + 1 BY SMT
    <3>2. d * b \in Nat OBVIOUS
    <3>3. a * b = d * b + b BY <3>1
    <3> QED BY <3>2, <3>3
  <2> QED BY <2>1
<1> HIDE DEF whole
<1>2. off \in Nat BY <1>1 DEF Distance
<1>3. figure = divergenceBps(ratio, prices)
  <2>1. 2 * ratio * prices.debt = 2 * whole BY DEF whole
  <2> QED BY <2>1 DEF divergenceBps, whole
<1> HIDE DEF off
<1>4. 2 * 10000 * off + whole \in Nat /\ 2 * whole \in Nat /\ 2 * whole > 0 BY <1>1, <1>2
<1>5. figure \in Nat /\ 2 * 10000 * off + whole < (figure + 1) * (2 * whole)
  <2> DEFINE num == 2 * 10000 * off + whole
             den == 2 * whole
  <2>1. num \in Nat /\ den \in Nat /\ den > 0 BY <1>4
  <2> HIDE DEF num, den
  <2>2. num \div den \in Nat /\ num < (num \div den + 1) * den BY <2>1, Quotient
  <2> QED BY <2>2 DEF num, den
<1>6. figure <= 200 BY <1>3, <1>5
<1> HIDE DEF figure
<1>7. (figure + 1) * (2 * whole) <= 201 * (2 * whole)
  <2>1. figure + 1 \in Int /\ 201 \in Int /\ figure + 1 <= 201 BY <1>5, <1>6
  <2> QED BY <1>4, <2>1, Monotone
<1>8. off * 10000 <= 201 * whole BY <1>1, <1>2, <1>5, <1>7
<1>9. 201 * ratio * prices.debt = 201 * whole BY DEF whole
<1> QED BY <1>8, <1>9 DEF off, whole

\* An offer, scored.
LEMMA PreliqAnswered == AskPreliqScore => decision'.about = "preliq-score" /\ PreliqScoreSound'
<1> SUFFICES ASSUME AskPreliqScore PROVE decision'.about = "preliq-score" /\ PreliqScoreSound' OBVIOUS
<1>a. PICK healthFactor \in BorrowerHealths, expiry \in {1, 2}, incentiveBps \in {100, 150, 600},
           closeFactorBpsIn \in OfferedShares, minIncentiveBps \in {100, 150}, missing \in {{}, {"market-disabled"}},
           prices \in [debt : {Unknown, 1}, coll : {Unknown, 2, 3}], oracleRatio \in {Unknown, 2},
           dexRatio \in {Unknown, 2}, protocol \in {"morphoblue", "aavev3"}, out \in {Failure, 101, 108},
           liquidityScore \in {10, 90} :
        /\ (IF Open(healthFactor) THEN 0 ELSE 1) + (IF missing = {} THEN 0 ELSE 1)
             + (IF expiry = 2 THEN 0 ELSE 1) + (IF out = Failure THEN 1 ELSE 0) <= 1
        /\ AnswerPreliq(
             [missing |-> missing, healthFactor |-> healthFactor, now |-> 1,
              offer |-> [expiry |-> expiry, incentiveBps |-> incentiveBps, closeFactorBps |-> closeFactorBpsIn],
              minIncentiveBps |-> minIncentiveBps, prices |-> prices, oracleRatio |-> oracleRatio,
              dexRatio |-> dexRatio, protocol |-> protocol, debt |-> 100, collateral |-> 200,
              borrowShares |-> 50, gasCapUsd |-> 4, minNetUsd |-> 2, liquidityScore |-> liquidityScore], out)
  BY Zenon DEF AskPreliqScore
<1> DEFINE offer == [expiry |-> expiry, incentiveBps |-> incentiveBps, closeFactorBps |-> closeFactorBpsIn]
           c == [missing |-> missing, healthFactor |-> healthFactor, now |-> 1, offer |-> offer,
                 minIncentiveBps |-> minIncentiveBps, prices |-> prices, oracleRatio |-> oracleRatio,
                 dexRatio |-> dexRatio, protocol |-> protocol, debt |-> 100, collateral |-> 200,
                 borrowShares |-> 50, gasCapUsd |-> 4, minNetUsd |-> 2, liquidityScore |-> liquidityScore]
           verdict == scorePreLiq(c, simulated(c, out))
<1>b. decision' = [about |-> "preliq-score", candidate |-> c, score |-> verdict] BY <1>a DEF AnswerPreliq, Decide
<1>c. decision'.about = "preliq-score" /\ decision'.candidate = c /\ decision'.score = verdict BY <1>b
<1>1. /\ c.missing \in {{}, {"market-disabled"}} /\ c.minNetUsd = 2 /\ c.now = 1 /\ c.offer.expiry \in {1, 2}
      /\ c.healthFactor \in Int \cup {Unknown} /\ c.minIncentiveBps \in {100, 150}
      /\ c.offer.incentiveBps \in {100, 150, 600} /\ c.offer.closeFactorBps \in {5000, 10000, 12000}
      /\ c.oracleRatio \in {Unknown, 2} /\ c.dexRatio \in {Unknown, 2}
      /\ c.prices \in [debt : {Unknown, 1}, coll : {Unknown, 2, 3}]
      /\ c.debt = 100 /\ c.collateral = 200 /\ c.borrowShares = 50 /\ c.gasCapUsd = 4
      /\ c.protocol \in {"morphoblue", "aavev3"}
  BY DEF BorrowerHealths, OfferedShares
<1>d. c.offer # NoOffer BY PlanAssumption DEF OfferedShares
<1> HIDE DEF c, offer
<1>2. CASE verdict.reason # Accepted
  <2> HIDE DEF verdict
  <2> QED BY <1>2, <1>c, SMT DEF PreliqScoreSound, About
<1>3. CASE verdict.reason = Accepted
  <2>1. IsOffered(c)
    <3>1. DOMAIN PreliqGates = 1..19 /\ PreliqGates[9] = "market-disabled" BY DEF PreliqGates
    <3>2. \A reason \in c.missing : \E i \in DOMAIN PreliqGates : PreliqGates[i] = reason BY <1>1, <3>1
    <3> QED BY <1>1, <3>2 DEF IsOffered
  <2> DEFINE made == simulated(c, out)
             known == preliqPrices(c)
             input == preliqSimInput(c)
  <2>2. /\ c.missing = {} /\ c.offer.expiry > c.now
        /\ c.healthFactor # Unknown /\ c.healthFactor > 10000 /\ c.healthFactor < 10500
        /\ ~(c.offer.incentiveBps < c.minIncentiveBps)
        /\ PricesKnown(known) /\ verdict.prices = known /\ verdict.plan = made /\ made # Failure
        /\ ~(made.netUsd < c.minNetUsd)
        /\ ~(divergenceBps(c.oracleRatio, known) > 200)
    BY <1>3, <2>1, PreliqGatesPassed
  <2>3. known.debt = 1 /\ known.coll \in {2, 3}
    <3> DEFINE once == inferPrices(c.prices, c.oracleRatio)
    <3>1. once \in [debt : {Unknown, 1}, coll : {Unknown, 2, 3}]
      BY <1>1, ScoresAssumption DEF inferPrices
    <3>2. known = inferPrices(once, c.dexRatio) BY DEF preliqPrices
    <3> HIDE DEF once
    <3>3. known \in [debt : {Unknown, 1}, coll : {Unknown, 2, 3}]
      BY <1>1, <3>1, <3>2, ScoresAssumption DEF inferPrices
    <3> QED BY <2>2, <3>3 DEF PricesKnown
  <2> HIDE DEF known, verdict
  <2>4. /\ input.debt = 100 /\ input.collateral = 200 /\ input.debtPrice = 1 /\ input.collPrice \in {2, 3}
        /\ input.closeFactorBps = 5000 /\ input.bonusBps = 800 /\ input.maxRepayUsd = 0 /\ input.floorBps = 30
        /\ input.borrowShares = 50 /\ input.gasCapUsd = 4 /\ input.nativePriceUsd = 1
        /\ input.preliq = c.offer /\ input.protocol = c.protocol /\ input.now = c.now
    BY <1>1, <2>3 DEF preliqSimInput, nativePriceUsd, known
  <2> HIDE DEF input
  <2>5. IsInput(input) BY <1>1, <2>4 DEF IsInput
  <2> DEFINE route == [type |-> "UniV2", router |-> "v2"]
             given == repayAmount(input)
             paid == IF out = Failure THEN Failure ELSE (out * given) \div 100
             answers == [o \in {route} |-> <<paid, paid>>]
             quotes == quoteRoutes(<<route>>, answers, {}, seizeAmount(input), 0)
             gasOf == [o \in {route} |-> [kind |-> "gas", eth |-> 1]]
             plan == simulate(input, quotes, gasOf)
  <2>6. made = IF plan.outcome = "plan" THEN plan ELSE Failure BY DEF simulated, input
  <2>7. plan.outcome = "plan" /\ made = plan BY <2>2, <2>6
  <2>8. paid \in Nat \cup {Failure}
    <3>1. given \in Nat BY <2>4, <2>5, RepayBounds
    <3> HIDE DEF given
    <3>2. CASE out = Failure BY <3>2
    <3>3. CASE out # Failure
      <4>1. out \in Nat BY <3>3
      <4>2. out * given \in Nat BY <3>1, <4>1, SMT
      <4>3. (out * given) \div 100 \in Nat BY <4>2
      <4> QED BY <3>3, <4>3
    <3> QED BY <3>2, <3>3
  <2> HIDE DEF paid
  <2>9. IsQuotes(quotes, gasOf)
    <3>1. DOMAIN <<route>> \subseteq 1..1 /\ \A i \in DOMAIN <<route>> : <<route>>[i] = route OBVIOUS
    <3>2. quoted(route, answers[route]) \in Nat \cup {Failure}
      <4>1. answers[route] = <<paid, paid>> OBVIOUS
      <4> HIDE DEF answers
      <4>2. route.type = "UniV2" OBVIOUS
      <4> HIDE DEF route
      <4> QED BY <2>8, <4>1, <4>2 DEF quoted
    <3> DEFINE options == <<route>>
    <3>3. gasOf[route].kind = "gas" /\ gasOf[route].eth = 1 OBVIOUS
    <3> HIDE DEF answers, route, gasOf
    <3>4. \E n \in Nat : DOMAIN options \subseteq 1..n BY <3>1
    <3>5. \A i \in DOMAIN options : quoted(options[i], answers[options[i]]) \in Nat \cup {Failure} BY <3>1, <3>2
    <3>6. \A i \in DOMAIN options : options[i] = route BY <3>1
    <3>7. quotes = quoteRoutes(options, answers, {}, seizeAmount(input), 0) /\ 0 \in Int OBVIOUS
    <3> HIDE DEF options, quotes
    <3>8. /\ \E n \in Nat : DOMAIN quotes \subseteq 1..n
          /\ \A i \in DOMAIN quotes : i \in DOMAIN options /\ quotes[i].option = options[i] /\ quotes[i].amountOutMin \in Int
      BY <3>4, <3>5, <3>7, QuotesMade
    <3> QED BY <3>3, <3>6, <3>8 DEF IsQuotes
  <2> HIDE DEF quotes, gasOf
  <2>10. /\ plan.repayAmount \in Nat /\ plan.netUsd \in Nat
         /\ plan.protocol = "morphoblue" => plan.repayShares > 0
         /\ plan.preliq = usePreliq(input) /\ plan.protocol = input.protocol
         /\ KeepsTerms(plan, input)
    BY <2>5, <2>7, <2>9, PlanKept, SMTT(30)
  <2> HIDE DEF plan, made
  <2>11. ASSUME c.protocol = "morphoblue", c.minIncentiveBps >= 150, c.offer.closeFactorBps <= 10000
         PROVE  plan.preliq /\ plan.repayAmount * 10000 <= c.debt * c.offer.closeFactorBps
    <3>1. c.offer.closeFactorBps > 0 /\ c.offer.closeFactorBps <= 10000 /\ c.offer.incentiveBps >= 150
      BY <1>1, <2>2, <2>11
    <3>2. usePreliq(input)
      BY <1>d, <2>2, <2>4, <2>11, <3>1, SMT DEF usePreliq
    <3>3. plan.preliq BY <2>10, <3>2
    <3>4. plan.repayAmount * 10000 <=
            input.debt * (IF plan.preliq THEN input.preliq.closeFactorBps ELSE input.closeFactorBps)
      BY <2>10 DEF KeepsTerms
    <3>5. (IF plan.preliq THEN input.preliq.closeFactorBps ELSE input.closeFactorBps) = c.offer.closeFactorBps
      BY <2>4, <3>3
    <3>6. input.debt = c.debt BY <1>1, <2>4
    <3> QED BY <3>3, <3>4, <3>5, <3>6
  <2>12. c.oracleRatio # Unknown =>
           Distance(known.coll, c.oracleRatio * known.debt) * 10000 <= 201 * c.oracleRatio * known.debt
    BY <1>1, <2>2, <2>3, DivergenceBounds
  <2>13. made.netUsd >= c.minNetUsd
    BY <1>1, <2>2, <2>7, <2>10
  <2>14. decision'.score.prices = known /\ decision'.score.plan = plan /\ decision'.candidate = c
    <3>1. verdict.prices = known /\ verdict.plan = plan BY <2>2, <2>7
    <3> QED BY <1>c, <3>1
  <2> HIDE DEF known
  <2> QED BY <1>c, <2>2, <2>7, <2>10, <2>11, <2>12, <2>13, <2>14 DEF PreliqScoreSound, About
<1> QED BY <1>2, <1>3

\* What a route says of its gas is a price, if it is one, in whole units.
LEMMA GasSaid ==
  ASSUME NEW says \in RouteAnswers, NEW units \in Nat
  PROVE  gasSaid(says, units).kind = "gas" => gasSaid(says, units).eth \in Nat
<1> DEFINE call == [says |-> says.says, units |-> units]
           fees == [maxFeePerGas |-> 0, gasPrice |-> 2, asked |-> 1]
<1>1. says.says \in {HealthFactorError, "revert", "no-answer", "units"} BY DEF RouteAnswers
<1>2. call.says = says.says /\ call.units = units OBVIOUS
<1>3. weiPerGas(fees) = 2 BY DEF weiPerGas
<1>4. estimateL1Fee("op-stack", Failure) = 0 BY DEF estimateL1Fee
<1>5. gasSaid(says, units) = estimateGas(call, fees, "op-stack", Failure) BY DEF gasSaid
<1> HIDE DEF call, fees
<1>6. CASE says.says = "units"
  <2>1. estimateGas(call, fees, "op-stack", Failure) = [kind |-> "gas", eth |-> units * 2 + 0]
    BY <1>2, <1>3, <1>4, <1>6 DEF estimateGas, HealthFactorError
  <2> QED BY <1>5, <2>1
<1>7. CASE says.says # "units"
  <2>1. estimateGas(call, fees, "op-stack", Failure) \in {[kind |-> "null"], [kind |-> "rejected"], [kind |-> "thrown"]}
    BY <1>1, <1>2, <1>7 DEF estimateGas, HealthFactorError
  <2> QED BY <1>5, <2>1
<1> QED BY <1>6, <1>7

\* A candidate, planned.
LEMMA PlanAnswered == AskPlan => decision'.about = "plan" /\ PlanSound'
<1> SUFFICES ASSUME AskPlan PROVE decision'.about = "plan" /\ PlanSound' OBVIOUS
<1>a. PICK debt \in {3, 100}, collPrice \in {1, 3}, collateral \in {20, 200}, closeFactorBpsIn \in StandardShares,
           maxRepayUsd \in {0, 60}, floorBps \in {0, 30}, slippageBps \in {0, 500},
           protocol \in {"aavev3", "morphoblue"}, offer \in Offers, one \in RouteAnswers, two \in RouteAnswers :
        AnswerPlan([debt |-> debt, collateral |-> collateral, debtPrice |-> 1, collPrice |-> collPrice,
                    closeFactorBps |-> closeFactorBpsIn, bonusBps |-> 800, maxRepayUsd |-> maxRepayUsd,
                    floorBps |-> floorBps, protocol |-> protocol, preliq |-> offer, now |-> 1,
                    borrowShares |-> 7, gasCapUsd |-> 4, nativePriceUsd |-> 0], slippageBps, one, two)
  BY Zenon DEF AskPlan
<1> DEFINE input == [debt |-> debt, collateral |-> collateral, debtPrice |-> 1, collPrice |-> collPrice,
                     closeFactorBps |-> closeFactorBpsIn, bonusBps |-> 800, maxRepayUsd |-> maxRepayUsd,
                     floorBps |-> floorBps, protocol |-> protocol, preliq |-> offer, now |-> 1,
                     borrowShares |-> 7, gasCapUsd |-> 4, nativePriceUsd |-> 0]
           first == [type |-> "UniV3", router |-> "v3", fee |-> 500]
           second == [type |-> "UniV2", router |-> "v2"]
           out(option) == pays(IF option = first THEN one ELSE two, repayAmount(input))
           answers == [o \in {first, second} |-> <<out(o), out(o)>>]
           quotes == quoteRoutes(<<first, second>>, answers, {}, seizeAmount(input), slippageBps)
           gasOf == [o \in {first, second} |-> IF o = first THEN gasSaid(one, 1) ELSE gasSaid(two, 2)]
           plan == simulate(input, quotes, gasOf)
<1>1. /\ IsInput(input) /\ input.debtPrice = 1
  <2>1. offer # NoOffer => offer.closeFactorBps \in Nat /\ offer.incentiveBps \in Nat
    BY DEF Offers
  <2> QED BY <2>1, SMT DEF IsInput, StandardShares
<1> HIDE DEF input
<1>2. decision' = [about |-> "plan", input |-> input, quotes |-> quotes, slippageBps |-> slippageBps, plan |-> plan]
  <2>1. AnswerPlan(input, slippageBps, one, two) BY <1>a DEF input
  <2> QED BY <2>1, Zenon DEF AnswerPlan, Decide
<1>3. \A o \in {first, second} : out(o) \in Nat \cup {Failure}
  <2>1. repayAmount(input) \in Nat BY <1>1, RepayBounds
  <2>2. ASSUME NEW says \in RouteAnswers PROVE pays(says, repayAmount(input)) \in Nat \cup {Failure}
    <3>1. says.out = Failure \/ says.out \in Nat BY DEF RouteAnswers
    <3>2. CASE says.out = Failure BY <3>2 DEF pays
    <3>3. CASE says.out # Failure
      <4>1. says.out * repayAmount(input) \in Nat BY <2>1, <3>1, <3>3, SMT
      <4>2. (says.out * repayAmount(input)) \div 100 \in Nat BY <4>1
      <4> QED BY <3>3, <4>2 DEF pays
    <3> QED BY <3>2, <3>3
  <2> HIDE DEF first, second
  <2> QED BY <2>2
<1> HIDE DEF out
<1>4. DOMAIN <<first, second>> = 1..2 /\ \A i \in 1..2 : <<first, second>>[i] \in {first, second}
  OBVIOUS
<1>5. \A o \in {first, second} : quoted(o, answers[o]) \in Nat \cup {Failure}
  <2>1. \A o \in {first, second} : answers[o] = <<out(o), out(o)>> OBVIOUS
  <2> HIDE DEF answers, first, second
  <2>2. \A o \in {first, second} : quoted(o, answers[o]) = out(o)
    BY <2>1 DEF quoted, quoteUniV3
  <2> QED BY <1>3, <2>2
<1>6. \A o \in {first, second} : gasOf[o].kind = "gas" => gasOf[o].eth \in Nat
  <2>1. gasSaid(one, 1).kind = "gas" => gasSaid(one, 1).eth \in Nat BY GasSaid
  <2>2. gasSaid(two, 2).kind = "gas" => gasSaid(two, 2).eth \in Nat BY GasSaid
  <2>3. \A o \in {first, second} : gasOf[o] = gasSaid(one, 1) \/ gasOf[o] = gasSaid(two, 2) OBVIOUS
  <2> HIDE DEF gasOf
  <2> QED BY <2>1, <2>2, <2>3
<1>7. slippageBps \in Int OBVIOUS
<1> DEFINE options == <<first, second>>
<1>8. quotes = quoteRoutes(options, answers, {}, seizeAmount(input), slippageBps) OBVIOUS
<1>9. DOMAIN options = 1..2 /\ \A i \in DOMAIN options : options[i] \in {first, second} BY <1>4
<1> HIDE DEF quotes, answers, gasOf, first, second, options
<1>10. /\ \E n \in Nat : DOMAIN quotes \subseteq 1..n
       /\ \A i \in DOMAIN quotes :
            /\ quotes[i].option \in {first, second} /\ quotes[i].quotedOut \in Nat /\ quotes[i].amountOutMin \in Int
            /\ quotes[i].amountOutMin * 10000 <= quotes[i].quotedOut * (10000 - slippageBps)
  <2>1. \E n \in Nat : DOMAIN options \subseteq 1..n BY <1>9
  <2>2. \A i \in DOMAIN options : quoted(options[i], answers[options[i]]) \in Nat \cup {Failure} BY <1>5, <1>9
  <2>3. /\ \E n \in Nat : DOMAIN quotes \subseteq 1..n
        /\ \A i \in DOMAIN quotes :
             /\ i \in DOMAIN options /\ quotes[i].option = options[i]
             /\ quotes[i].quotedOut \in Nat /\ quotes[i].amountOutMin \in Int
             /\ quotes[i].amountOutMin * 10000 <= quotes[i].quotedOut * (10000 - slippageBps)
    BY <1>7, <1>8, <2>1, <2>2, QuotesMade
  <2> QED BY <1>9, <2>3
<1>11. IsQuotes(quotes, gasOf) BY <1>6, <1>10 DEF IsQuotes
<1>12. decision'.about = "plan" BY <1>2
<1>13. CASE plan.outcome # "plan"
  <2> HIDE DEF plan
  <2> QED BY <1>2, <1>12, <1>13 DEF PlanSound
<1>14. CASE plan.outcome = "plan"
  <2>1. /\ plan.repayAmount \in Nat /\ plan.repayAmount > 0 /\ plan.repayAmount <= input.debt
        /\ plan.seizeAmount \in Nat /\ plan.seizeAmount > 0 /\ plan.seizeAmount <= input.collateral
        /\ plan.minProfit \in Nat /\ plan.minProfit > 0
        /\ plan.amountOutMin - plan.repayAmount >= plan.minProfit
        /\ plan.netUsd \in Nat /\ plan.gasUsd \in Nat /\ plan.gasUsd <= input.gasCapUsd
        /\ plan.protocol = "morphoblue" =>
             plan.repayShares \in Nat /\ plan.repayShares > 0 /\ plan.repayShares <= input.borrowShares
        /\ \E i \in DOMAIN quotes : quotes[i].option = plan.option /\ quotes[i].amountOutMin = plan.amountOutMin
        /\ KeepsTerms(plan, input)
    BY <1>1, <1>11, <1>14, PlanKept, SMTT(30)
  <2> HIDE DEF plan
  <2>2. \E i \in DOMAIN quotes :
          /\ quotes[i].option = plan.option
          /\ quotes[i].amountOutMin = plan.amountOutMin
          /\ plan.amountOutMin * 10000 <= quotes[i].quotedOut * (10000 - slippageBps)
    BY <1>10, <2>1
  <2>3. decision'.plan = plan /\ decision'.input = input /\ decision'.quotes = quotes /\ decision'.slippageBps = slippageBps
    BY <1>2
  <2> QED BY <1>12, <2>1, <2>2, <2>3 DEF PlanSound, KeepsTerms
<1> QED BY <1>12, <1>13, <1>14
-----------------------------------------------------------------------------
(* Which questions are about what, and the invariants of the steps. *)

\* Every step answers on one topic: the fabric's are these.
FabricTopics == {"quote", "depth", "edges", "loops", "cross"}
LiquidationTopics == {"routes", "plan", "allow"}
ScoresTopics == {"score", "preliq-score"}
ExecutionTopics == {"end-to-end", "contract", "settings", "bundle"}
PricesTopics == {"price", "route-cache"}
IndexersTopics == {"accounts", "boosts", "stream", "compound", "offer", "feed", "scan"}

\* The arbitrage fabric answers on its own topics.
LEMMA FabricAnswers == FabricDecides => decision'.about \in FabricTopics
<1>1. AskQuote => decision'.about = "quote" BY SMT DEF AskQuote, Decide
<1>2. AskDepth => decision'.about = "depth" BY SMT DEF AskDepth, Decide
<1>3. AskSingleHop => decision'.about = "edges" BY SMT DEF AskSingleHop, Decide
<1>4. AskLoops => decision'.about = "loops" BY SMT DEF AskLoops, Decide
<1>5. AskTriangle => decision'.about = "edges" BY SMT DEF AskTriangle, Decide
<1>6. AskCrossChain => decision'.about = "cross"
  <2>1. ASSUME NEW buy, NEW sell, NEW multiple, AnswerCrossChain(buy, sell, multiple) PROVE decision'.about = "cross"
    BY <2>1, SMT DEF AnswerCrossChain, Decide
  <2> HIDE DEF AnswerCrossChain
  <2> QED BY <2>1, Zenon DEF AskCrossChain
<1> QED BY <1>1, <1>2, <1>3, <1>4, <1>5, <1>6 DEF FabricDecides, FabricTopics

\* Routes, plans and allowances are answered as such.
LEMMA LiquidationAnswers == LiquidationDecides => decision'.about \in LiquidationTopics
<1>1. AskRoutes => decision'.about = "routes" BY SMT DEF AskRoutes, Decide
<1>2. AskPlan => decision'.about = "plan" BY PlanAnswered
<1>3. AskAllow => decision'.about = "allow"
  <2> SUFFICES ASSUME AskAllow PROVE decision'.about = "allow" OBVIOUS
  <2> DEFINE made(answers, first) == ensureRoutersAllowed(<<"r1", "r2", "r3", "r4">>, answers, first)
  <2>1. PICK answers \in [1..4 -> RouterAnswers], first \in {5, Failure} :
           decision' = [about |-> "allow", answers |-> answers, first |-> first, made |-> made(answers, first)]
    BY Zenon DEF AskAllow, Decide
  <2> HIDE DEF made
  <2> QED BY <2>1
<1> QED BY <1>1, <1>2, <1>3 DEF LiquidationDecides, LiquidationTopics

\* The scorers answer with scores.
LEMMA ScoresAnswers == ScoresDecide => decision'.about \in ScoresTopics
  BY ScoreAnswered, PreliqAnswered DEF ScoresDecide, ScoresTopics

\* A bundle is answered as one.
LEMMA BundleTopic == AskBundle => decision'.about = "bundle"
<1> SUFFICES ASSUME AskBundle PROVE decision'.about = "bundle" OBVIOUS
<1>1. PICK repay \in {0, 100}, shares \in {0, 5}, seize \in {0, 40}, odosAnswer \in {NoQuote, 90, 110},
           oneInchAnswer \in {NoQuote, 90, 110}, odosKey \in BOOLEAN, oneInchKey \in BOOLEAN, odosRouter \in BOOLEAN,
           primary \in {"odos", "oneinch", "none"}, slippageBps \in Slippages :
        AnswerBundle([repayAmount |-> repay, repayShares |-> shares, seizeAmount |-> seize,
                      collateralAmount |-> 60, chainConfigured |-> TRUE],
                     primary, [key |-> odosKey, router |-> odosRouter, answer |-> odosAnswer],
                     [key |-> oneInchKey, answer |-> oneInchAnswer], slippageBps)
  BY Zenon DEF AskBundle, AnswerBundle
<1>2. ASSUME NEW params, NEW primary_1, NEW odos, NEW oneInch, NEW bps,
             AnswerBundle(params, primary_1, odos, oneInch, bps)
      PROVE  decision'.about = "bundle"
  BY <1>2, SMT DEF AnswerBundle, Decide
<1> QED BY <1>1, <1>2

\* A plan carried through is answered as one.
LEMMA EndToEndTopic == AskEndToEnd => decision'.about = "end-to-end"
<1>1. ASSUME NEW input, NEW slippageBps, NEW quoteBps, NEW gas, NEW premium, NEW fillBps, NEW repaidLess,
             NEW mode, NEW late, CarryThrough(input, slippageBps, quoteBps, gas, premium, fillBps, repaidLess, mode, late)
      PROVE  decision'.about = "end-to-end"
  BY <1>1, SMT DEF CarryThrough, Decide
<1> HIDE DEF CarryThrough
<1> QED BY <1>1, SMT DEF AskEndToEnd

\* The contracts and the bundles are answered as such.
LEMMA ExecutionAnswers == ExecutionDecides => decision'.about \in ExecutionTopics
<1>1. AskContract => decision'.about = "contract" BY SMT DEF AskContract, Decide
<1>2. AskSettings => decision'.about = "settings" BY SMT DEF AskSettings, Decide
<1> QED BY <1>1, <1>2, BundleTopic, EndToEndTopic DEF ExecutionDecides, ExecutionTopics

\* The price watcher answers with a price or an entry of the cache.
LEMMA PricesAnswers == PricesDecide => decision'.about \in PricesTopics
<1>1. AskPrice => decision'.about = "price"
  <2>1. ASSUME NEW chain, NEW quote, AnswerPrice(chain, quote) PROVE decision'.about = "price"
    BY <2>1, SMT DEF AnswerPrice, Decide
  <2> HIDE DEF AnswerPrice
  <2> QED BY <2>1, SMT DEF AskPrice
<1>2. AskRouteCache => decision'.about = "route-cache" BY SMT DEF AskRouteCache, Decide
<1> QED BY <1>1, <1>2 DEF PricesDecide, PricesTopics

\* The indexers and the predictors answer on their own topics.
LEMMA IndexersAnswer == IndexersDecide => decision'.about \in IndexersTopics
<1>1. AskAccounts => decision'.about = "accounts" BY SMT DEF AskAccounts, AnswerAccounts, Decide
<1>2. AskBoosts => decision'.about = "boosts" BY SMT DEF AskBoosts, AnswerBoosts, Decide
<1>3. AskStream => decision'.about = "stream" BY SMT DEF AskStream, AnswerStream, Decide
<1>4. AskCompound => decision'.about = "compound" BY SMT DEF AskCompound, AnswerCompound, Decide
<1>5. AskOffer => decision'.about = "offer" BY SMT DEF AskOffer, AnswerOffer, Decide
<1>6. AskFeed => decision'.about = "feed" BY SMT DEF AskFeed, AnswerFeed, Decide
<1>7. AskScan => decision'.about = "scan" BY SMT DEF AskScan, AnswerScan, Decide
<1> QED BY <1>1, <1>2, <1>3, <1>4, <1>5, <1>6, <1>7 DEF IndexersDecide, IndexersTopics

\* A step leaves an answer on one topic, none, or what was there.
LEMMA StepTopics ==
  ASSUME [Next]_vars
  PROVE  \/ UNCHANGED decision
         \/ decision' = None
         \/ FabricDecides \/ LiquidationDecides \/ ScoresDecide \/ ExecutionDecides \/ PricesDecide \/ IndexersDecide
  BY DEF Next, vars, Forget

\* What the contracts and the bundles do is what they promise, whatever is asked of them.
THEOREM ExecutionIsSound == Spec => []ExecutionSound
<1>1. Init => ExecutionSound
  BY DEF Init, DecisionInit, ExecutionSound, EndToEndSound, ContractSound, SettingsSound, BundleSound, About
<1>2. ExecutionSound /\ [Next]_vars => ExecutionSound'
  <2> SUFFICES ASSUME ExecutionSound, [Next]_vars PROVE ExecutionSound' OBVIOUS
  <2>1. CASE UNCHANGED decision
    <3>1. decision' = decision BY <2>1
    <3> QED BY <3>1 DEF ExecutionSound, EndToEndSound, ContractSound, SettingsSound, BundleSound, About
  <2>2. CASE decision' = None
    BY <2>2 DEF ExecutionSound, EndToEndSound, ContractSound, SettingsSound, BundleSound, About
  <2>3. CASE decision'.about \notin ExecutionTopics
    BY <2>3 DEF ExecutionSound, EndToEndSound, ContractSound, SettingsSound, BundleSound, About, ExecutionTopics
  <2>4. AskContract => ExecutionSound'
    <3>1. AskContract => decision'.about = "contract" BY SMT DEF AskContract, Decide
    <3> QED BY <3>1, ContractAnswered DEF ExecutionSound, EndToEndSound, SettingsSound, BundleSound, About
  <2>5. AskSettings => ExecutionSound'
    <3>1. AskSettings => decision'.about = "settings" BY SMT DEF AskSettings, Decide
    <3> QED BY <3>1, SettingsAnswered DEF ExecutionSound, EndToEndSound, ContractSound, BundleSound, About
  <2>6. AskBundle => ExecutionSound'
    BY BundleTopic, BundleAnswered DEF ExecutionSound, EndToEndSound, SettingsSound, ContractSound, About
  <2>7. AskEndToEnd => ExecutionSound'
    BY EndToEndTopic, EndToEndAnswered DEF ExecutionSound, BundleSound, SettingsSound, ContractSound, About
  <2>8. FabricTopics \cap ExecutionTopics = {} /\ LiquidationTopics \cap ExecutionTopics = {}
        /\ ScoresTopics \cap ExecutionTopics = {} /\ PricesTopics \cap ExecutionTopics = {}
        /\ IndexersTopics \cap ExecutionTopics = {}
    BY DEF FabricTopics, LiquidationTopics, ScoresTopics, PricesTopics, IndexersTopics, ExecutionTopics
  <2>9. ExecutionDecides => ExecutionSound' BY <2>4, <2>5, <2>6, <2>7 DEF ExecutionDecides
  <2> QED BY <2>1, <2>2, <2>3, <2>8, <2>9, StepTopics, FabricAnswers, LiquidationAnswers, ScoresAnswers, PricesAnswers,
             IndexersAnswer, Zenon
<1> QED BY <1>1, <1>2, PTL DEF Spec

\* A candidate or an offer that is accepted is within its bounds, whatever the scorers are asked.
THEOREM ScoresAreSound == Spec => []ScoresSound
<1>1. Init => ScoresSound
  BY DEF Init, DecisionInit, ScoresSound, ScoreSound, CalmIsNoStricter, PreliqScoreSound, About
<1>2. ScoresSound /\ [Next]_vars => ScoresSound'
  <2> SUFFICES ASSUME ScoresSound, [Next]_vars PROVE ScoresSound' OBVIOUS
  <2>1. CASE UNCHANGED decision
    <3>1. decision' = decision BY <2>1
    <3> QED BY <3>1 DEF ScoresSound, ScoreSound, CalmIsNoStricter, PreliqScoreSound, About
  <2>2. CASE decision' = None
    BY <2>2 DEF ScoresSound, ScoreSound, CalmIsNoStricter, PreliqScoreSound, About
  <2>3. CASE decision'.about \notin ScoresTopics
    BY <2>3 DEF ScoresSound, ScoreSound, CalmIsNoStricter, PreliqScoreSound, About, ScoresTopics
  <2>4. AskScore => ScoresSound'
    BY ScoreAnswered DEF ScoresSound, PreliqScoreSound, About
  <2>5. AskPreliqScore => ScoresSound'
    BY PreliqAnswered DEF ScoresSound, ScoreSound, CalmIsNoStricter, About
  <2>6. FabricTopics \cap ScoresTopics = {} /\ LiquidationTopics \cap ScoresTopics = {}
        /\ ExecutionTopics \cap ScoresTopics = {} /\ PricesTopics \cap ScoresTopics = {}
        /\ IndexersTopics \cap ScoresTopics = {}
    BY DEF FabricTopics, LiquidationTopics, ScoresTopics, PricesTopics, IndexersTopics, ExecutionTopics
  <2>7. ScoresDecide => ScoresSound' BY <2>4, <2>5 DEF ScoresDecide
  <2> QED BY <2>1, <2>2, <2>3, <2>6, <2>7, StepTopics, FabricAnswers, LiquidationAnswers, ExecutionAnswers, PricesAnswers,
             IndexersAnswer, Zenon
<1> QED BY <1>1, <1>2, PTL DEF Spec
-----------------------------------------------------------------------------
(* Recursive functions and selections. *)

\* The i-th step takes X into X; and f is what n steps make of a base, one after the other.
Steps(X, n, step) == \A i \in 1..n : \A x \in X : step[i][x] \in X
History(f, X, base, n, step) == f \in [0..n -> X] /\ f[0] = base /\ \A i \in 1..n : f[i] = step[i][f[i - 1]]

\* Steps from a base have their history.
LEMMA Iterated ==
  ASSUME NEW X, NEW base \in X, NEW n \in Nat, NEW step, Steps(X, n, step)
  PROVE  \E f : History(f, X, base, n, step)
<1>0. \A i \in 1..n : \A x \in X : step[i][x] \in X BY DEF Steps
<1> DEFINE Good(m, f) == f \in [0..m -> X] /\ f[0] = base /\ \A i \in 1..m : f[i] = step[i][f[i - 1]]
           S == {m \in Nat : m <= n => \E f : Good(m, f)}
<1>1. 0 \in S
  <2> DEFINE f0 == [i \in 0..0 |-> base]
  <2>1. Good(0, f0) OBVIOUS
  <2> HIDE DEF f0, Good
  <2> QED BY <2>1
<1>2. \A m \in Nat : m \in S => m + 1 \in S
  <2> SUFFICES ASSUME NEW m \in Nat, m \in S, m + 1 <= n PROVE \E f : Good(m + 1, f)
    <3> HIDE DEF Good
    <3> QED OBVIOUS
  <2>1. PICK f : Good(m, f)
    <3> HIDE DEF Good
    <3> QED OBVIOUS
  <2> DEFINE g == [i \in 0..(m + 1) |-> IF i = m + 1 THEN step[m + 1][f[m]] ELSE f[i]]
  <2>2. step[m + 1][f[m]] \in X
    <3>1. m + 1 \in 1..n /\ m \in 0..m OBVIOUS
    <3>2. f[m] \in X BY <2>1, <3>1
    <3> QED BY <1>0, <3>1, <3>2
  <2>3. g \in [0..(m + 1) -> X] BY <2>1, <2>2
  <2>4. g[0] = base BY <2>1
  <2>5. \A i \in 1..(m + 1) : g[i] = step[i][g[i - 1]]
    <3> SUFFICES ASSUME NEW i \in 1..(m + 1) PROVE g[i] = step[i][g[i - 1]] OBVIOUS
    <3>1. CASE i = m + 1
      <4>1. g[i] = step[m + 1][f[m]] BY <3>1
      <4>2. g[i - 1] = f[m] BY <3>1
      <4> QED BY <3>1, <4>1, <4>2
    <3>2. CASE i # m + 1
      <4>1. i \in 1..m /\ i - 1 \in 0..m BY <3>2
      <4>2. g[i] = f[i] /\ g[i - 1] = f[i - 1] BY <4>1
      <4> QED BY <2>1, <4>1, <4>2
    <3> QED BY <3>1, <3>2
  <2> QED BY <2>3, <2>4, <2>5
<1> HIDE DEF Good
<1>3. Nat \subseteq S
  <2> HIDE DEF S
  <2> QED BY <1>1, <1>2, NatInductionSet
<1>4. PICK f : Good(n, f) BY <1>3
<1> QED BY <1>4 DEF Good, History

\* Of a set of places, each number up to how many there are is the rank of one.
LEMMA Ranked ==
  ASSUME NEW n \in Nat
  PROVE  \A places \in SUBSET (1..n) : \A k \in 1..Cardinality(places) :
           \E i \in places : Cardinality({j \in places : j <= i}) = k
<1> DEFINE Rank(places, i) == Cardinality({j \in places : j <= i})
           Has(m) == \A places \in SUBSET (1..m) : \A k \in 1..Cardinality(places) :
                       \E i \in places : Rank(places, i) = k
           S == {m \in Nat : Has(m)}
<1>1. 0 \in S
  <2>1. \A places \in SUBSET (1..0) : places = {} OBVIOUS
  <2>2. Cardinality({}) = 0 BY FS_EmptySet
  <2>3. \A places \in SUBSET (1..0) : 1..Cardinality(places) = {} BY <2>1, <2>2
  <2> QED BY <2>3
<1>2. \A m \in Nat : m \in S => m + 1 \in S
  <2> SUFFICES ASSUME NEW m \in Nat, Has(m) PROVE Has(m + 1)
    <3> HIDE DEF Has
    <3> QED OBVIOUS
  <2> SUFFICES ASSUME NEW places \in SUBSET (1..(m + 1)), NEW k \in 1..Cardinality(places)
               PROVE  \E i \in places : Rank(places, i) = k
    OBVIOUS
  <2>1. CASE m + 1 \notin places
    <3>1. places \in SUBSET (1..m) BY <2>1
    <3> QED BY <3>1
  <2>2. CASE m + 1 \in places
    <3> DEFINE rest == places \ {m + 1}
    <3>1. rest \in SUBSET (1..m) OBVIOUS
    <3>2. IsFiniteSet(places) /\ IsFiniteSet(rest)
      <4>1. IsFiniteSet(1..(m + 1)) BY FS_Interval
      <4> QED BY <4>1, FS_Subset
    <3>3. Cardinality(places) = Cardinality(rest) + 1 /\ Cardinality(rest) \in Nat
      <4>1. Cardinality(rest) = Cardinality(places) - 1 /\ Cardinality(places) \in Nat
        BY <2>2, <3>2, FS_RemoveElement, FS_CardinalityType
      <4>2. Cardinality(rest) \in Nat BY <3>2, FS_CardinalityType
      <4> QED BY <4>1, <4>2
    <3>4. CASE k \in 1..Cardinality(rest)
      <4>1. PICK i \in rest : Rank(rest, i) = k BY <3>1, <3>4
      <4>2. {j \in places : j <= i} = {j \in rest : j <= i} BY <3>1, <4>1
      <4> QED BY <4>1, <4>2
    <3>5. CASE k = Cardinality(places)
      <4>1. \A j \in places : j <= m + 1 OBVIOUS
      <4>2. {j \in places : j <= m + 1} = places BY <4>1
      <4> QED BY <2>2, <3>5, <4>2
    <3> QED BY <3>3, <3>4, <3>5
  <2> QED BY <2>1, <2>2
<1>3. Nat \subseteq S
  <2> HIDE DEF S
  <2> QED BY <1>1, <1>2, NatInductionSet
<1> QED BY <1>3

\* A selection has the entries at its places, each once.
LEMMA Placed ==
  ASSUME NEW seq, NEW n \in Nat, NEW places \in SUBSET (1..n)
  PROVE  LET chosen == AtPlaces(seq, places)
         IN /\ Len(chosen) \in Nat /\ chosen = [k \in 1..Len(chosen) |-> chosen[k]]
            /\ \A k \in DOMAIN chosen : \E i \in places : chosen[k] = seq[i]
            /\ \A i \in places : \E k \in DOMAIN chosen : chosen[k] = seq[i]
            /\ (\A i, j \in places : seq[i] = seq[j] => i = j) => IsInjective(chosen)
<1> DEFINE rank(i) == Cardinality({j \in places : j <= i})
           count == Cardinality(places)
           nth(k) == CHOOSE i \in places : rank(i) = k
           chosen == AtPlaces(seq, places)
<1>1. IsFiniteSet(places) /\ count \in Nat
  <2>1. IsFiniteSet(1..n) BY FS_Interval
  <2> QED BY <2>1, FS_Subset, FS_CardinalityType
<1>2. \A k \in 1..count : \E i \in places : rank(i) = k BY Ranked
<1> HIDE DEF rank
<1>3. \A k \in 1..count : nth(k) \in places /\ rank(nth(k)) = k BY <1>2
<1>4. chosen = [k \in 1..count |-> seq[nth(k)]] BY DEF AtPlaces, rank
<1> HIDE DEF count, chosen
<1>5. \A i \in places : rank(i) \in 1..count
  <2> SUFFICES ASSUME NEW i \in places PROVE rank(i) \in 1..count OBVIOUS
  <2> DEFINE below == {j \in places : j <= i}
  <2>1. below \subseteq places /\ i \in below OBVIOUS
  <2>2. Cardinality(below) \in Nat /\ Cardinality(below) <= count /\ Cardinality(below) # 0
    BY <1>1, <2>1, FS_Subset, FS_CardinalityType, FS_EmptySet DEF count
  <2> QED BY <1>1, <2>2 DEF rank
<1>6. \A i, j \in places : rank(i) = rank(j) => i = j
  <2>1. ASSUME NEW i \in places, NEW j \in places, i < j, rank(i) = rank(j) PROVE FALSE
    <3> DEFINE low == {l \in places : l <= i}
               high == {l \in places : l <= j}
    <3>1. low \subseteq high /\ j \in high /\ j \notin low
      <4>1. \A l \in places : l \in Int OBVIOUS
      <4>2. j \in Int /\ i \in Int /\ ~(j <= i) BY <2>1, <4>1
      <4>3. \A l \in places : l <= i => l <= j BY <2>1, <4>1, <4>2
      <4>4. low \subseteq high BY <4>3
      <4>5. j \in high /\ j \notin low BY <4>2
      <4> QED BY <4>4, <4>5
    <3>2. IsFiniteSet(high) BY <1>1, FS_Subset
    <3> QED BY <2>1, <3>1, <3>2, FS_Subset DEF rank
  <2> QED BY <2>1
<1>7. \A i \in places : nth(rank(i)) = i
  BY <1>3, <1>5, <1>6
<1> HIDE DEF nth
<1>8. DOMAIN chosen = 1..count /\ Len(chosen) = count /\ chosen = [k \in 1..count |-> chosen[k]]
  <2>1. chosen \in [1..count -> {seq[i] : i \in places}] BY <1>3, <1>4
  <2> QED BY <1>1, <2>1
<1>9. \A k \in DOMAIN chosen : chosen[k] = seq[nth(k)] /\ nth(k) \in places BY <1>3, <1>4
<1>10. \A i \in places : rank(i) \in DOMAIN chosen /\ chosen[rank(i)] = seq[i] BY <1>4, <1>5, <1>7, <1>8
<1>11. (\A i, j \in places : seq[i] = seq[j] => i = j) => IsInjective(chosen)
  <2> SUFFICES ASSUME \A i, j \in places : seq[i] = seq[j] => i = j,
                      NEW a \in DOMAIN chosen, NEW b \in DOMAIN chosen, chosen[a] = chosen[b]
               PROVE  a = b
    BY DEF IsInjective
  <2>1. nth(a) = nth(b) BY <1>9
  <2>2. rank(nth(a)) = a /\ rank(nth(b)) = b BY <1>3, <1>8
  <2> QED BY <2>1, <2>2
<1> QED BY <1>1, <1>8, <1>9, <1>10, <1>11 DEF chosen
-----------------------------------------------------------------------------
(* The routers allowed. *)

Written == {"sent", "receipt-lost", "receipt-lost-unread"}
IsAnswered(routers, answers) == \A i \in 1..Len(routers) : answers[i] \in RouterAnswers
Rejecting(routers, answers) == {i \in 1..Len(routers) : answers[i] \in Unread}
Lacking(routers, answers) ==
  {i \in 1..Len(routers) : answers[i] \in Written /\ \A j \in Rejecting(routers, answers) : i <= j}

\* Those lacking are the ones written up to the first whose failure cannot be followed
\* by a count.
LEMMA LackingReached ==
  ASSUME NEW R, NEW routers \in Seq(R), NEW answers
  PROVE  /\ Reached(answers, Len(routers)) \in 0..Len(routers)
         /\ Lacking(routers, answers) = {i \in 1..Reached(answers, Len(routers)) : answers[i] \in Written}
<1> DEFINE N == Len(routers)
           U == Rejecting(routers, answers)
           r == Reached(answers, N)
<1>1. N \in Nat BY LenProperties
<1>2. U = {i \in 1..N : answers[i] \in Unread} BY DEF Rejecting
<1>3. r = IF U = {} THEN N ELSE Min(U) BY <1>2, Zenon DEF Reached
<1>4. Lacking(routers, answers) = {i \in 1..N : answers[i] \in Written /\ \A j \in U : i <= j} BY Zenon DEF Lacking
<1> HIDE DEF N, U, r
<1>5. CASE U = {}
  <2>1. r = N BY <1>3, <1>5
  <2> QED BY <1>1, <1>4, <1>5, <2>1 DEF N, r
<1>6. CASE U # {}
  <2>1. U \in SUBSET Nat BY <1>1, <1>2
  <2>2. r \in U /\ \A y \in U : r <= y BY <1>3, <1>6, <2>1, MinIsLeast
  <2>3. r \in 1..N BY <1>2, <2>2
  <2>4. \A i \in 1..N : (\A j \in U : i <= j) <=> i \in 1..r
    <3> SUFFICES ASSUME NEW i \in 1..N PROVE (\A j \in U : i <= j) <=> i <= r
      BY <1>1, <2>3
    <3>1. (\A j \in U : i <= j) => i <= r BY <2>2
    <3>2. i <= r => \A j \in U : i <= j
      <4> SUFFICES ASSUME i <= r, NEW j \in U PROVE i <= j OBVIOUS
      <4> QED BY <1>1, <2>1, <2>2, <2>3
    <3> QED BY <3>1, <3>2
  <2>5. 1..r \subseteq 1..N BY <1>1, <2>3
  <2>6. Lacking(routers, answers) = {i \in 1..r : answers[i] \in Written} BY <1>4, <2>4, <2>5
  <2>7. r \in 0..N BY <1>1, <2>3
  <2> QED BY <2>6, <2>7 DEF N, r
<1> QED BY <1>5, <1>6

\* One router: a transaction with the next nonce where one is written, nothing otherwise;
\* the nonce held is the next one again, whatever became of it.
LEMMA AllowStep ==
  ASSUME NEW first \in Nat, NEW T, NEW acc \in [sent : Seq(T), nonce : Int], acc.nonce = first + Len(acc.sent),
         NEW router, NEW answer \in RouterAnswers
  PROVE  allowNext(acc, router, answer, first + Len(acc.sent)) =
           IF answer \in Written
           THEN [sent |-> Append(acc.sent, [router |-> router, nonce |-> acc.nonce]), nonce |-> acc.nonce + 1]
           ELSE [sent |-> acc.sent, nonce |-> acc.nonce]
<1> DEFINE s == acc.sent
           m == acc.nonce
           more == Append(s, [router |-> router, nonce |-> m])
<1>1. /\ Len(s) \in Nat /\ m \in Int /\ DOMAIN acc = {"sent", "nonce"}
      /\ acc = [sent |-> acc.sent, nonce |-> acc.nonce]
  BY LenProperties
<1>2. \A v : [acc EXCEPT !.nonce = v] = [sent |-> s, nonce |-> v]
  <2> TAKE v
  <2>1. [[sent |-> s, nonce |-> m] EXCEPT !.nonce = v] = [sent |-> s, nonce |-> v] OBVIOUS
  <2> QED BY <1>1, <2>1
<1>3. \A t, v : [acc EXCEPT !.sent = t, !.nonce = v] = [sent |-> t, nonce |-> v]
  <2> TAKE t, v
  <2> DEFINE b == [acc EXCEPT !.sent = t]
  <2>1. b = [sent |-> t, nonce |-> m]
    <3>1. [[sent |-> s, nonce |-> m] EXCEPT !.sent = t] = [sent |-> t, nonce |-> m] OBVIOUS
    <3> QED BY <1>1, <3>1
  <2> HIDE DEF b
  <2>2. [b EXCEPT !.nonce = v] = [sent |-> t, nonce |-> v] BY <2>1
  <2> QED BY <2>2 DEF b
<1>4. \A v : WithNonce(acc, router, v) = [sent |-> more, nonce |-> v] BY <1>3, Zenon DEF WithNonce
<1>6. [acc EXCEPT !.nonce = first + Len(acc.sent)] = [sent |-> s, nonce |-> m] BY <1>2, Zenon
<1>7. CASE answer \in {"allowed", "unreadable", "refused-unread"}
  BY <1>1, <1>7, Zenon DEF allowNext, Written
<1>8. CASE answer = "refused"
  <2>1. allowNext(acc, router, answer, first + Len(acc.sent)) = [acc EXCEPT !.nonce = first + Len(acc.sent)]
    BY <1>8, Zenon DEF allowNext
  <2> QED BY <2>1, <1>6, <1>8, Zenon DEF Written
<1>9. CASE answer = "receipt-lost"
  <2>1. allowNext(acc, router, answer, first + Len(acc.sent)) = WithNonce(acc, router, first + Len(acc.sent) + 1)
    BY <1>9, Zenon DEF allowNext
  <2> QED BY <2>1, <1>4, <1>9, Zenon DEF Written
<1>10. CASE answer \in {"sent", "receipt-lost-unread"}
  <2>1. allowNext(acc, router, answer, first + Len(acc.sent)) = WithNonce(acc, router, acc.nonce + 1)
    BY <1>10, Zenon DEF allowNext
  <2>2. answer \in Written BY <1>10 DEF Written
  <2> QED BY <2>1, <2>2, <1>4, Zenon
<1> QED BY <1>7, <1>8, <1>9, <1>10 DEF RouterAnswers

\* A transaction for every router lacking, the nonces without a gap.
AllowsEach(R, routers, answers, first, made) ==
  /\ made.sent \in Seq([router : R, nonce : Int])
  /\ Len(made.sent) = Cardinality(Lacking(routers, answers))
  /\ \A i \in Lacking(routers, answers) : \E k \in 1..Len(made.sent) : made.sent[k].router = routers[i]
  /\ \A i \in 1..Len(made.sent) : made.sent[i].nonce = first + i - 1

\* Whatever becomes of each router, one transaction is written for every one that is not
\* allowed yet, up to the first after whose failure the nonce cannot be read again and
\* none beyond it; their nonces count up from the first without a gap.
THEOREM AllowOutcome ==
  ASSUME NEW R, NEW routers \in Seq(R), NEW answers, IsAnswered(routers, answers),
         NEW first \in Nat, first # Failure
  PROVE  /\ AllowsEach(R, routers, answers, first, ensureRoutersAllowed(routers, answers, first))
         /\ ensureRoutersAllowed(routers, answers, first).rejected = (Rejecting(routers, answers) # {})
<1> DEFINE N == Reached(answers, Len(routers))
           T == [router : R, nonce : Int]
           base == [sent |-> <<>>, nonce |-> first]
           next(acc, i) == allowNext(acc, routers[i], answers[i], first + Len(acc.sent))
           after == CHOOSE f : f = [n \in 0..N |-> IF n = 0 THEN base ELSE next(f[n - 1], n)]
           Fits(acc) == /\ acc \in [sent : Seq(T), nonce : Int] /\ acc.nonce = first + Len(acc.sent)
                        /\ \A i \in 1..Len(acc.sent) : acc.sent[i].nonce = first + i - 1
           Keeps(acc, to) == \A k \in 1..Len(acc.sent) : k \in 1..Len(to.sent) /\ to.sent[k] = acc.sent[k]
           Ends(to, i) == Len(to.sent) \in 1..Len(to.sent) /\ to.sent[Len(to.sent)].router = routers[i]
           X == {acc \in [sent : Seq(T), nonce : Int] : Fits(acc)}
           written(n) == {i \in 1..n : answers[i] \in Written}
           step == [i \in 1..N |-> [acc \in X |-> next(acc, i)]]
<1>1. N \in Nat /\ \A i \in 1..N : routers[i] \in R /\ answers[i] \in RouterAnswers
  <2>1. N \in 0..Len(routers) BY LackingReached
  <2>2. Len(routers) \in Nat /\ \A i \in 1..Len(routers) : routers[i] \in R /\ answers[i] \in RouterAnswers
    BY LenProperties DEF IsAnswered
  <2> HIDE DEF N
  <2>3. 1..N \subseteq 1..Len(routers) /\ N \in Nat BY <2>1, <2>2
  <2> QED BY <2>2, <2>3
<1>2. ASSUME NEW acc \in X, NEW i \in 1..N
      PROVE  /\ next(acc, i) \in X /\ Keeps(acc, next(acc, i))
             /\ answers[i] \in Written => Ends(next(acc, i), i)
             /\ Len(next(acc, i).sent) = IF answers[i] \in Written THEN Len(acc.sent) + 1 ELSE Len(acc.sent)
  <2> DEFINE s == acc.sent
             one == [router |-> routers[i], nonce |-> acc.nonce]
  <2>1. /\ s \in Seq(T) /\ acc.nonce \in Int /\ Len(s) \in Nat /\ acc.nonce = first + Len(s)
        /\ acc = [sent |-> acc.sent, nonce |-> acc.nonce] /\ DOMAIN acc = {"sent", "nonce"}
        /\ \A k \in 1..Len(s) : s[k].nonce = first + k - 1
    BY <1>2, LenProperties
  <2>2. answers[i] \in RouterAnswers /\ routers[i] \in R BY <1>1
  <2>3. next(acc, i) = IF answers[i] \in Written THEN [sent |-> Append(s, one), nonce |-> acc.nonce + 1]
                       ELSE [sent |-> s, nonce |-> acc.nonce]
    <3> HIDE DEF T, X, Fits
    <3>1. acc \in [sent : Seq(T), nonce : Int] BY DEF X
    <3>2. acc.nonce = first + Len(acc.sent) BY <2>1
    <3>3. allowNext(acc, routers[i], answers[i], first + Len(acc.sent)) =
            IF answers[i] \in Written
            THEN [sent |-> Append(acc.sent, [router |-> routers[i], nonce |-> acc.nonce]), nonce |-> acc.nonce + 1]
            ELSE [sent |-> acc.sent, nonce |-> acc.nonce]
      BY <2>2, <3>1, <3>2, AllowStep
    <3> QED BY <3>3
  <2>4. one \in T /\ one.nonce = acc.nonce /\ one.router = routers[i] BY <2>1, <2>2
  <2> HIDE DEF one, next, T, s, X
  <2>5. /\ Append(s, one) \in Seq(T) /\ Len(Append(s, one)) = Len(s) + 1
        /\ \A k \in 1..(Len(s) + 1) : Append(s, one)[k] = IF k = Len(s) + 1 THEN one ELSE s[k]
    BY <2>1, <2>4, AppendProperties
  <2>6. CASE answers[i] \in Written
    <3>1. next(acc, i) = [sent |-> Append(s, one), nonce |-> acc.nonce + 1] BY <2>3, <2>6
    <3> DEFINE to == next(acc, i)
    <3>2. to.sent = Append(s, one) /\ to.nonce = acc.nonce + 1 /\ to \in [sent : Seq(T), nonce : Int]
      BY <3>1, <2>1, <2>5
    <3> HIDE DEF to
    <3>3. \A k \in 1..Len(to.sent) : to.sent[k].nonce = first + k - 1
      <4> SUFFICES ASSUME NEW k \in 1..(Len(s) + 1) PROVE Append(s, one)[k].nonce = first + k - 1
        BY <2>5, <3>2
      <4>1. CASE k = Len(s) + 1 BY <4>1, <2>1, <2>4, <2>5
      <4>2. CASE k # Len(s) + 1
        <5>1. k \in 1..Len(s) BY <4>2, <2>1
        <5> QED BY <5>1, <4>2, <2>1, <2>5
      <4> QED BY <4>1, <4>2
    <3>4. Len(to.sent) = Len(s) + 1 /\ to.nonce = first + Len(to.sent) BY <2>1, <2>5, <3>2
    <3>5. Fits(to) BY <3>2, <3>3, <3>4
    <3> HIDE DEF Fits
    <3>6. to \in X BY <3>2, <3>5 DEF X
    <3>7. Keeps(acc, to) /\ Ends(to, i) BY <2>1, <2>4, <2>5, <3>2 DEF s
    <3> HIDE DEF Keeps, Ends
    <3> QED BY <3>4, <3>6, <3>7, <2>6 DEF to, s
  <2>7. CASE answers[i] \notin Written
    <3>1. next(acc, i) = [sent |-> s, nonce |-> acc.nonce] BY <2>3, <2>7
    <3>2. next(acc, i) = acc BY <3>1, <2>1 DEF s
    <3>3. Keeps(acc, acc) OBVIOUS
    <3> HIDE DEF Keeps, Ends
    <3> QED BY <3>2, <3>3, <1>2, <2>7
  <2> QED BY <2>6, <2>7
<1>3. base \in X /\ Len(base.sent) = 0
  <2>1. <<>> \in Seq(T) /\ Len(<<>>) = 0 OBVIOUS
  <2>2. base \in [sent : Seq(T), nonce : Int] /\ base.sent = <<>> /\ base.nonce = first BY <2>1
  <2> HIDE DEF base, T
  <2> QED BY <2>1, <2>2
<1> DEFINE made == ensureRoutersAllowed(routers, answers, first)
<1>4. made.sent = after[N].sent /\ made.rejected = (Rejecting(routers, answers) # {})
  <2> DEFINE stopped == \E i \in 1..Len(routers) : answers[i] \in Unread
             end == after[N].sent
  <2>1. made = [sent |-> end, rejected |-> stopped] BY Zenon DEF ensureRoutersAllowed
  <2>2. stopped <=> Rejecting(routers, answers) # {} BY DEF Rejecting
  <2> HIDE DEF made, end, stopped
  <2>3. made.sent = end /\ made.rejected = stopped BY <2>1
  <2>4. stopped = (Rejecting(routers, answers) # {})
    <3> HIDE DEF stopped
    <3>1. stopped \in BOOLEAN BY DEF stopped
    <3> QED BY <2>2, <3>1
  <2> QED BY <2>3, <2>4 DEF end
<1> HIDE DEF X, base, next, made, Keeps, Ends
<1>5. after = [n \in 0..N |-> IF n = 0 THEN base ELSE next(after[n - 1], n)]
  <2>1. \A i \in 1..N : \A acc \in X : step[i][acc] \in X BY <1>2
  <2>2. \A i \in 1..N : \A acc \in X : step[i][acc] = next(acc, i) OBVIOUS
  <2> HIDE DEF step, N
  <2>3. PICK f \in [0..N -> X] : f[0] = base /\ \A i \in 1..N : f[i] = step[i][f[i - 1]]
    <3> HIDE DEF next
    <3>1. N \in Nat /\ base \in X /\ Steps(X, N, step) BY <1>1, <1>3, <2>1 DEF Steps
    <3>2. PICK f : History(f, X, base, N, step) BY <3>1, Iterated
    <3> QED BY <3>2, Zenon DEF History
  <2>4. \A i \in 1..N : f[i] = next(f[i - 1], i)
    <3> SUFFICES ASSUME NEW i \in 1..N PROVE f[i] = next(f[i - 1], i) OBVIOUS
    <3>1. i - 1 \in 0..N BY <1>1
    <3> QED BY <3>1, <2>2, <2>3
  <2>5. f = [n \in 0..N |-> IF n = 0 THEN base ELSE next(f[n - 1], n)]
    <3>1. \A n \in 0..N : n = 0 \/ n \in 1..N BY <1>1
    <3> QED BY <2>3, <2>4, <3>1
  <2> QED BY <2>5, Zenon
<1> HIDE DEF after, N, step
<1> DEFINE Covers(n) == \A i \in written(n) : \E k \in 1..Len(after[n].sent) : after[n].sent[k].router = routers[i]
           Has(n) == after[n] \in X /\ Len(after[n].sent) = Cardinality(written(n)) /\ Covers(n)
           S == {n \in Nat : n <= N => Has(n)}
<1>6. 0 \in S
  <2>1. after[0] = base BY <1>1, <1>5
  <2>2. written(0) = {} OBVIOUS
  <2> QED BY <2>1, <2>2, <1>3, FS_EmptySet
<1>7. \A n \in Nat : n \in S => n + 1 \in S
  <2> SUFFICES ASSUME NEW n \in Nat, Has(n), n + 1 <= N PROVE Has(n + 1)
    <3> HIDE DEF Has
    <3> QED BY <1>1
  <2>1. n + 1 \in 1..N /\ n + 1 \in 0..N /\ n + 1 # 0 BY <1>1
  <2>2. after[n + 1] = next(after[n], n + 1)
    <3>1. after[n + 1] = IF n + 1 = 0 THEN base ELSE next(after[(n + 1) - 1], n + 1) BY <1>5, <2>1, Zenon
    <3>2. (n + 1) - 1 = n OBVIOUS
    <3> QED BY <2>1, <3>1, <3>2, Zenon
  <2>3. IsFiniteSet(written(n))
    <3>1. IsFiniteSet(1..n) BY FS_Interval
    <3> QED BY <3>1, FS_Subset
  <2>4. n + 1 \notin written(n) OBVIOUS
  <2>5. written(n + 1) = IF answers[n + 1] \in Written THEN written(n) \cup {n + 1} ELSE written(n)
    <3> HIDE DEF Has
    <3> QED OBVIOUS
  <2> HIDE DEF written
  <2>6. Cardinality(written(n + 1)) =
          IF answers[n + 1] \in Written THEN Cardinality(written(n)) + 1 ELSE Cardinality(written(n))
    BY <2>3, <2>4, <2>5, FS_AddElement
  <2>7. /\ next(after[n], n + 1) \in X
        /\ Len(next(after[n], n + 1).sent) =
             IF answers[n + 1] \in Written THEN Len(after[n].sent) + 1 ELSE Len(after[n].sent)
    BY <1>2, <2>1
  <2>8. Covers(n + 1)
    <3> DEFINE to == after[n + 1].sent
               from == after[n].sent
    <3>1. \A k \in 1..Len(from) : k \in 1..Len(to) /\ to[k] = from[k] BY <1>2, <2>1, <2>2 DEF Keeps
    <3>2. answers[n + 1] \in Written => Len(to) \in 1..Len(to) /\ to[Len(to)].router = routers[n + 1]
      BY <1>2, <2>1, <2>2 DEF Ends
    <3>3. \A i \in written(n) : \E k \in 1..Len(from) : from[k].router = routers[i] OBVIOUS
    <3> HIDE DEF to, from
    <3>4. \A i \in written(n) : \E k \in 1..Len(to) : to[k].router = routers[i] BY <3>1, <3>3
    <3> DEFINE hit(i) == \E k \in 1..Len(to) : to[k].router = routers[i]
    <3>6. answers[n + 1] \in Written => hit(n + 1) BY <3>2
    <3>7. \A i \in written(n) : hit(i) BY <3>4
    <3>8. \A i \in written(n + 1) : i \in written(n) \/ (i = n + 1 /\ answers[n + 1] \in Written)
      <4> HIDE DEF hit
      <4> QED BY <2>5
    <3> HIDE DEF hit
    <3>9. \A i \in written(n + 1) : hit(i) BY <3>6, <3>7, <3>8, Zenon
    <3>5. \A i \in written(n + 1) : \E k \in 1..Len(to) : to[k].router = routers[i] BY <3>9 DEF hit
    <3> QED BY <3>5 DEF to
  <2> QED BY <2>2, <2>6, <2>7, <2>8
<1>8. Has(N)
  <2> HIDE DEF Has
  <2>1. Nat \subseteq S
    <3> HIDE DEF S
    <3> QED BY <1>6, <1>7, NatInductionSet
  <2>2. N \in S /\ N <= N BY <1>1, <2>1
  <2> QED BY <2>2
<1>9. Fits(after[N]) /\ Len(after[N].sent) = Cardinality(written(N)) /\ Covers(N)
  <2>1. after[N] \in X /\ Len(after[N].sent) = Cardinality(written(N)) /\ Covers(N)
    <3> HIDE DEF Covers, written
    <3> QED BY <1>8, Zenon
  <2> HIDE DEF Fits, written, Covers
  <2>2. Fits(after[N]) BY <2>1 DEF X
  <2> QED BY <2>1, <2>2
<1>10. written(N) = Lacking(routers, answers) BY LackingReached DEF N
<1> QED BY <1>4, <1>9, <1>10 DEF AllowsEach, made

\* Every router not allowed is sent for with the next nonce, as long as there is one.
LEMMA AllowAnswered == AskAllow => AllowSound'
<1> SUFFICES ASSUME AskAllow PROVE AllowSound' OBVIOUS
<1> DEFINE Names == {"r1", "r2", "r3", "r4"}
           routers == <<"r1", "r2", "r3", "r4">>
           made(answers, first) == ensureRoutersAllowed(routers, answers, first)
<1>1. PICK answers \in [1..4 -> RouterAnswers], first \in {5, Failure} :
        decision' = [about |-> "allow", answers |-> answers, first |-> first, made |-> made(answers, first)]
  BY Zenon DEF AskAllow, Decide
<1> DEFINE done == made(answers, first)
           unread == {i \in 1..4 : answers[i] \in {"refused-unread", "receipt-lost-unread"}}
           lacking == {i \in 1..4 : /\ answers[i] \in {"sent", "receipt-lost", "receipt-lost-unread"}
                                    /\ \A j \in unread : i <= j}
           Allows == IF first = Failure THEN done.sent = <<>> /\ done.rejected
                     ELSE /\ Len(done.sent) = Cardinality(lacking)
                          /\ \A i \in lacking : \E k \in DOMAIN done.sent : done.sent[k].router = routers[i]
                          /\ \A k \in DOMAIN done.sent : done.sent[k].nonce = 4 + k
                          /\ done.rejected = (unread # {})
<1>2. routers \in Seq(Names) /\ Len(routers) = 4 OBVIOUS
<1>3. IsAnswered(routers, answers) BY <1>2 DEF IsAnswered
<1>4. decision'.made = done /\ decision'.answers = answers /\ decision'.first = first
  <2> HIDE DEF made
  <2> QED BY <1>1 DEF done
<1>5. Allows
  <2>1. CASE first = Failure
    <3>1. done = [sent |-> <<>>, rejected |-> TRUE] BY <2>1, Zenon DEF ensureRoutersAllowed
    <3> HIDE DEF done
    <3>2. done.sent = <<>> /\ done.rejected BY <3>1
    <3> QED BY <2>1, <3>2
  <2>2. CASE first # Failure
    <3>1. first = 5 /\ first \in Nat BY <2>2
    <3>2. AllowsEach(Names, routers, answers, first, done) /\ done.rejected = (Rejecting(routers, answers) # {})
      <4> HIDE DEF routers, Names
      <4> QED BY <1>2, <1>3, <2>2, <3>1, AllowOutcome
    <3>3. Rejecting(routers, answers) = unread BY <1>2 DEF Rejecting, Unread
    <3> HIDE DEF unread
    <3>4. Lacking(routers, answers) = lacking BY <1>2, <3>3 DEF Lacking, Written
    <3> HIDE DEF done, routers, lacking
    <3>5. /\ done.sent \in Seq([router : Names, nonce : Int])
          /\ Len(done.sent) = Cardinality(lacking)
          /\ \A i \in lacking : \E k \in 1..Len(done.sent) : done.sent[k].router = routers[i]
          /\ \A i \in 1..Len(done.sent) : done.sent[i].nonce = 5 + i - 1
          /\ done.rejected = (unread # {})
      BY <3>1, <3>2, <3>3, <3>4 DEF AllowsEach
    <3>6. DOMAIN done.sent = 1..Len(done.sent) /\ Len(done.sent) \in Nat BY <3>5, LenProperties
    <3>7. \A k \in DOMAIN done.sent : done.sent[k].nonce = 4 + k BY <3>5, <3>6
    <3> QED BY <2>2, <3>5, <3>6, <3>7
  <2> QED BY <2>1, <2>2
<1> HIDE DEF done
<1> QED BY <1>4, <1>5, Zenon DEF AllowSound
-----------------------------------------------------------------------------
(* The routes tried. *)

\* Two sequences without repeats and with nothing in common, one after the other.
LEMMA Joined ==
  ASSUME NEW S, NEW a \in Seq(S), NEW b \in Seq(S), IsInjective(a), IsInjective(b),
         \A i \in DOMAIN a, j \in DOMAIN b : a[i] # b[j]
  PROVE  /\ a \o b \in Seq(S) /\ IsInjective(a \o b)
         /\ \A k \in DOMAIN (a \o b) : \/ \E i \in DOMAIN a : (a \o b)[k] = a[i]
                                       \/ \E j \in DOMAIN b : (a \o b)[k] = b[j]
<1> DEFINE c == a \o b
           m == Len(a)
           n == Len(b)
<1>1. m \in Nat /\ n \in Nat /\ DOMAIN a = 1..m /\ DOMAIN b = 1..n BY LenProperties
<1>2. /\ c \in Seq(S) /\ DOMAIN c = 1..(m + n)
      /\ \A k \in 1..(m + n) : c[k] = IF k <= m THEN a[k] ELSE b[k - m]
  BY ConcatProperties, LenProperties
<1> HIDE DEF c, m, n
<1>3. \A k \in 1..(m + n) : IF k <= m THEN k \in DOMAIN a ELSE k - m \in DOMAIN b BY <1>1
<1>4. \A k \in DOMAIN c : (\E i \in DOMAIN a : c[k] = a[i]) \/ (\E j \in DOMAIN b : c[k] = b[j])
  BY <1>2, <1>3
<1>5. \A k, l \in DOMAIN c : c[k] = c[l] => k = l
  <2> SUFFICES ASSUME NEW k \in 1..(m + n), NEW l \in 1..(m + n), c[k] = c[l] PROVE k = l BY <1>2
  <2>1. CASE k <= m /\ l <= m BY <1>1, <1>2, <1>3, <2>1 DEF IsInjective
  <2>2. CASE ~(k <= m) /\ ~(l <= m)
    <3>1. b[k - m] = b[l - m] /\ k - m \in DOMAIN b /\ l - m \in DOMAIN b BY <1>2, <1>3, <2>2
    <3>2. k - m = l - m BY <3>1 DEF IsInjective
    <3> QED BY <3>2, <1>1
  <2>3. CASE k <= m /\ ~(l <= m) BY <1>1, <1>2, <1>3, <2>3
  <2>4. CASE ~(k <= m) /\ l <= m BY <1>1, <1>2, <1>3, <2>4
  <2> QED BY <2>1, <2>2, <2>3, <2>4
<1>6. IsInjective(c) BY <1>5 DEF IsInjective
<1> QED BY <1>2, <1>4, <1>6 DEF c

\* A sequence of distinct entries, each where it first stands.
LEMMA DistinctOnce ==
  ASSUME NEW S, NEW seq \in Seq(S)
  PROVE  /\ Distinct(seq) \in Seq(S) /\ IsInjective(Distinct(seq))
         /\ \A k \in DOMAIN Distinct(seq) : \E i \in DOMAIN seq : Distinct(seq)[k] = seq[i]
<1> DEFINE places == {i \in DOMAIN seq : \A j \in DOMAIN seq : seq[j] = seq[i] => i <= j}
<1>1. Len(seq) \in Nat /\ DOMAIN seq = 1..Len(seq) /\ \A i \in 1..Len(seq) : seq[i] \in S BY LenProperties
<1>2. places \in SUBSET (1..Len(seq)) BY <1>1
<1>3. \A i, j \in places : seq[i] = seq[j] => i = j
  <2> SUFFICES ASSUME NEW i \in places, NEW j \in places, seq[i] = seq[j] PROVE i = j OBVIOUS
  <2>1. i <= j /\ j <= i OBVIOUS
  <2>2. i \in Nat /\ j \in Nat BY <1>1
  <2> HIDE DEF places
  <2> QED BY <2>1, <2>2
<1>4. Distinct(seq) = AtPlaces(seq, places) BY DEF Distinct
<1> HIDE DEF places
<1> DEFINE chosen == AtPlaces(seq, places)
<1>5. /\ Len(chosen) \in Nat /\ chosen = [k \in 1..Len(chosen) |-> chosen[k]]
      /\ \A k \in DOMAIN chosen : \E i \in places : chosen[k] = seq[i]
      /\ IsInjective(chosen)
  <2>1. Len(seq) \in Nat BY <1>1
  <2>2. /\ Len(chosen) \in Nat /\ chosen = [k \in 1..Len(chosen) |-> chosen[k]]
        /\ \A k \in DOMAIN chosen : \E i \in places : chosen[k] = seq[i]
    BY <1>2, <2>1, Placed
  <2>3. (\A i, j \in places : seq[i] = seq[j] => i = j) => IsInjective(chosen)
    BY <1>2, <2>1, Placed
  <2> HIDE DEF chosen
  <2> QED BY <1>3, <2>2, <2>3
<1> HIDE DEF chosen
<1>6. chosen \in Seq(S)
  <2>1. \A k \in 1..Len(chosen) : chosen[k] \in S BY <1>1, <1>2, <1>5
  <2> QED BY <1>5, <2>1
<1> QED BY <1>1, <1>2, <1>4, <1>5, <1>6 DEF chosen

\* A path over one stop.
Hop(coll, debt, hop) ==
  \E stop, fees : /\ hop = [path |-> <<coll.address, stop, debt.address>>, fees |-> fees] /\ Len(fees) = 2

\* The hops are over one stop each, and no two the same.
LEMMA HopsBuilt ==
  ASSUME NEW tokens, NEW n \in Nat, DOMAIN tokens = 1..n, NEW coll, NEW debt
  PROVE  LET hops == multiHopCandidates(tokens, coll, debt)
         IN /\ \E S : hops \in Seq(S)
            /\ IsInjective(hops) /\ \A k \in DOMAIN hops : Hop(coll, debt, hops[k])
<1> DEFINE stops(class) == {i \in DOMAIN tokens : /\ tokens[i].class = class
                                                  /\ tokens[i].address \notin {coll.address, debt.address}}
           via(class) == AtPlaces(tokens, stops(class))
           hop(t) == LET known == symbolForAddress(tokens, t.address)
                     IN [path |-> <<coll.address, t.address, debt.address>>,
                         fees |-> <<pickFee(coll, known), pickFee(known, debt)>>]
           middles == via("stable") \o via("weth")
           all == [i \in DOMAIN middles |-> hop(middles[i])]
           M == {tokens[i] : i \in 1..n}
<1>1. \A class : via(class) \in Seq(M)
  <2> TAKE class
  <2>1. stops(class) \in SUBSET (1..n) OBVIOUS
  <2> HIDE DEF stops
  <2>2. /\ Len(via(class)) \in Nat /\ via(class) = [k \in 1..Len(via(class)) |-> via(class)[k]]
        /\ \A k \in DOMAIN via(class) : \E i \in stops(class) : via(class)[k] = tokens[i]
    BY <2>1, Placed
  <2> DEFINE v == via(class)
  <2> HIDE DEF via
  <2>3. \A k \in 1..Len(v) : v[k] \in M BY <2>1, <2>2
  <2>4. Len(v) \in Nat /\ v = [k \in 1..Len(v) |-> v[k]] BY <2>2
  <2> HIDE DEF M, v
  <2>5. v \in Seq(M) BY <2>3, <2>4
  <2> QED BY <2>5 DEF v
<1> HIDE DEF via, M
<1>2. middles \in Seq(M) BY <1>1, ConcatProperties
<1>3. Len(middles) \in Nat /\ DOMAIN middles = 1..Len(middles) BY <1>2, LenProperties
<1> HIDE DEF middles
<1>4. multiHopCandidates(tokens, coll, debt) = Distinct(all) BY DEF multiHopCandidates, middles, via
<1> DEFINE H == {hop(middles[i]) : i \in DOMAIN middles}
<1>5. all \in Seq(H)
  <2> HIDE DEF hop
  <2> QED BY <1>3
<1>6. \A i \in DOMAIN all : Hop(coll, debt, all[i])
  <2> SUFFICES ASSUME NEW i \in DOMAIN middles PROVE Hop(coll, debt, hop(middles[i])) OBVIOUS
  <2> DEFINE known == symbolForAddress(tokens, middles[i].address)
             fees == <<pickFee(coll, known), pickFee(known, debt)>>
             stop == middles[i].address
  <2>1. Len(fees) = 2 OBVIOUS
  <2>2. hop(middles[i]) = [path |-> <<coll.address, stop, debt.address>>, fees |-> fees] OBVIOUS
  <2> HIDE DEF fees, hop, stop
  <2> QED BY <2>1, <2>2 DEF Hop
<1> HIDE DEF all, H
<1>7. /\ Distinct(all) \in Seq(H) /\ IsInjective(Distinct(all))
      /\ \A k \in DOMAIN Distinct(all) : \E i \in DOMAIN all : Distinct(all)[k] = all[i]
  BY <1>5, DistinctOnce
<1> QED BY <1>4, <1>6, <1>7

\* The routers a chain is configured with, repeats of a Solidly router excepted.
IsChain(chain, R) ==
  /\ NoRouter \notin R
  /\ \E n \in Nat : DOMAIN chain.tokens = 1..n
  /\ chain.dex # NoRouter =>
       chain.dex.v2 \in Seq(R) /\ chain.dex.solidly \in Seq(R) /\ IsInjective(chain.dex.solidly)

\* What every option tried keeps to.
OptionFits(option, debt, coll) ==
  /\ option.router # NoRouter
  /\ option.type = "UniV3Multi" =>
       /\ Cardinality(ToSet(option.path)) = 3 /\ Len(option.fees) = 2
       /\ Head(option.path) = coll.address /\ Last(option.path) = debt.address
  /\ (option.type = "UniV3" /\ option.fee = 100) => isStablePair(debt, coll)

\* Options of these kinds, each once.
Among(options, types, debt, coll) ==
  /\ \E S : options \in Seq(S)
  /\ IsInjective(options)
  /\ \A i \in DOMAIN options : options[i].type \in types /\ OptionFits(options[i], debt, coll)

Kind(options, type, debt, coll) == Among(options, {type}, debt, coll)

\* The single pools of Uniswap V3 fit, and differ by their fees.
LEMMA UniV3Kind ==
  ASSUME NEW router, router # NoRouter, NEW debt, NEW coll
  PROVE  Kind(UniV3(router, uniFeesForPair(debt, coll)), "UniV3", debt, coll)
<1> DEFINE fees == uniFeesForPair(debt, coll)
           options == UniV3(router, fees)
<1>1. /\ fees \in Seq(Nat) /\ \A i, j \in DOMAIN fees : fees[i] = fees[j] => i = j
      /\ \A i \in DOMAIN fees : fees[i] = 100 => isStablePair(debt, coll)
  <2>1. CASE isStablePair(debt, coll)
    <3>1. fees = <<100, 500, 3000, 10000>> BY <2>1 DEF uniFeesForPair
    <3> QED BY <3>1, <2>1
  <2>2. CASE ~isStablePair(debt, coll)
    <3>1. fees = <<500, 3000, 10000>> BY <2>2 DEF uniFeesForPair
    <3> QED BY <3>1
  <2> QED BY <2>1, <2>2
<1> HIDE DEF fees
<1>2. Len(fees) \in Nat /\ DOMAIN fees = 1..Len(fees) BY <1>1, LenProperties
<1>3. options = [i \in 1..Len(fees) |-> [type |-> "UniV3", router |-> router, fee |-> fees[i]]] BY <1>2 DEF UniV3
<1>4. options \in Seq({options[i] : i \in 1..Len(fees)}) BY <1>2, <1>3
<1>5. IsInjective(options)
  <2> SUFFICES ASSUME NEW i \in 1..Len(fees), NEW j \in 1..Len(fees), options[i] = options[j] PROVE i = j
    BY <1>3 DEF IsInjective
  <2>1. options[i].fee = fees[i] /\ options[j].fee = fees[j] BY <1>3
  <2> QED BY <1>1, <1>2, <2>1
<1>6. ASSUME NEW i \in DOMAIN options
      PROVE  options[i].type = "UniV3" /\ OptionFits(options[i], debt, coll)
  <2>1. i \in DOMAIN fees /\ options[i] = [type |-> "UniV3", router |-> router, fee |-> fees[i]] BY <1>2, <1>3
  <2>2. options[i].type = "UniV3" /\ options[i].router = router /\ options[i].fee = fees[i] BY <2>1
  <2> HIDE DEF options
  <2> QED BY <1>1, <2>1, <2>2 DEF OptionFits
<1> HIDE DEF options
<1>7. Kind(options, "UniV3", debt, coll) BY <1>4, <1>5, <1>6 DEF Kind, Among
<1> QED BY <1>7 DEF options, fees

\* The paths of Uniswap V3 fit, and differ by their stops.
LEMMA UniV3MultiKind ==
  ASSUME NEW router, router # NoRouter, NEW tokens, NEW n \in Nat, DOMAIN tokens = 1..n, NEW debt, NEW coll
  PROVE  Kind(UniV3Multi(router, multiHopCandidates(tokens, coll, debt)), "UniV3Multi", debt, coll)
<1> DEFINE hops == multiHopCandidates(tokens, coll, debt)
<1>1. PICK S : hops \in Seq(S) BY HopsBuilt
<1>2. IsInjective(hops) /\ \A k \in DOMAIN hops : Hop(coll, debt, hops[k]) BY HopsBuilt
<1> HIDE DEF hops
<1> DEFINE places == {i \in DOMAIN hops : Cardinality(ToSet(hops[i].path)) = Len(hops[i].path)}
           simple == AtPlaces(hops, places)
           option(i) == [type |-> "UniV3Multi", router |-> router, path |-> simple[i].path, fees |-> simple[i].fees]
           options == UniV3Multi(router, hops)
<1>3. Len(hops) \in Nat /\ DOMAIN hops = 1..Len(hops) BY <1>1, LenProperties
<1>4. places \in SUBSET (1..Len(hops)) BY <1>3
<1>5. \A i \in places : i \in DOMAIN hops /\ Cardinality(ToSet(hops[i].path)) = Len(hops[i].path) OBVIOUS
<1>6. options = [i \in DOMAIN simple |-> option(i)] BY DEF UniV3Multi
<1> HIDE DEF places
<1>7. /\ Len(simple) \in Nat /\ simple = [k \in 1..Len(simple) |-> simple[k]]
      /\ \A k \in DOMAIN simple : \E i \in places : simple[k] = hops[i]
  BY <1>3, <1>4, Placed
<1>8. IsInjective(simple)
  <2>1. (\A i, j \in places : hops[i] = hops[j] => i = j) => IsInjective(simple) BY <1>3, <1>4, Placed
  <2>2. \A i, j \in places : hops[i] = hops[j] => i = j BY <1>2, <1>5 DEF IsInjective
  <2> HIDE DEF simple
  <2> QED BY <2>1, <2>2
<1> HIDE DEF simple
<1>9. DOMAIN simple = 1..Len(simple) BY <1>7
<1>10. ASSUME NEW k \in DOMAIN simple
       PROVE  /\ Hop(coll, debt, simple[k]) /\ Cardinality(ToSet(simple[k].path)) = Len(simple[k].path)
  BY <1>2, <1>5, <1>7
<1>11. ASSUME NEW k \in DOMAIN simple
       PROVE  /\ simple[k] = [path |-> simple[k].path, fees |-> simple[k].fees]
              /\ OptionFits(option(k), debt, coll)
  <2>1. PICK stop, fees : simple[k] = [path |-> <<coll.address, stop, debt.address>>, fees |-> fees] /\ Len(fees) = 2
    BY <1>10 DEF Hop
  <2> DEFINE path == <<coll.address, stop, debt.address>>
  <2>2. Len(path) = 3 /\ Head(path) = coll.address /\ Last(path) = debt.address BY DEF Last
  <2>3. simple[k].path = path /\ simple[k].fees = fees BY <2>1
  <2> HIDE DEF path
  <2>4. Cardinality(ToSet(path)) = 3 BY <1>10, <2>2, <2>3
  <2>5. option(k).type = "UniV3Multi" /\ option(k).router = router /\ option(k).path = path /\ option(k).fees = fees
    BY <2>3
  <2> HIDE DEF option
  <2>6. OptionFits(option(k), debt, coll) BY <2>1, <2>2, <2>4, <2>5 DEF OptionFits
  <2> QED BY <2>1, <2>3, <2>6 DEF path
<1>12. options \in Seq({option(k) : k \in 1..Len(simple)})
  <2> HIDE DEF option
  <2> QED BY <1>6, <1>7, <1>9
<1>13. IsInjective(options)
  <2> SUFFICES ASSUME NEW i \in DOMAIN simple, NEW j \in DOMAIN simple, option(i) = option(j) PROVE i = j
    BY <1>6 DEF IsInjective
  <2>1. simple[i].path = simple[j].path /\ simple[i].fees = simple[j].fees OBVIOUS
  <2>2. simple[i] = simple[j] BY <1>11, <2>1, Zenon
  <2> QED BY <1>8, <2>2 DEF IsInjective
<1>14. \A i \in DOMAIN options : options[i].type = "UniV3Multi" /\ OptionFits(options[i], debt, coll)
  <2>1. \A i \in DOMAIN simple : option(i).type = "UniV3Multi" OBVIOUS
  <2> HIDE DEF option
  <2> QED BY <1>6, <1>11, <2>1
<1> HIDE DEF options
<1>15. Kind(options, "UniV3Multi", debt, coll) BY <1>12, <1>13, <1>14 DEF Kind, Among
<1> QED BY <1>15 DEF options, hops

\* The routers of Uniswap V2 fit, each once.
LEMMA UniV2Kind ==
  ASSUME NEW R, NoRouter \notin R, NEW routers \in Seq(R), NEW debt, NEW coll
  PROVE  Kind(UniV2(routers), "UniV2", debt, coll)
<1> DEFINE once == Distinct(routers)
           option(i) == [type |-> "UniV2", router |-> once[i]]
           options == UniV2(routers)
<1>1. once \in Seq(R) /\ IsInjective(once) BY DistinctOnce
<1>2. options = [i \in DOMAIN once |-> option(i)] BY DEF UniV2
<1> HIDE DEF once
<1>3. Len(once) \in Nat /\ DOMAIN once = 1..Len(once) /\ \A i \in DOMAIN once : once[i] \in R BY <1>1, LenProperties
<1>4. options \in Seq({option(i) : i \in DOMAIN once})
  <2> HIDE DEF option
  <2> QED BY <1>2, <1>3
<1>5. IsInjective(options)
  <2> SUFFICES ASSUME NEW i \in DOMAIN once, NEW j \in DOMAIN once, option(i) = option(j) PROVE i = j
    BY <1>2 DEF IsInjective
  <2>1. once[i] = once[j] OBVIOUS
  <2> QED BY <1>1, <2>1 DEF IsInjective
<1>6. \A i \in DOMAIN options : options[i].type = "UniV2" /\ OptionFits(options[i], debt, coll)
  <2>1. \A i \in DOMAIN once : option(i).type = "UniV2" /\ option(i).router \in R BY <1>3
  <2> HIDE DEF option
  <2> QED BY <1>2, <2>1 DEF OptionFits
<1> HIDE DEF options
<1>7. Kind(options, "UniV2", debt, coll) BY <1>4, <1>5, <1>6 DEF Kind, Among
<1> QED BY <1>7 DEF options

\* The two pools of each Solidly router fit, each once.
LEMMA SolidlyKind ==
  ASSUME NEW R, NoRouter \notin R, NEW routers \in Seq(R), IsInjective(routers), NEW debt, NEW coll
  PROVE  Kind(Solidly(routers), "SolidlyV2", debt, coll)
<1> DEFINE of(i) == (i + 1) \div 2
           option(i) == [type |-> "SolidlyV2", router |-> routers[of(i)], stable |-> i % 2 = 1]
           n == 2 * Len(routers)
           options == Solidly(routers)
<1>1. Len(routers) \in Nat /\ DOMAIN routers = 1..Len(routers) /\ \A i \in DOMAIN routers : routers[i] \in R
  BY LenProperties
<1>2. options = [i \in 1..n |-> option(i)] BY DEF Solidly
<1>3. n \in Nat /\ \A i \in 1..n : of(i) \in DOMAIN routers BY <1>1
<1>4. \A i, j \in 1..n : (of(i) = of(j) /\ (i % 2 = 1 <=> j % 2 = 1)) => i = j BY <1>1
<1> HIDE DEF of, n
<1>5. options \in Seq({option(i) : i \in 1..n})
  <2> HIDE DEF option
  <2> QED BY <1>2, <1>3
<1>6. IsInjective(options)
  <2> SUFFICES ASSUME NEW i \in 1..n, NEW j \in 1..n, option(i) = option(j) PROVE i = j
    BY <1>2 DEF IsInjective
  <2>1. routers[of(i)] = routers[of(j)] OBVIOUS
  <2>2. option(i).stable = option(j).stable OBVIOUS
  <2>3. i % 2 = 1 <=> j % 2 = 1 BY <2>2, Zenon
  <2>4. of(i) = of(j) BY <1>3, <2>1 DEF IsInjective
  <2> QED BY <1>4, <2>3, <2>4
<1>7. \A i \in DOMAIN options : options[i].type = "SolidlyV2" /\ OptionFits(options[i], debt, coll)
  <2>1. \A i \in 1..n : option(i).type = "SolidlyV2" /\ option(i).router \in R BY <1>1, <1>3
  <2> HIDE DEF option
  <2> QED BY <1>2, <2>1 DEF OptionFits
<1> HIDE DEF options
<1>8. Kind(options, "SolidlyV2", debt, coll) BY <1>5, <1>6, <1>7 DEF Kind, Among
<1> QED BY <1>8 DEF options

\* Options of some kinds, then of others.
LEMMA Merged ==
  ASSUME NEW a, NEW b, NEW A, NEW B, NEW debt, NEW coll, A \cap B = {},
         Among(a, A, debt, coll), Among(b, B, debt, coll)
  PROVE  Among(a \o b, A \cup B, debt, coll)
<1>1. PICK S : a \in Seq(S) BY DEF Among
<1>2. PICK T : b \in Seq(T) BY DEF Among
<1>3. /\ Len(a) \in Nat /\ DOMAIN a = 1..Len(a) /\ a = [i \in 1..Len(a) |-> a[i]] /\ \A i \in 1..Len(a) : a[i] \in S
      /\ Len(b) \in Nat /\ DOMAIN b = 1..Len(b) /\ b = [i \in 1..Len(b) |-> b[i]] /\ \A i \in 1..Len(b) : b[i] \in T
  BY <1>1, <1>2, LenProperties
<1>4. a \in Seq(S \cup T) /\ b \in Seq(S \cup T)
  <2> DEFINE U == S \cup T
  <2>1. (\A i \in 1..Len(a) : a[i] \in U) /\ (\A i \in 1..Len(b) : b[i] \in U) BY <1>3
  <2> HIDE DEF U
  <2>2. a \in Seq(U) /\ b \in Seq(U) BY <1>3, <2>1
  <2> QED BY <2>2 DEF U
<1>5. /\ IsInjective(a) /\ IsInjective(b)
      /\ \A i \in DOMAIN a : a[i].type \in A /\ OptionFits(a[i], debt, coll)
      /\ \A i \in DOMAIN b : b[i].type \in B /\ OptionFits(b[i], debt, coll)
  BY DEF Among
<1>6. \A i \in DOMAIN a, j \in DOMAIN b : a[i] # b[j] BY <1>5
<1> DEFINE c == a \o b
           U == S \cup T
<1>7. /\ c \in Seq(U) /\ IsInjective(c)
      /\ \A k \in DOMAIN c : (\E i \in DOMAIN a : c[k] = a[i]) \/ (\E j \in DOMAIN b : c[k] = b[j])
  <2> HIDE DEF U
  <2> QED BY <1>4, <1>5, <1>6, Joined DEF U
<1> HIDE DEF c, U
<1>8. \A k \in DOMAIN c : c[k].type \in A \cup B /\ OptionFits(c[k], debt, coll) BY <1>5, <1>7
<1>9. Among(c, A \cup B, debt, coll) BY <1>7, <1>8 DEF Among
<1> QED BY <1>9 DEF c

\* No option at all is of any kind.
LEMMA NoOptions ==
  ASSUME NEW types, NEW debt, NEW coll
  PROVE  Among(<<>>, types, debt, coll)
<1>1. <<>> \in Seq({}) /\ DOMAIN <<>> = {} OBVIOUS
<1> QED BY <1>1 DEF Among, IsInjective

\* No route is tried twice, a hop never comes back to an address it left, the lowest fee
\* is asked only of dollars and pegged pairs, and every router named is among the collected.
THEOREM RoutesBuilt ==
  ASSUME NEW chain, NEW R, IsChain(chain, R), NEW debt, NEW coll
  PROVE  LET options == buildRouteOptions(chain, debt, coll)
         IN /\ IsInjective(options)
            /\ \A i \in DOMAIN options :
                 /\ OptionFits(options[i], debt, coll)
                 /\ options[i].router \in collectRouters(chain, {[debt |-> debt, coll |-> coll]})
<1> DEFINE v3 == IF chain.dex # NoRouter /\ chain.dex.uniV3 # NoRouter THEN chain.dex.uniV3 ELSE chain.uniV3Router
           single == UniV3(v3, uniFeesForPair(debt, coll))
           ours == IF v3 = NoRouter THEN <<>> ELSE single
           hops == UniV3Multi(v3, multiHopCandidates(chain.tokens, coll, debt))
           multi == IF v3 = NoRouter THEN <<>> ELSE hops
           twos == UniV2(chain.dex.v2)
           stables == Solidly(chain.dex.solidly)
           options == buildRouteOptions(chain, debt, coll)
<1>1. options = IF chain.dex = NoRouter THEN ours ELSE ((ours \o multi) \o twos) \o stables
  BY Zenon DEF buildRouteOptions
<1>2. PICK n \in Nat : DOMAIN chain.tokens = 1..n BY DEF IsChain
<1> HIDE DEF v3, options
<1>3. Among(ours, {"UniV3"}, debt, coll)
  <2>1. CASE v3 = NoRouter BY <2>1, NoOptions
  <2>2. CASE v3 # NoRouter
    <3>1. Kind(single, "UniV3", debt, coll) BY <2>2, UniV3Kind
    <3> HIDE DEF single
    <3> QED BY <3>1, <2>2 DEF Kind
  <2> QED BY <2>1, <2>2
<1>4. Among(multi, {"UniV3Multi"}, debt, coll)
  <2>1. CASE v3 = NoRouter BY <2>1, NoOptions
  <2>2. CASE v3 # NoRouter
    <3>1. Kind(hops, "UniV3Multi", debt, coll) BY <1>2, <2>2, UniV3MultiKind
    <3> HIDE DEF hops
    <3> QED BY <3>1, <2>2 DEF Kind
  <2> QED BY <2>1, <2>2
<1> HIDE DEF ours, multi
<1>5. \E types : Among(options, types, debt, coll)
  <2>1. CASE chain.dex = NoRouter BY <1>1, <1>3, <2>1
  <2>2. CASE chain.dex # NoRouter
    <3>1. /\ NoRouter \notin R /\ chain.dex.v2 \in Seq(R) /\ chain.dex.solidly \in Seq(R)
          /\ IsInjective(chain.dex.solidly)
      BY <2>2 DEF IsChain
    <3>2. Among(twos, {"UniV2"}, debt, coll) BY <3>1, UniV2Kind DEF Kind
    <3>3. Among(stables, {"SolidlyV2"}, debt, coll) BY <3>1, SolidlyKind DEF Kind
    <3> HIDE DEF twos, stables
    <3>4. Among(ours \o multi, {"UniV3"} \cup {"UniV3Multi"}, debt, coll) BY <1>3, <1>4, Merged
    <3>5. Among((ours \o multi) \o twos, ({"UniV3"} \cup {"UniV3Multi"}) \cup {"UniV2"}, debt, coll)
      BY <3>2, <3>4, Merged
    <3>6. Among(((ours \o multi) \o twos) \o stables,
                (({"UniV3"} \cup {"UniV3Multi"}) \cup {"UniV2"}) \cup {"SolidlyV2"}, debt, coll)
      BY <3>3, <3>5, Merged
    <3> QED BY <1>1, <2>2, <3>6
  <2> QED BY <2>1, <2>2
<1>6. IsInjective(options) /\ \A i \in DOMAIN options : OptionFits(options[i], debt, coll) BY <1>5 DEF Among
<1>7. \A i \in DOMAIN options : options[i].router \in collectRouters(chain, {[debt |-> debt, coll |-> coll]})
  <2> SUFFICES ASSUME NEW i \in DOMAIN options
               PROVE  options[i].router \in collectRouters(chain, {[debt |-> debt, coll |-> coll]})
    OBVIOUS
  <2> DEFINE market == [debt |-> debt, coll |-> coll]
             tried == UNION {ToSet(buildRouteOptions(chain, m.debt, m.coll)) : m \in {market}}
  <2>1. tried = ToSet(options)
    <3>1. market.debt = debt /\ market.coll = coll OBVIOUS
    <3> HIDE DEF market
    <3> QED BY <3>1 DEF options
  <2>2. options[i] \in tried BY <2>1 DEF ToSet
  <2>3. options[i].router # NoRouter BY <1>6 DEF OptionFits
  <2> DEFINE used == {option.router : option \in tried}
  <2>4. options[i].router \in used BY <2>2
  <2>5. used \ {NoRouter} \subseteq collectRouters(chain, {market})
    <3> HIDE DEF market
    <3> QED BY DEF collectRouters
  <2> HIDE DEF used
  <2> QED BY <2>3, <2>4, <2>5
<1> QED BY <1>6, <1>7 DEF options

\* A finite set is listed in as many places as it has elements.
LEMMA Listed ==
  ASSUME NEW S, IsFiniteSet(S)
  PROVE  Cardinality(S) \in Nat /\ SetToSeq(S) \in [1..Cardinality(S) -> S]
<1>1. Cardinality(S) \in Nat /\ ExistsBijection(1..Cardinality(S), S) BY FS_CardinalityType
<1>2. PICK f \in [1..Cardinality(S) -> S] : IsInjective(f)
  BY <1>1 DEF ExistsBijection, Bijection, Injection, IsInjective
<1>3. SetToSeq(S) \in [1..Cardinality(S) -> S]
  <2>1. SetToSeq(S) = CHOOSE g \in [1..Cardinality(S) -> S] : IsInjective(g) BY DEF SetToSeq
  <2> QED BY <1>2, <2>1, Zenon
<1> QED BY <1>1, <1>3

\* There are finitely many tokens.
LEMMA EntriesFinite == IsFiniteSet(Entries)
<1> DEFINE a == Token("D", "stable", 1)
           b == Token("D.e", "stable", 1)
           c == Token("S", "stable", 2)
           d == Token("E", "weth", 3)
           e == Token("W", "other", 4)
<1>1. IsFiniteSet({}) BY FS_EmptySet
<1>2. IsFiniteSet({} \cup {a}) BY <1>1, FS_AddElement
<1>3. IsFiniteSet(({} \cup {a}) \cup {b}) BY <1>2, FS_AddElement
<1>4. IsFiniteSet((({} \cup {a}) \cup {b}) \cup {c}) BY <1>3, FS_AddElement
<1>5. IsFiniteSet(((({} \cup {a}) \cup {b}) \cup {c}) \cup {d}) BY <1>4, FS_AddElement
<1>6. IsFiniteSet((((({} \cup {a}) \cup {b}) \cup {c}) \cup {d}) \cup {e}) BY <1>5, FS_AddElement
<1>7. Entries = (((({} \cup {a}) \cup {b}) \cup {c}) \cup {d}) \cup {e}
  <2>1. Entries = {a, b, c, d, e} BY Zenon DEF Entries
  <2> HIDE DEF a, b, c, d, e
  <2> QED BY <2>1
<1> QED BY <1>6, <1>7, Zenon

\* A list of tokens has places, and every token of a set one of them.
LEMMA ListsHavePlaces ==
  ASSUME NEW tokens \in TokenLists
  PROVE  \E n \in Nat : DOMAIN tokens = 1..n
<1>1. \A s \in SUBSET Entries : Cardinality(s) \in Nat /\ SetToSeq(s) \in [1..Cardinality(s) -> s]
  BY EntriesFinite, FS_Subset, Listed
<1>2. PICK s \in SUBSET Entries : tokens = SetToSeq(s) \/ tokens = Reverse(SetToSeq(s)) BY Zenon DEF TokenLists
<1> DEFINE list == SetToSeq(s)
           n == Cardinality(s)
<1>3. n \in Nat /\ list \in [1..n -> s] BY <1>1
<1> HIDE DEF list, n
<1>4. DOMAIN list = 1..n /\ Len(list) = n
  <2>1. list \in Seq(s) BY <1>3
  <2> QED BY <1>3, <2>1
<1>5. DOMAIN Reverse(list) = 1..n BY <1>4 DEF Reverse
<1> QED BY <1>2, <1>3, <1>4, <1>5 DEF list

\* The routes asked for are as promised.
LEMMA RoutesAnswered == AskRoutes => decision'.about = "routes" /\ RoutesSound'
<1> SUFFICES ASSUME AskRoutes PROVE decision'.about = "routes" /\ RoutesSound' OBVIOUS
<1>1. PICK tokens \in TokenLists, dex \in Dexes, uniV3Router \in {NoRouter, "v3"} :
        \E debt, coll \in ToSet(tokens) :
          /\ debt.address # coll.address
          /\ LET chain == [tokens |-> tokens, dex |-> dex, uniV3Router |-> uniV3Router]
             IN Decide([about |-> "routes", chain |-> chain, debt |-> debt, coll |-> coll,
                        options |-> buildRouteOptions(chain, debt, coll),
                        fee |-> gapFee(chain, debt, coll),
                        allowed |-> collectRouters(chain, {[debt |-> debt, coll |-> coll]})])
  BY Zenon DEF AskRoutes
<1>2. PICK debt \in ToSet(tokens), coll \in ToSet(tokens) :
        LET chain == [tokens |-> tokens, dex |-> dex, uniV3Router |-> uniV3Router]
        IN Decide([about |-> "routes", chain |-> chain, debt |-> debt, coll |-> coll,
                   options |-> buildRouteOptions(chain, debt, coll),
                   fee |-> gapFee(chain, debt, coll),
                   allowed |-> collectRouters(chain, {[debt |-> debt, coll |-> coll]})])
  BY <1>1, Zenon
<1> DEFINE chain == [tokens |-> tokens, dex |-> dex, uniV3Router |-> uniV3Router]
           options == buildRouteOptions(chain, debt, coll)
           fee == gapFee(chain, debt, coll)
           allowed == collectRouters(chain, {[debt |-> debt, coll |-> coll]})
<1>3. decision' = [about |-> "routes", chain |-> chain, debt |-> debt, coll |-> coll,
                   options |-> options, fee |-> fee, allowed |-> allowed]
  BY <1>2, Zenon DEF Decide
<1>4. IsChain(chain, Routers)
  <2>1. \E n \in Nat : DOMAIN chain.tokens = 1..n BY ListsHavePlaces
  <2>2. ASSUME dex # NoRouter
        PROVE  dex.v2 \in Seq(Routers) /\ dex.solidly \in Seq(Routers) /\ IsInjective(dex.solidly)
    <3>1. dex.v2 \in {<<>>, <<"v2">>, <<"v2", "v2", "sushi">>} /\ dex.solidly \in {<<>>, <<"velo">>}
      BY <2>2 DEF Dexes
    <3>2. <<>> \in Seq(Routers) /\ <<"v2">> \in Seq(Routers) /\ <<"v2", "v2", "sushi">> \in Seq(Routers)
          /\ <<"velo">> \in Seq(Routers)
      BY DEF Routers
    <3>3. IsInjective(<<>>) /\ IsInjective(<<"velo">>)
      <4>1. DOMAIN <<>> = {} OBVIOUS
      <4> QED BY <4>1 DEF IsInjective
    <3> QED BY <3>1, <3>2, <3>3
  <2>3. chain.dex = dex OBVIOUS
  <2> HIDE DEF chain
  <2> QED BY <2>1, <2>2, <2>3, RoutersAssumption DEF IsChain
<1>5. /\ IsInjective(options)
      /\ \A i \in DOMAIN options : OptionFits(options[i], debt, coll) /\ options[i].router \in allowed
  <2> HIDE DEF chain
  <2> QED BY <1>4, RoutesBuilt
<1>6. fee = 100 <=> isStablePair(debt, coll) BY DEF gapFee
<1> HIDE DEF options, fee, allowed, chain
<1>7. /\ decision'.about = "routes" /\ decision'.options = options /\ decision'.fee = fee
      /\ decision'.allowed = allowed /\ decision'.debt = debt /\ decision'.coll = coll
  BY <1>3
<1>8. \A i \in DOMAIN options :
        LET option == options[i]
        IN /\ option.router \in allowed \ {NoRouter}
           /\ option.type = "UniV3Multi" =>
                /\ Cardinality(ToSet(option.path)) = 3 /\ Len(option.fees) = 2
                /\ Head(option.path) = coll.address /\ Last(option.path) = debt.address
           /\ (option.type = "UniV3" /\ option.fee = 100) => isStablePair(debt, coll)
  BY <1>5, Zenon DEF OptionFits
<1> QED BY <1>5, <1>6, <1>7, <1>8, Zenon DEF RoutesSound
-----------------------------------------------------------------------------
(* Prices. *)

Prices == Int \cup {Unpriced, Endless}

\* Tokens as configured: the feeds of the stables, and of wrapped ether, are in dollars.
IsPriced(chain, order) ==
  /\ \A t \in DOMAIN chain :
       /\ chain[t].feed \in BOOLEAN /\ chain[t].usable \in BOOLEAN /\ chain[t].eth \in BOOLEAN /\ chain[t].answer \in Nat
       /\ \A i \in DOMAIN order : chain[t].rate[order[i]] \in Nat
       /\ chain[t].eth => t # "WETH" /\ \A i \in DOMAIN order : order[i] # t
       /\ chain[t].last \in {Unpriced} \cup (Nat \ {0})
  /\ \E n \in Nat : DOMAIN order = 1..n

\* Each price is what asking once more makes of the others.
Agree(chain, order, inner) ==
  \A t \in DOMAIN chain : inner[t] # Endless => priceStep(chain, order, inner)[t] = inner[t]

\* No price is a number that is none.
LEMMA PricesApart == Unpriced \notin Int /\ Endless \notin Int /\ Unpriced # Endless
  BY PricesAssumption

\* A price times a factor is a price, and there is one when there was.
LEMMA TimesTyped ==
  ASSUME NEW price \in Prices, NEW factor \in Int
  PROVE  /\ times(price, factor) \in Prices
         /\ times(price, factor) = Endless <=> price = Endless
         /\ times(price, factor) = Unpriced <=> price = Unpriced
         /\ price \in Int => times(price, factor) = price * factor
<1>1. CASE price \in Int
  <2>1. times(price, factor) = price * factor BY <1>1, PricesApart DEF times
  <2>2. price * factor \in Int BY <1>1
  <2> HIDE DEF times
  <2> QED BY <1>1, <2>1, <2>2, PricesApart DEF Prices
<1>2. CASE price \notin Int
  <2>1. times(price, factor) = price BY <1>2 DEF times, Prices
  <2> QED BY <1>2, <2>1 DEF Prices
<1> QED BY <1>1, <1>2

\* The first stable a token is swapped into that has a price.
First(chain, order, t, inner, i) ==
  /\ i \in Routes(chain, order, t) /\ inner[order[i]] # Unpriced
  /\ \A j \in Routes(chain, order, t) : inner[order[j]] # Unpriced => i <= j

\* A swap is priced through the first stable that has a price.
LEMMA FallbackFirst ==
  ASSUME NEW chain, NEW order, IsPriced(chain, order), NEW t \in DOMAIN chain,
         NEW inner \in [DOMAIN chain -> Prices]
  PROVE  \/ /\ \A i \in Routes(chain, order, t) : inner[order[i]] = Unpriced
            /\ dexFallbackPrice(chain, order, t, inner) = Unpriced
         \/ \E i \in Routes(chain, order, t) :
              /\ First(chain, order, t, inner, i)
              /\ dexFallbackPrice(chain, order, t, inner) = times(inner[order[i]], chain[t].rate[order[i]])
<1> DEFINE found == {i \in Routes(chain, order, t) : inner[order[i]] # Unpriced}
           i == Min(found)
<1>1. dexFallbackPrice(chain, order, t, inner) =
        IF found = {} THEN Unpriced ELSE times(inner[order[i]], chain[t].rate[order[i]])
  BY DEF dexFallbackPrice
<1>2. PICK n \in Nat : DOMAIN order = 1..n BY DEF IsPriced
<1>3. found \in SUBSET (1..n) BY <1>2 DEF Routes, preferredStableSymbols
<1>4. \A k \in Routes(chain, order, t) : k \in found <=> inner[order[k]] # Unpriced OBVIOUS
<1>5. \A k \in found : k \in Routes(chain, order, t) OBVIOUS
<1> HIDE DEF found
<1>6. CASE found = {} BY <1>1, <1>4, <1>6
<1>7. CASE found # {}
  <2>1. i \in found /\ \A k \in found : i <= k
    <3>1. found \in SUBSET Nat BY <1>3
    <3> QED BY <1>7, <3>1, MinIsLeast
  <2> HIDE DEF i
  <2>2. First(chain, order, t, inner, i) BY <1>4, <1>5, <2>1 DEF First
  <2> QED BY <1>1, <1>5, <1>7, <2>1, <2>2
<1> QED BY <1>6, <1>7

\* The guard answers a price where it is given one: the one found, or the one taken last.
LEMMA GuardTyped ==
  ASSUME NEW chain, NEW order, IsPriced(chain, order), NEW t \in DOMAIN chain, NEW price \in Prices
  PROVE  /\ applyVolatilityGuard(chain[t].last, price) \in Prices
         /\ applyVolatilityGuard(chain[t].last, price) = Endless <=> price = Endless
         /\ applyVolatilityGuard(chain[t].last, price) = Unpriced <=> price = Unpriced
<1> DEFINE last == chain[t].last
           shown == applyVolatilityGuard(last, price)
<1>1. last \in {Unpriced} \cup (Nat \ {0}) BY DEF IsPriced
<1> HIDE DEF last
<1>2. CASE price \in {Unpriced, Endless} \/ last = Unpriced
  <2>1. shown = price BY <1>2 DEF applyVolatilityGuard
  <2> QED BY <2>1 DEF last
<1>3. CASE ~(price \in {Unpriced, Endless} \/ last = Unpriced)
  <2>1. price \in Int /\ last \in Int BY <1>1, <1>3 DEF Prices
  <2>2. shown \in {price, last} BY <1>3 DEF applyVolatilityGuard
  <2>3. shown \in Int BY <2>1, <2>2
  <2> HIDE DEF shown
  <2>4. shown \in Prices /\ shown # Endless /\ shown # Unpriced BY <2>3, PricesApart DEF Prices
  <2> QED BY <1>3, <2>4 DEF shown, last
<1> QED BY <1>2, <1>3

\* And it shows the one taken last only if the one found jumps from it.
LEMMA GuardShown ==
  ASSUME NEW chain, NEW order, IsPriced(chain, order), NEW t \in DOMAIN chain, NEW price \in Nat \ {0}
  PROVE  Shown(chain, t, applyVolatilityGuard(chain[t].last, price), price)
<1>1. chain[t].last \in {Unpriced} \cup (Nat \ {0}) BY DEF IsPriced
<1>2. price \notin {Unpriced, Endless} BY PricesApart
<1>3. CASE chain[t].last = Unpriced BY <1>3 DEF applyVolatilityGuard, Shown, Steady
<1>4. CASE chain[t].last \in Nat \ {0}
  <2> DEFINE last == chain[t].last
             far == PriceJump * last
  <2>1. last \in Nat /\ far \in Nat /\ last > 0 BY <1>4, PricesAssumption
  <2>2. chain[t].last # Unpriced BY <1>4, PricesApart
  <2>3. applyVolatilityGuard(last, price) = IF price > 0 /\ (price - last > far \/ last - price > far) THEN last ELSE price
    BY <1>2, <2>2 DEF applyVolatilityGuard
  <2>4. Steady(chain, t, price) <=> (price - last <= far /\ last - price <= far)
    BY <2>2 DEF Steady
  <2> HIDE DEF last, far
  <2>5. (price - last > far \/ last - price > far) <=> ~(price - last <= far /\ last - price <= far) BY <2>1
  <2>6. price > 0 OBVIOUS
  <2> QED BY <2>3, <2>4, <2>5, <2>6 DEF Shown, last
<1> QED BY <1>1, <1>3, <1>4

\* What asking makes of one token's price, and what of that the guard lets through.
LEMMA StepOf ==
  ASSUME NEW chain, NEW order, NEW t \in DOMAIN chain, NEW inner
  PROVE  /\ priceStep(chain, order, inner)[t] = applyVolatilityGuard(chain[t].last, foundPrice(chain, order, t, inner))
         /\ foundPrice(chain, order, t, inner) =
              IF ~Usable(chain, t) THEN dexFallbackPrice(chain, order, t, inner)
              ELSE IF chain[t].eth THEN ethConverted(chain, t, inner) ELSE chain[t].answer
  BY DEF priceStep, foundPrice, Usable

\* What a swap fetches is a price.
LEMMA FallbackTyped ==
  ASSUME NEW chain, NEW order, IsPriced(chain, order), NEW t \in DOMAIN chain, NEW inner \in [DOMAIN chain -> Prices]
  PROVE  dexFallbackPrice(chain, order, t, inner) \in Prices
<1>1. CASE dexFallbackPrice(chain, order, t, inner) = Unpriced BY <1>1 DEF Prices
<1>2. CASE \E i \in Routes(chain, order, t) :
             dexFallbackPrice(chain, order, t, inner) = times(inner[order[i]], chain[t].rate[order[i]])
  <2>1. PICK i \in Routes(chain, order, t) :
           dexFallbackPrice(chain, order, t, inner) = times(inner[order[i]], chain[t].rate[order[i]])
    BY <1>2
  <2>2. order[i] \in DOMAIN chain /\ chain[t].rate[order[i]] \in Int
    BY DEF Routes, preferredStableSymbols, IsPriced
  <2>3. inner[order[i]] \in Prices BY <2>2
  <2> QED BY <2>1, <2>2, <2>3, TimesTyped
<1> QED BY <1>1, <1>2, FallbackFirst

\* A price in ether is a price.
LEMMA EthTyped ==
  ASSUME NEW chain, NEW order, IsPriced(chain, order), NEW t \in DOMAIN chain, NEW inner \in [DOMAIN chain -> Prices]
  PROVE  ethConverted(chain, t, inner) \in Prices
<1>1. CASE "WETH" \in DOMAIN chain /\ chain["WETH"].feed
  <2>1. ethConverted(chain, t, inner) = times(inner["WETH"], chain[t].answer) BY <1>1 DEF ethConverted
  <2>2. inner["WETH"] \in Prices /\ chain[t].answer \in Int BY <1>1 DEF IsPriced
  <2> QED BY <2>1, <2>2, TimesTyped
<1>2. CASE ~("WETH" \in DOMAIN chain /\ chain["WETH"].feed)
  <2>1. ethConverted(chain, t, inner) = Unpriced BY <1>2 DEF ethConverted
  <2> QED BY <2>1 DEF Prices
<1> QED BY <1>1, <1>2

\* What is found is a price.
LEMMA FoundTyped ==
  ASSUME NEW chain, NEW order, IsPriced(chain, order), NEW t \in DOMAIN chain, NEW inner \in [DOMAIN chain -> Prices]
  PROVE  foundPrice(chain, order, t, inner) \in Prices
<1>1. dexFallbackPrice(chain, order, t, inner) \in Prices /\ ethConverted(chain, t, inner) \in Prices
  BY FallbackTyped, EthTyped
<1>2. chain[t].answer \in Prices BY DEF IsPriced, Prices
<1> QED BY <1>1, <1>2, StepOf

\* Asking once more finds prices.
LEMMA StepTyped ==
  ASSUME NEW chain, NEW order, IsPriced(chain, order), NEW inner \in [DOMAIN chain -> Prices]
  PROVE  priceStep(chain, order, inner) \in [DOMAIN chain -> Prices]
<1>1. ASSUME NEW t \in DOMAIN chain PROVE priceStep(chain, order, inner)[t] \in Prices
  <2>1. foundPrice(chain, order, t, inner) \in Prices BY FoundTyped
  <2> QED BY <2>1, GuardTyped, StepOf
<1>2. priceStep(chain, order, inner) = [t \in DOMAIN chain |-> priceStep(chain, order, inner)[t]] BY DEF priceStep
<1> QED BY <1>1, <1>2

\* If asking once more changes no price found, asking twice more changes none either.
LEMMA AgreeStep ==
  ASSUME NEW chain, NEW order, IsPriced(chain, order), NEW inner \in [DOMAIN chain -> Prices],
         Agree(chain, order, inner)
  PROVE  Agree(chain, order, priceStep(chain, order, inner))
<1> DEFINE outer == priceStep(chain, order, inner)
           after == priceStep(chain, order, outer)
<1>1. \A t \in DOMAIN chain : inner[t] # Endless => outer[t] = inner[t] BY DEF Agree
<1>2. outer \in [DOMAIN chain -> Prices] BY StepTyped
<1> SUFFICES ASSUME NEW t \in DOMAIN chain, outer[t] # Endless PROVE after[t] = outer[t] BY DEF Agree
<1> DEFINE found == foundPrice(chain, order, t, inner)
           again == foundPrice(chain, order, t, outer)
<1>3. /\ found = IF ~Usable(chain, t) THEN dexFallbackPrice(chain, order, t, inner)
                 ELSE IF chain[t].eth THEN ethConverted(chain, t, inner) ELSE chain[t].answer
      /\ again = IF ~Usable(chain, t) THEN dexFallbackPrice(chain, order, t, outer)
                 ELSE IF chain[t].eth THEN ethConverted(chain, t, outer) ELSE chain[t].answer
      /\ outer[t] = applyVolatilityGuard(chain[t].last, found)
      /\ after[t] = applyVolatilityGuard(chain[t].last, again)
  BY StepOf
<1>7. found # Endless
  <2>1. found \in Prices BY FoundTyped
  <2> HIDE DEF found, outer
  <2> QED BY <1>3, <2>1, GuardTyped
<1> SUFFICES again = found BY <1>3
<1> HIDE DEF outer, after, found, again
<1>4. CASE ~Usable(chain, t)
  <2>1. /\ found = dexFallbackPrice(chain, order, t, inner)
        /\ again = dexFallbackPrice(chain, order, t, outer)
    BY <1>3, <1>4
  <2>2. \A i \in Routes(chain, order, t) : order[i] \in DOMAIN chain /\ chain[t].rate[order[i]] \in Int
    BY DEF Routes, preferredStableSymbols, IsPriced
  <2>3. CASE \A i \in Routes(chain, order, t) : inner[order[i]] = Unpriced
    <3>1. \A i \in Routes(chain, order, t) : outer[order[i]] = Unpriced BY <1>1, <2>2, <2>3, PricesApart
    <3>2. dexFallbackPrice(chain, order, t, inner) = Unpriced
      BY <2>3, FallbackFirst DEF First
    <3>3. dexFallbackPrice(chain, order, t, outer) = Unpriced
      BY <1>2, <3>1, FallbackFirst DEF First
    <3> QED BY <2>1, <3>2, <3>3
  <2>4. CASE ~\A i \in Routes(chain, order, t) : inner[order[i]] = Unpriced
    <3>1. PICK i \in Routes(chain, order, t) :
             /\ First(chain, order, t, inner, i)
             /\ dexFallbackPrice(chain, order, t, inner) = times(inner[order[i]], chain[t].rate[order[i]])
      BY <2>4, FallbackFirst
    <3>2. inner[order[i]] \in Prices BY <2>2
    <3>3. inner[order[i]] # Endless BY <1>7, <2>1, <2>2, <3>1, <3>2, TimesTyped
    <3>4. outer[order[i]] = inner[order[i]] BY <1>1, <2>2, <3>3
    <3>5. \A j \in Routes(chain, order, t) : inner[order[j]] = Unpriced => outer[order[j]] = Unpriced
      BY <1>1, <2>2, PricesApart
    <3>6. First(chain, order, t, outer, i) /\ outer[order[i]] # Unpriced BY <3>1, <3>4, <3>5 DEF First
    <3>7. PICK j \in Routes(chain, order, t) :
             /\ First(chain, order, t, outer, j)
             /\ dexFallbackPrice(chain, order, t, outer) = times(outer[order[j]], chain[t].rate[order[j]])
      BY <1>2, <3>6, FallbackFirst
    <3>8. i = j
      <4>1. i <= j /\ j <= i BY <3>6, <3>7 DEF First
      <4>2. i \in Nat /\ j \in Nat BY DEF Routes, preferredStableSymbols, IsPriced
      <4> QED BY <4>1, <4>2
    <3> QED BY <2>1, <3>1, <3>4, <3>7, <3>8
  <2> QED BY <2>3, <2>4
<1>5. CASE Usable(chain, t) /\ chain[t].eth
  <2>1. found = ethConverted(chain, t, inner) /\ again = ethConverted(chain, t, outer) BY <1>3, <1>5
  <2>2. CASE "WETH" \in DOMAIN chain /\ chain["WETH"].feed
    <3>1. /\ ethConverted(chain, t, inner) = times(inner["WETH"], chain[t].answer)
          /\ ethConverted(chain, t, outer) = times(outer["WETH"], chain[t].answer)
      BY <2>2 DEF ethConverted
    <3>2. inner["WETH"] \in Prices /\ chain[t].answer \in Int BY <2>2 DEF IsPriced
    <3>3. inner["WETH"] # Endless BY <1>7, <2>1, <3>1, <3>2, TimesTyped
    <3> QED BY <1>1, <2>1, <2>2, <3>1, <3>3
  <2>3. CASE ~("WETH" \in DOMAIN chain /\ chain["WETH"].feed)
    BY <2>1, <2>3 DEF ethConverted
  <2> QED BY <2>2, <2>3
<1>6. CASE Usable(chain, t) /\ ~chain[t].eth
  BY <1>3, <1>6
<1> QED BY <1>4, <1>5, <1>6

\* The prices after so many calls inside each other.
Within(chain, order) ==
  CHOOSE f : f = [calls \in 0..Calls |->
                    IF calls = 0 THEN [t \in DOMAIN chain |-> Endless] ELSE priceStep(chain, order, f[calls - 1])]

\* The prices before any call.
Unasked(chain) == [t \in DOMAIN chain |-> Endless]

\* The prices within so many calls are what as many steps make of none, all typed, each agreeing with the next.
LEMMA WithinCalls ==
  ASSUME NEW chain, NEW order, IsPriced(chain, order)
  PROVE  /\ cachedOraclePrice(chain, order) = Within(chain, order)[Calls]
         /\ \A calls \in 0..Calls : Within(chain, order)[calls] \in [DOMAIN chain -> Prices]
         /\ \A calls \in 0..Calls : Agree(chain, order, Within(chain, order)[calls])
         /\ Within(chain, order)[0] = Unasked(chain)
         /\ \A calls \in 1..Calls :
              Within(chain, order)[calls] = priceStep(chain, order, Within(chain, order)[calls - 1])
<1> DEFINE X == [DOMAIN chain -> Prices]
           base == [t \in DOMAIN chain |-> Endless]
           step == [i \in 1..Calls |-> [inner \in X |-> priceStep(chain, order, inner)]]
           w == Within(chain, order)
<1>1. base \in X BY DEF Prices
<1>2. \A i \in 1..Calls : \A inner \in X : step[i][inner] \in X /\ step[i][inner] = priceStep(chain, order, inner)
  BY StepTyped
<1> HIDE DEF X, base, step
<1>3. Calls \in Nat BY PricesAssumption
<1>4. PICK f : History(f, X, base, Calls, step) BY <1>1, <1>2, <1>3, Iterated DEF Steps
<1>5. f = [calls \in 0..Calls |-> IF calls = 0 THEN base ELSE priceStep(chain, order, f[calls - 1])]
  <2>1. f \in [0..Calls -> X] /\ f[0] = base /\ \A i \in 1..Calls : f[i] = step[i][f[i - 1]] BY <1>4 DEF History
  <2>2. \A i \in 1..Calls : f[i] = priceStep(chain, order, f[i - 1])
    <3> SUFFICES ASSUME NEW i \in 1..Calls PROVE f[i] = priceStep(chain, order, f[i - 1]) OBVIOUS
    <3>1. i - 1 \in 0..Calls BY <1>3
    <3>2. f[i - 1] \in X BY <2>1, <3>1
    <3> QED BY <1>2, <2>1, <3>2
  <2>3. \A i \in 0..Calls : i = 0 \/ i \in 1..Calls BY <1>3
  <2> QED BY <2>1, <2>2, <2>3
<1>6. w = [calls \in 0..Calls |-> IF calls = 0 THEN base ELSE priceStep(chain, order, w[calls - 1])]
  BY <1>5, Zenon DEF Within, base
<1>7. cachedOraclePrice(chain, order) = w[Calls] BY Zenon DEF cachedOraclePrice, Within
<1> HIDE DEF w
<1>8. w[0] = base /\ \A calls \in 1..Calls : w[calls] = priceStep(chain, order, w[calls - 1])
  <2>1. w[0] = base BY <1>3, <1>6
  <2>2. ASSUME NEW calls \in 1..Calls PROVE w[calls] = priceStep(chain, order, w[calls - 1])
    <3>1. calls \in 0..Calls /\ calls # 0 BY <1>3
    <3> QED BY <1>6, <3>1, Zenon
  <2> QED BY <2>1, <2>2
<1> DEFINE Has(n) == w[n] \in X /\ Agree(chain, order, w[n])
           S == {n \in Nat : n <= Calls => Has(n)}
<1>9. 0 \in S
  <2>1. Agree(chain, order, base) BY DEF Agree, base
  <2> QED BY <1>1, <1>8, <2>1
<1>10. \A n \in Nat : n \in S => n + 1 \in S
  <2> SUFFICES ASSUME NEW n \in Nat, Has(n), n + 1 <= Calls PROVE Has(n + 1)
    <3> HIDE DEF Has
    <3> QED BY <1>3
  <2>1. n + 1 \in 1..Calls /\ (n + 1) - 1 = n BY <1>3
  <2>2. w[n + 1] = priceStep(chain, order, w[n]) BY <1>8, <2>1
  <2>3. priceStep(chain, order, w[n]) \in X /\ Agree(chain, order, priceStep(chain, order, w[n]))
    BY StepTyped, AgreeStep DEF X
  <2> QED BY <2>2, <2>3
<1>11. \A n \in 0..Calls : Has(n)
  <2>1. Nat \subseteq S
    <3> HIDE DEF S
    <3> QED BY <1>9, <1>10, NatInductionSet
  <2> HIDE DEF Has
  <2> QED BY <1>3, <2>1
<1> QED BY <1>7, <1>8, <1>11 DEF w, X, base, Unasked

\* A price found is what the others make of it: a token's own answer, that of ether, or
\* what the first stable with a price fetches.  None is left over from a shorter search.
THEOREM PricesAgree ==
  ASSUME NEW chain, NEW order, IsPriced(chain, order)
  PROVE  /\ cachedOraclePrice(chain, order) \in [DOMAIN chain -> Prices]
         /\ Agree(chain, order, cachedOraclePrice(chain, order))
<1> DEFINE w == Within(chain, order)
<1>1. Calls \in 0..Calls BY PricesAssumption
<1>2. /\ cachedOraclePrice(chain, order) = w[Calls]
      /\ \A calls \in 0..Calls : w[calls] \in [DOMAIN chain -> Prices]
      /\ \A calls \in 0..Calls : Agree(chain, order, w[calls])
  BY WithinCalls, Zenon
<1> HIDE DEF w
<1> QED BY <1>1, <1>2

\* A swap into tokens whose search ends is a search that ends.
LEMMA FallbackEnds ==
  ASSUME NEW chain, NEW order, IsPriced(chain, order), NEW t \in DOMAIN chain, NEW inner \in [DOMAIN chain -> Prices],
         \A i \in Routes(chain, order, t) : inner[order[i]] # Endless
  PROVE  dexFallbackPrice(chain, order, t, inner) # Endless
<1>1. CASE dexFallbackPrice(chain, order, t, inner) = Unpriced BY <1>1, PricesApart
<1>2. CASE \E i \in Routes(chain, order, t) :
             dexFallbackPrice(chain, order, t, inner) = times(inner[order[i]], chain[t].rate[order[i]])
  <2>1. PICK i \in Routes(chain, order, t) :
           dexFallbackPrice(chain, order, t, inner) = times(inner[order[i]], chain[t].rate[order[i]])
    BY <1>2
  <2>2. order[i] \in DOMAIN chain /\ chain[t].rate[order[i]] \in Int
    BY DEF Routes, preferredStableSymbols, IsPriced
  <2>3. inner[order[i]] \in Prices BY <2>2
  <2> QED BY <2>1, <2>2, <2>3, TimesTyped
<1> QED BY <1>1, <1>2, FallbackFirst

\* There are two stables in a fixed order.
LEMMA TwoStables ==
  /\ DOMAIN StableOrder = 1..2 /\ StableOrder[1] = "USDbC" /\ StableOrder[2] = "USDC"
  /\ ToSet(StableOrder) = {"USDbC", "USDC"}
<1>1. StableOrder \in Seq({"USDbC", "USDC"}) /\ Len(StableOrder) = 2 BY DEF StableOrder
<1>2. DOMAIN StableOrder = 1..2 BY <1>1
<1>3. StableOrder[1] = "USDbC" /\ StableOrder[2] = "USDC" BY DEF StableOrder
<1> QED BY <1>2, <1>3 DEF ToSet

\* The search for a price ends, unless it runs in a circle.
THEOREM SearchEnds ==
  ASSUME NEW chain, IsPriced(chain, StableOrder), ~Circle(chain), NEW t \in DOMAIN chain
  PROVE  cachedOraclePrice(chain, StableOrder)[t] # Endless
<1> DEFINE w == Within(chain, StableOrder)
           X == [DOMAIN chain -> Prices]
<1>1. Calls \in Nat /\ Calls >= 4 BY PricesAssumption, CallsAssumption
<1>2. /\ \A n \in 0..Calls : w[n] \in X
      /\ \A n \in 1..Calls : w[n] = priceStep(chain, StableOrder, w[n - 1])
      /\ cachedOraclePrice(chain, StableOrder) = w[Calls]
  BY WithinCalls
<1> HIDE DEF w
<1>3. ASSUME NEW u \in DOMAIN chain, NEW n \in 1..Calls
      PROVE  /\ n - 1 \in 0..Calls /\ w[n - 1] \in X
             /\ w[n][u] = Endless <=>
                  (IF ~Usable(chain, u) THEN dexFallbackPrice(chain, StableOrder, u, w[n - 1])
                   ELSE IF chain[u].eth THEN ethConverted(chain, u, w[n - 1]) ELSE chain[u].answer) = Endless
  <2>1. n - 1 \in 0..Calls BY <1>1
  <2>2. w[n - 1] \in X /\ w[n] = priceStep(chain, StableOrder, w[n - 1]) BY <1>2, <2>1
  <2>3. foundPrice(chain, StableOrder, u, w[n - 1]) \in Prices BY <2>2, FoundTyped
  <2>4. w[n][u] = applyVolatilityGuard(chain[u].last, foundPrice(chain, StableOrder, u, w[n - 1])) BY <2>2, StepOf
  <2>5. w[n][u] = Endless <=> foundPrice(chain, StableOrder, u, w[n - 1]) = Endless BY <2>3, <2>4, GuardTyped
  <2> QED BY <2>1, <2>2, <2>5, StepOf
<1>4. ASSUME NEW u \in DOMAIN chain, Usable(chain, u), ~chain[u].eth, NEW n \in 1..Calls
      PROVE  w[n][u] # Endless
  <2>1. w[n][u] = Endless <=> chain[u].answer = Endless BY <1>3, <1>4
  <2>2. chain[u].answer \in Nat BY DEF IsPriced
  <2> QED BY <2>1, <2>2, PricesApart
<1>5. ASSUME NEW u \in DOMAIN chain, ~Usable(chain, u), NEW n \in 1..Calls,
             \A i \in Routes(chain, StableOrder, u) : w[n - 1][StableOrder[i]] # Endless
      PROVE  w[n][u] # Endless
  BY <1>3, <1>5, FallbackEnds
<1>6. ASSUME NEW u \in DOMAIN chain, NEW i \in Routes(chain, StableOrder, u)
      PROVE  /\ StableOrder[i] \in DOMAIN chain /\ StableOrder[i] \in Stables /\ StableOrder[i] # u
             /\ chain[u].rate[StableOrder[i]] > 0
  BY TwoStables DEF Routes, preferredStableSymbols, Stables
<1>7. ASSUME NEW s \in DOMAIN chain, s \in Stables PROVE ~chain[s].eth
  <2>1. \E i \in DOMAIN StableOrder : StableOrder[i] = s BY <1>7, TwoStables DEF Stables
  <2> QED BY <2>1 DEF IsPriced
<1>8. ASSUME NEW s \in DOMAIN chain, s \in Stables, NEW n \in 2..Calls PROVE w[n][s] # Endless
  <2>0. n \in 1..Calls /\ n - 1 \in 1..Calls BY <1>1
  <2>1. CASE Usable(chain, s) BY <1>4, <1>7, <1>8, <2>0, <2>1
  <2>2. CASE ~Usable(chain, s)
    <3>1. ASSUME NEW i \in Routes(chain, StableOrder, s) PROVE w[n - 1][StableOrder[i]] # Endless
      <4> DEFINE o == StableOrder[i]
      <4>1. o \in DOMAIN chain /\ o \in Stables /\ o # s /\ chain[s].rate[o] > 0 BY <1>6
      <4> HIDE DEF o
      <4>2. CASE Usable(chain, o) BY <1>4, <1>7, <2>0, <4>1, <4>2 DEF o
      <4>3. CASE ~Usable(chain, o)
        <5>1. ~(chain[o].rate[s] > 0)
          <6>1. {s, o} \subseteq ToSet(StableOrder) BY <1>8, <4>1, TwoStables DEF Stables
          <6> QED BY <2>2, <4>1, <4>3, <6>1 DEF Circle
        <5>2. Routes(chain, StableOrder, o) = {}
          <6> SUFFICES ASSUME NEW j \in Routes(chain, StableOrder, o) PROVE FALSE OBVIOUS
          <6>1. StableOrder[j] \in Stables /\ StableOrder[j] # o /\ chain[o].rate[StableOrder[j]] > 0
            BY <4>1, <1>6
          <6>2. StableOrder[j] = s BY <1>8, <4>1, <6>1 DEF Stables
          <6> QED BY <5>1, <6>1, <6>2
        <5> QED BY <1>5, <2>0, <4>1, <4>3, <5>2 DEF o
      <4> QED BY <4>2, <4>3
    <3> QED BY <1>5, <2>0, <2>2, <3>1
  <2> QED BY <2>1, <2>2
<1>9. ASSUME NEW u \in DOMAIN chain, ~Usable(chain, u), NEW n \in 3..Calls PROVE w[n][u] # Endless
  <2>0. n \in 1..Calls /\ n - 1 \in 2..Calls BY <1>1
  <2>1. \A i \in Routes(chain, StableOrder, u) : w[n - 1][StableOrder[i]] # Endless BY <1>6, <1>8, <2>0
  <2> QED BY <1>5, <1>9, <2>0, <2>1
<1>10. "WETH" \in DOMAIN chain => \A n \in 3..Calls : w[n]["WETH"] # Endless
  <2> SUFFICES ASSUME "WETH" \in DOMAIN chain, NEW n \in 3..Calls PROVE w[n]["WETH"] # Endless OBVIOUS
  <2>1. ~chain["WETH"].eth BY DEF IsPriced
  <2>2. n \in 1..Calls BY <1>1
  <2> QED BY <1>4, <1>9, <2>1, <2>2
<1>11. Calls \in 1..Calls /\ Calls \in 3..Calls /\ Calls - 1 \in 3..Calls BY <1>1
<1>12. CASE ~Usable(chain, t) BY <1>2, <1>9, <1>11, <1>12
<1>13. CASE Usable(chain, t) /\ ~chain[t].eth BY <1>2, <1>4, <1>11, <1>13
<1>14. CASE Usable(chain, t) /\ chain[t].eth
  <2>1. /\ w[Calls][t] = Endless <=> ethConverted(chain, t, w[Calls - 1]) = Endless
        /\ w[Calls - 1] \in X
    BY <1>3, <1>11, <1>14
  <2>2. CASE "WETH" \in DOMAIN chain /\ chain["WETH"].feed
    <3>1. ethConverted(chain, t, w[Calls - 1]) = times(w[Calls - 1]["WETH"], chain[t].answer) BY <2>2 DEF ethConverted
    <3>2. w[Calls - 1]["WETH"] # Endless BY <1>10, <1>11, <2>2
    <3>3. w[Calls - 1]["WETH"] \in Prices /\ chain[t].answer \in Int BY <2>1, <2>2 DEF IsPriced
    <3> QED BY <1>2, <2>1, <3>1, <3>2, <3>3, TimesTyped
  <2>3. CASE ~("WETH" \in DOMAIN chain /\ chain["WETH"].feed)
    BY <1>2, <2>1, <2>3, PricesApart DEF ethConverted
  <2> QED BY <2>2, <2>3
<1> QED BY <1>12, <1>13, <1>14

\* An allowance is answered as one.
LEMMA AllowTopic == AskAllow => decision'.about = "allow"
<1> SUFFICES ASSUME AskAllow PROVE decision'.about = "allow" OBVIOUS
<1> DEFINE made(answers, first) == ensureRoutersAllowed(<<"r1", "r2", "r3", "r4">>, answers, first)
<1>1. PICK answers \in [1..4 -> RouterAnswers], first \in {5, Failure} :
         decision' = [about |-> "allow", answers |-> answers, first |-> first, made |-> made(answers, first)]
  BY Zenon DEF AskAllow, Decide
<1> HIDE DEF made
<1> QED BY <1>1

\* What the liquidation path does of its own: its routes, its plans and its allowances are sound, whatever is asked.
THEOREM LiquidationIsSound == Spec => []LiquidationSound
<1>1. Init => LiquidationSound
  BY DEF Init, DecisionInit, LiquidationSound, RoutesSound, PlanSound, AllowSound, About
<1>2. LiquidationSound /\ [Next]_vars => LiquidationSound'
  <2> SUFFICES ASSUME LiquidationSound, [Next]_vars PROVE LiquidationSound' OBVIOUS
  <2>1. CASE UNCHANGED decision
    <3>1. decision' = decision BY <2>1
    <3> QED BY <3>1 DEF LiquidationSound, RoutesSound, PlanSound, AllowSound, About
  <2>2. CASE decision' = None
    BY <2>2 DEF LiquidationSound, RoutesSound, PlanSound, AllowSound, About
  <2>3. CASE decision'.about \notin LiquidationTopics
    BY <2>3 DEF LiquidationSound, RoutesSound, PlanSound, AllowSound, About, LiquidationTopics
  <2>4. AskRoutes => LiquidationSound'
    BY RoutesAnswered DEF LiquidationSound, PlanSound, AllowSound, About
  <2>5. AskPlan => LiquidationSound'
    BY PlanAnswered DEF LiquidationSound, RoutesSound, AllowSound, About
  <2>6. AskAllow => LiquidationSound'
    BY AllowTopic, AllowAnswered DEF LiquidationSound, RoutesSound, PlanSound, About
  <2>7. FabricTopics \cap LiquidationTopics = {} /\ ScoresTopics \cap LiquidationTopics = {}
        /\ ExecutionTopics \cap LiquidationTopics = {} /\ PricesTopics \cap LiquidationTopics = {}
        /\ IndexersTopics \cap LiquidationTopics = {}
    BY DEF FabricTopics, LiquidationTopics, ScoresTopics, PricesTopics, IndexersTopics, ExecutionTopics
  <2>8. LiquidationDecides => LiquidationSound' BY <2>4, <2>5, <2>6 DEF LiquidationDecides
  <2> QED BY <2>1, <2>2, <2>3, <2>7, <2>8, StepTopics, FabricAnswers, ScoresAnswers, ExecutionAnswers, PricesAnswers,
             IndexersAnswer, Zenon
<1> QED BY <1>1, <1>2, PTL DEF Spec
-----------------------------------------------------------------------------
(* The price of a token, whatever the chain that is asked. *)

\* The chains the price watcher is asked about.
Asked(chain) ==
  /\ DOMAIN chain \subseteq PricedTokens /\ "T" \in DOMAIN chain /\ "USDC" \in DOMAIN chain
  /\ \A t \in DOMAIN chain :
       /\ chain[t].feed \in BOOLEAN /\ chain[t].usable \in BOOLEAN /\ chain[t].eth \in BOOLEAN
       /\ chain[t].answer = answerOf(t)
       /\ \A s \in Stables : chain[t].rate[s] \in {0, answerOf(t)}
       /\ chain[t].eth => t = "T"
       /\ chain[t].last \in {Unpriced} \cup (IF t \in {"T", "WETH"} THEN {lastOf(t)} ELSE {})

\* The chains asked about are configured as IsPriced says.
LEMMA AskedIsPriced == ASSUME NEW chain, Asked(chain) PROVE IsPriced(chain, StableOrder)
<1>1. \A t : answerOf(t) \in Nat BY DEF answerOf
<1>2. \A i \in DOMAIN StableOrder : StableOrder[i] \in Stables /\ StableOrder[i] # "T" BY TwoStables DEF Stables
<1>3. \A t \in DOMAIN chain : \A i \in DOMAIN StableOrder : chain[t].rate[StableOrder[i]] \in Nat
  <2> SUFFICES ASSUME NEW t \in DOMAIN chain, NEW i \in DOMAIN StableOrder PROVE chain[t].rate[StableOrder[i]] \in Nat
    OBVIOUS
  <2>1. chain[t].rate[StableOrder[i]] \in {0, answerOf(t)} BY <1>2 DEF Asked
  <2> QED BY <1>1, <2>1
<1>4. \E n \in Nat : DOMAIN StableOrder = 1..n BY TwoStables
<1>5. \A t \in DOMAIN chain :
        /\ chain[t].feed \in BOOLEAN /\ chain[t].usable \in BOOLEAN /\ chain[t].eth \in BOOLEAN
        /\ chain[t].answer \in Nat
        /\ chain[t].eth => t = "T"
  BY <1>1 DEF Asked
<1>6. \A t \in DOMAIN chain : chain[t].last \in {Unpriced} \cup (Nat \ {0})
  <2>1. \A t : lastOf(t) \in Nat \ {0} BY DEF lastOf
  <2> QED BY <2>1 DEF Asked
<1> QED BY <1>2, <1>3, <1>4, <1>5, <1>6 DEF IsPriced

\* A stable that has a price is worth a dollar, ether three, or one where that jumps, the token
\* five or as many of ether's, or three where that jumps.
Bounded(chain, priceOf) ==
  /\ \A s \in Stables \cap DOMAIN chain : priceOf[s] \in {1, Unpriced, Endless}
  /\ "WETH" \in DOMAIN chain => priceOf["WETH"] \in {1, 3, Unpriced, Endless}
  /\ priceOf["T"] \in {3, 5, 15, Unpriced, Endless}

\* Asking once more keeps the prices within their bounds.
LEMMA BoundedStep ==
  ASSUME NEW chain, Asked(chain), NEW inner \in [DOMAIN chain -> Prices], Bounded(chain, inner)
  PROVE  Bounded(chain, priceStep(chain, StableOrder, inner))
<1> DEFINE outer == priceStep(chain, StableOrder, inner)
<1>1. IsPriced(chain, StableOrder) BY AskedIsPriced
<1> DEFINE found(t) == foundPrice(chain, StableOrder, t, inner)
<1>2. ASSUME NEW t \in DOMAIN chain
      PROVE  /\ found(t) = IF ~Usable(chain, t) THEN dexFallbackPrice(chain, StableOrder, t, inner)
                           ELSE IF chain[t].eth THEN ethConverted(chain, t, inner) ELSE chain[t].answer
             /\ outer[t] = applyVolatilityGuard(chain[t].last, found(t))
  BY StepOf
<1> HIDE DEF outer, found
<1>3. ASSUME NEW t \in DOMAIN chain, ~Usable(chain, t)
      PROVE  found(t) \in {answerOf(t), Unpriced, Endless}
  <2>0. found(t) = dexFallbackPrice(chain, StableOrder, t, inner) BY <1>2, <1>3
  <2>1. CASE dexFallbackPrice(chain, StableOrder, t, inner) = Unpriced BY <2>0, <2>1
  <2>2. CASE \E i \in Routes(chain, StableOrder, t) :
               dexFallbackPrice(chain, StableOrder, t, inner) = times(inner[StableOrder[i]], chain[t].rate[StableOrder[i]])
    <3>1. PICK i \in Routes(chain, StableOrder, t) :
             dexFallbackPrice(chain, StableOrder, t, inner) = times(inner[StableOrder[i]], chain[t].rate[StableOrder[i]])
      BY <2>2
    <3> DEFINE s == StableOrder[i]
               rate == chain[t].rate[s]
    <3>2. s \in Stables \cap DOMAIN chain /\ rate > 0
      BY TwoStables DEF Routes, preferredStableSymbols, Stables
    <3>3. rate \in {0, answerOf(t)} BY <3>2 DEF Asked
    <3>4. inner[s] \in {1, Unpriced, Endless} BY <3>2 DEF Bounded
    <3>5. found(t) = times(inner[s], rate) BY <2>0, <3>1
    <3> HIDE DEF s, rate
    <3>6. rate = answerOf(t) BY <3>2, <3>3
    <3>7. answerOf(t) \in Int BY DEF answerOf
    <3>8. CASE inner[s] = 1
      <4>1. found(t) = 1 * answerOf(t) BY <3>5, <3>6, <3>8, PricesApart DEF times
      <4> QED BY <3>7, <4>1
    <3>9. CASE inner[s] \in {Unpriced, Endless}
      BY <3>5, <3>9 DEF times
    <3> QED BY <3>4, <3>8, <3>9
  <2> QED BY <1>1, <2>1, <2>2, FallbackFirst
<1>4. ASSUME NEW t \in DOMAIN chain, Usable(chain, t), ~chain[t].eth PROVE found(t) = answerOf(t)
  <2>1. found(t) = chain[t].answer BY <1>2, <1>4
  <2> QED BY <2>1 DEF Asked
<1>5. ASSUME Usable(chain, "T"), chain["T"].eth PROVE found("T") \in {3, 5, 15, Unpriced, Endless}
  <2>1. "T" \in DOMAIN chain /\ chain["T"].answer = 5 BY DEF Asked, answerOf
  <2>2. found("T") = ethConverted(chain, "T", inner) BY <1>2, <1>5, <2>1
  <2>3. CASE "WETH" \in DOMAIN chain /\ chain["WETH"].feed
    <3>1. found("T") = times(inner["WETH"], 5) BY <2>1, <2>2, <2>3 DEF ethConverted
    <3>2. inner["WETH"] \in {1, 3, Unpriced, Endless} BY <2>3 DEF Bounded
    <3> QED BY <3>1, <3>2, PricesApart DEF times
  <2>4. CASE ~("WETH" \in DOMAIN chain /\ chain["WETH"].feed)
    BY <2>2, <2>4 DEF ethConverted
  <2> QED BY <2>3, <2>4
<1>6. ASSUME NEW t \in DOMAIN chain, t # "T" PROVE found(t) \in {answerOf(t), Unpriced, Endless}
  <2>1. ~chain[t].eth BY <1>6 DEF Asked
  <2> QED BY <1>3, <1>4, <2>1
<1>7. ASSUME NEW t \in DOMAIN chain
      PROVE  outer[t] \in {found(t)} \cup (IF t \in {"T", "WETH"} THEN {lastOf(t)} ELSE {})
  <2>1. chain[t].last \in {Unpriced} \cup (IF t \in {"T", "WETH"} THEN {lastOf(t)} ELSE {}) BY DEF Asked
  <2>2. outer[t] = found(t) \/ (chain[t].last # Unpriced /\ outer[t] = chain[t].last)
    BY <1>2, Zenon DEF applyVolatilityGuard
  <2> QED BY <2>1, <2>2
<1>8. ASSUME NEW s \in Stables \cap DOMAIN chain PROVE outer[s] \in {1, Unpriced, Endless}
  <2>1. s \notin {"T", "WETH"} /\ answerOf(s) = 1 BY DEF Stables, answerOf
  <2>2. outer[s] = found(s) BY <1>7, <2>1
  <2> QED BY <1>6, <2>1, <2>2
<1>9. "WETH" \in DOMAIN chain => outer["WETH"] \in {1, 3, Unpriced, Endless}
  <2>1. answerOf("WETH") = 3 /\ lastOf("WETH") = 1 BY DEF answerOf, lastOf
  <2>2. "WETH" \in DOMAIN chain => outer["WETH"] \in {found("WETH"), 1} BY <1>7, <2>1
  <2> QED BY <1>6, <2>1, <2>2
<1>10. outer["T"] \in {3, 5, 15, Unpriced, Endless}
  <2>1. "T" \in DOMAIN chain /\ answerOf("T") = 5 /\ lastOf("T") = 3 BY DEF Asked, answerOf, lastOf
  <2>2. found("T") \in {3, 5, 15, Unpriced, Endless} BY <1>3, <1>4, <1>5, <2>1
  <2>3. outer["T"] \in {found("T"), 3} BY <1>7, <2>1
  <2> QED BY <2>2, <2>3
<1> QED BY <1>8, <1>9, <1>10 DEF outer, Bounded

\* The prices found are within their bounds.
LEMMA PricesBounded ==
  ASSUME NEW chain, Asked(chain) PROVE Bounded(chain, cachedOraclePrice(chain, StableOrder))
<1> DEFINE w == Within(chain, StableOrder)
           X == [DOMAIN chain -> Prices]
<1>1. Calls \in Nat BY PricesAssumption
<1>2. /\ \A n \in 0..Calls : w[n] \in X
      /\ \A n \in 1..Calls : w[n] = priceStep(chain, StableOrder, w[n - 1])
      /\ cachedOraclePrice(chain, StableOrder) = w[Calls]
  <2>1. IsPriced(chain, StableOrder) BY AskedIsPriced
  <2>2. /\ cachedOraclePrice(chain, StableOrder) = Within(chain, StableOrder)[Calls]
        /\ \A calls \in 0..Calls : Within(chain, StableOrder)[calls] \in [DOMAIN chain -> Prices]
        /\ \A calls \in 0..Calls : Agree(chain, StableOrder, Within(chain, StableOrder)[calls])
        /\ Within(chain, StableOrder)[0] = Unasked(chain)
        /\ \A calls \in 1..Calls :
             Within(chain, StableOrder)[calls] = priceStep(chain, StableOrder, Within(chain, StableOrder)[calls - 1])
    BY <2>1, WithinCalls
  <2> QED BY <2>2
<1>3. Bounded(chain, w[0])
  <2>1. 0 \in 0..Calls BY <1>1
  <2>2. w[0] = [t \in DOMAIN chain |-> Endless] BY WithinCalls, AskedIsPriced DEF Unasked
  <2>3. "T" \in DOMAIN chain BY DEF Asked
  <2> HIDE DEF w
  <2> QED BY <2>2, <2>3 DEF Bounded
<1> HIDE DEF w, X
<1> DEFINE Has(n) == Bounded(chain, w[n])
           S == {n \in Nat : n <= Calls => Has(n)}
<1>4. 0 \in S BY <1>3
<1>5. \A n \in Nat : n \in S => n + 1 \in S
  <2> SUFFICES ASSUME NEW n \in Nat, Has(n), n + 1 <= Calls PROVE Has(n + 1)
    <3> HIDE DEF Has
    <3> QED BY <1>1
  <2>1. n + 1 \in 1..Calls /\ (n + 1) - 1 = n /\ n \in 0..Calls BY <1>1
  <2>2. w[n + 1] = priceStep(chain, StableOrder, w[n]) /\ w[n] \in [DOMAIN chain -> Prices] BY <1>2, <2>1 DEF X
  <2> QED BY <2>2, BoundedStep
<1>6. Nat \subseteq S
  <2> HIDE DEF S
  <2> QED BY <1>4, <1>5, NatInductionSet
<1> HIDE DEF Has
<1>7. Has(Calls) BY <1>1, <1>6
<1> QED BY <1>2, <1>7 DEF Has

\* The price watcher is asked about nothing else.
LEMMA ChainAsked ==
  ASSUME NEW usable \in [PricedTokens -> BOOLEAN], NEW eth \in BOOLEAN, NEW wethFeed \in BOOLEAN, NEW routes,
         NEW chainHas \in {PricedTokens, {"T", "USDC"}}, NEW taken \in SUBSET {"T", "WETH"}
  PROVE  Asked(chainOf(usable, eth, wethFeed, routes, chainHas, taken))
<1> DEFINE chain == chainOf(usable, eth, wethFeed, routes, chainHas, taken)
<1>1. chain = [t \in chainHas |->
                 [feed |-> t # "WETH" \/ wethFeed, usable |-> usable[t], eth |-> t = "T" /\ eth, answer |-> answerOf(t),
                  rate |-> [s \in Stables |-> IF <<t, s>> \in routes THEN answerOf(t) ELSE 0],
                  last |-> IF t \in taken THEN lastOf(t) ELSE Unpriced]]
  BY Zenon DEF chainOf
<1> HIDE DEF chain
<1>2. DOMAIN chain = chainHas BY <1>1
<1>3. chainHas \subseteq PricedTokens /\ "T" \in chainHas /\ "USDC" \in chainHas BY DEF PricedTokens
<1>4. ASSUME NEW t \in DOMAIN chain
      PROVE  /\ chain[t].feed \in BOOLEAN /\ chain[t].usable \in BOOLEAN /\ chain[t].eth \in BOOLEAN
             /\ chain[t].answer = answerOf(t)
             /\ chain[t].rate = [s \in Stables |-> IF <<t, s>> \in routes THEN answerOf(t) ELSE 0]
             /\ chain[t].eth => t = "T"
             /\ chain[t].last \in {Unpriced} \cup (IF t \in {"T", "WETH"} THEN {lastOf(t)} ELSE {})
  <2>1. chain[t] = [feed |-> t # "WETH" \/ wethFeed, usable |-> usable[t], eth |-> t = "T" /\ eth, answer |-> answerOf(t),
                    rate |-> [s \in Stables |-> IF <<t, s>> \in routes THEN answerOf(t) ELSE 0],
                    last |-> IF t \in taken THEN lastOf(t) ELSE Unpriced]
    BY <1>1, <1>2, Zenon
  <2>2. usable[t] \in BOOLEAN BY <1>2, <1>3
  <2> DEFINE feed == t # "WETH" \/ wethFeed
             inEther == t = "T" /\ eth
             rate == [s \in Stables |-> IF <<t, s>> \in routes THEN answerOf(t) ELSE 0]
             last == IF t \in taken THEN lastOf(t) ELSE Unpriced
  <2>3. feed \in BOOLEAN /\ inEther \in BOOLEAN /\ (inEther => t = "T") OBVIOUS
  <2>7. last \in {Unpriced} \cup (IF t \in {"T", "WETH"} THEN {lastOf(t)} ELSE {}) OBVIOUS
  <2>4. chain[t] = [feed |-> feed, usable |-> usable[t], eth |-> inEther, answer |-> answerOf(t), rate |-> rate,
                    last |-> last]
    BY <2>1, Zenon
  <2>5. chain[t].rate = rate
    <3> HIDE DEF feed, inEther, rate, last
    <3> QED BY <2>4
  <2>6. /\ chain[t].feed = feed /\ chain[t].usable = usable[t] /\ chain[t].eth = inEther
        /\ chain[t].answer = answerOf(t) /\ chain[t].last = last
    <3> HIDE DEF feed, inEther, rate, last
    <3> QED BY <2>4
  <2> HIDE DEF feed, inEther, last
  <2>8. chain[t].last \in {Unpriced} \cup (IF t \in {"T", "WETH"} THEN {lastOf(t)} ELSE {}) BY <2>6, <2>7
  <2>9. /\ chain[t].feed \in BOOLEAN /\ chain[t].usable \in BOOLEAN /\ chain[t].eth \in BOOLEAN
        /\ chain[t].answer = answerOf(t) /\ (chain[t].eth => t = "T")
    BY <2>2, <2>3, <2>6, Zenon
  <2> QED BY <2>5, <2>8, <2>9
<1>5. ASSUME NEW t \in DOMAIN chain, NEW s \in Stables PROVE chain[t].rate[s] \in {0, answerOf(t)}
  <2>1. chain[t].rate = [u \in Stables |-> IF <<t, u>> \in routes THEN answerOf(t) ELSE 0] BY <1>4, Zenon
  <2> QED BY <2>1
<1> QED BY <1>2, <1>3, <1>4, <1>5 DEF Asked, chain

\* What a price is, of any chain the watcher may be asked about.
LEMMA PriceOfAsked ==
  ASSUME NEW chain, Asked(chain), NEW price, price = cachedOraclePrice(chain, StableOrder), NEW t \in DOMAIN chain
  PROVE  /\ price[t] \in Prices
         /\ price[t] = Endless => Circle(chain)
         /\ Dollars(chain, t) => Shown(chain, t, price[t], chain[t].answer) /\ price[t] \in Int
         /\ price[t] # Endless => priceStep(chain, StableOrder, price)[t] = price[t]
<1>1. IsPriced(chain, StableOrder) BY AskedIsPriced
<1>2. price \in [DOMAIN chain -> Prices] /\ Agree(chain, StableOrder, price) BY <1>1, PricesAgree
<1>3. price[t] = Endless => Circle(chain) BY <1>1, SearchEnds
<1>4. ASSUME Dollars(chain, t) PROVE Shown(chain, t, price[t], chain[t].answer) /\ price[t] \in Int
  <2> DEFINE w == Within(chain, StableOrder)
  <2>1. /\ cachedOraclePrice(chain, StableOrder) = w[Calls]
        /\ \A n \in 1..Calls : w[n] = priceStep(chain, StableOrder, w[n - 1])
    BY <1>1, WithinCalls
  <2> HIDE DEF w
  <2>2. Calls \in 1..Calls BY PricesAssumption, CallsAssumption
  <2>3. price = priceStep(chain, StableOrder, w[Calls - 1]) BY <2>1, <2>2
  <2>4. price[t] = applyVolatilityGuard(chain[t].last, chain[t].answer) BY <1>4, <2>3, StepOf DEF Dollars
  <2>5. chain[t].answer \in Nat \ {0} BY DEF Asked, answerOf
  <2>6. price[t] # Endless /\ price[t] # Unpriced
    <3>1. chain[t].answer \in Prices /\ chain[t].answer # Endless /\ chain[t].answer # Unpriced
      BY <2>5, PricesApart DEF Prices
    <3> QED BY <1>1, <2>4, <3>1, GuardTyped
  <2> QED BY <1>1, <1>2, <2>4, <2>5, <2>6, GuardShown DEF Prices
<1> QED BY <1>2, <1>3, <1>4 DEF Agree

\* A stable a token is routed to, and a route to a stable.
LEMMA RouteTo ==
  ASSUME NEW chain, NEW t
  PROVE  /\ \A i \in Routes(chain, StableOrder, t) :
              /\ StableOrder[i] \in ToSet(StableOrder) \cap DOMAIN chain /\ StableOrder[i] # t
              /\ chain[t].rate[StableOrder[i]] > 0
         /\ \A s \in ToSet(StableOrder) \cap DOMAIN chain :
              s # t /\ chain[t].rate[s] > 0 => \E i \in Routes(chain, StableOrder, t) : StableOrder[i] = s
<1>1. \A s \in ToSet(StableOrder) : \E i \in DOMAIN StableOrder : StableOrder[i] = s BY TwoStables
<1>2. \A i \in DOMAIN StableOrder : StableOrder[i] \in ToSet(StableOrder) BY TwoStables
<1> QED BY <1>1, <1>2 DEF Routes, preferredStableSymbols

\* A token without a usable answer has the price it fetches in a stable that has one, and
\* has one if it is routed to a stable that answers in dollars.
LEMMA SwappedPrice ==
  ASSUME NEW chain, Asked(chain), NEW price, price = cachedOraclePrice(chain, StableOrder),
         NEW t \in DOMAIN chain, ~Usable(chain, t)
  PROVE  /\ price[t] \notin {Unpriced, Endless} =>
              \E s \in ToSet(StableOrder) \cap DOMAIN chain :
                /\ s # t /\ chain[t].rate[s] > 0 /\ price[s] # Unpriced
                /\ Shown(chain, t, price[t], price[s] * chain[t].rate[s])
         /\ (\E s \in ToSet(StableOrder) \cap DOMAIN chain : s # t /\ chain[t].rate[s] > 0 /\ Dollars(chain, s)) =>
              price[t] # Unpriced
<1> DEFINE routes == Routes(chain, StableOrder, t)
           fetched(i) == times(price[StableOrder[i]], chain[t].rate[StableOrder[i]])
<1>1. IsPriced(chain, StableOrder) BY AskedIsPriced
<1>2. price \in [DOMAIN chain -> Prices] BY <1>1, PricesAgree
<1> DEFINE found == dexFallbackPrice(chain, StableOrder, t, price)
<1>3. price[t] # Endless => price[t] = applyVolatilityGuard(chain[t].last, found)
  <2>1. priceStep(chain, StableOrder, price)[t] = applyVolatilityGuard(chain[t].last, found) BY StepOf
  <2> QED BY <2>1, PriceOfAsked
<1>9. price[t] # Endless => found # Endless /\ (found = Unpriced <=> price[t] = Unpriced)
  <2>1. found \in Prices BY <1>1, <1>2, FallbackTyped
  <2> HIDE DEF found
  <2> QED BY <1>1, <1>3, <2>1, GuardTyped
<1>4. \A i \in routes : /\ StableOrder[i] \in ToSet(StableOrder) \cap DOMAIN chain /\ StableOrder[i] # t
                        /\ chain[t].rate[StableOrder[i]] > 0
  BY RouteTo
<1>5. \A i \in routes : price[StableOrder[i]] \in Prices /\ chain[t].rate[StableOrder[i]] \in Int
  <2>1. \A i \in routes : i \in DOMAIN StableOrder BY DEF Routes, preferredStableSymbols
  <2>2. \A i \in DOMAIN StableOrder : chain[t].rate[StableOrder[i]] \in Nat BY <1>1 DEF IsPriced
  <2> QED BY <1>2, <1>4, <2>1, <2>2
<1>6. \/ /\ \A i \in routes : price[StableOrder[i]] = Unpriced
         /\ dexFallbackPrice(chain, StableOrder, t, price) = Unpriced
      \/ \E i \in routes : /\ price[StableOrder[i]] # Unpriced
                           /\ dexFallbackPrice(chain, StableOrder, t, price) = fetched(i)
  BY <1>1, <1>2, FallbackFirst DEF First
<1> HIDE DEF routes
<1>7. ASSUME price[t] \notin {Unpriced, Endless}
      PROVE  \E s \in ToSet(StableOrder) \cap DOMAIN chain :
               /\ s # t /\ chain[t].rate[s] > 0 /\ price[s] # Unpriced
               /\ Shown(chain, t, price[t], price[s] * chain[t].rate[s])
  <2>1. PICK i \in routes : price[StableOrder[i]] # Unpriced /\ found = fetched(i) BY <1>6, <1>7, <1>9
  <2>2. price[StableOrder[i]] \in Int BY <1>5, <1>7, <1>9, <2>1, TimesTyped DEF Prices
  <2>3. price[StableOrder[i]] = 1
    <3>1. StableOrder[i] \in Stables \cap DOMAIN chain BY <1>4, <2>1, TwoStables DEF Stables
    <3>2. Bounded(chain, price) BY PricesBounded
    <3> QED BY <2>2, <3>1, <3>2, PricesApart DEF Bounded
  <2>4. found = price[StableOrder[i]] * chain[t].rate[StableOrder[i]] BY <1>5, <2>1, <2>2, TimesTyped
  <2>5. found \in Nat \ {0} BY <1>4, <1>5, <2>3, <2>4
  <2> HIDE DEF found
  <2>6. Shown(chain, t, price[t], found) BY <1>1, <1>3, <1>7, <2>5, GuardShown
  <2> QED BY <1>4, <2>1, <2>4, <2>6
<1>8. ASSUME NEW s \in ToSet(StableOrder) \cap DOMAIN chain, s # t, chain[t].rate[s] > 0, Dollars(chain, s)
      PROVE  price[t] # Unpriced
  <2>1. PICK i \in routes : StableOrder[i] = s BY <1>8, RouteTo DEF routes
  <2>2. price[s] \in Int BY <1>8, PriceOfAsked
  <2>4. price[StableOrder[i]] # Unpriced BY <2>1, <2>2, PricesApart
  <2>5. PICK j \in routes : /\ price[StableOrder[j]] # Unpriced
                            /\ dexFallbackPrice(chain, StableOrder, t, price) = fetched(j)
    BY <1>6, <2>4
  <2>6. fetched(j) # Unpriced BY <1>5, <2>5, TimesTyped
  <2> QED BY <1>9, <2>5, <2>6, PricesApart
<1> QED BY <1>7, <1>8

\* A token whose feed is in ether has the price of ether in it, or none.
LEMMA EtherPrice ==
  ASSUME NEW chain, Asked(chain), NEW price, price = cachedOraclePrice(chain, StableOrder),
         NEW t \in DOMAIN chain, Usable(chain, t), chain[t].eth
  PROVE  \/ price[t] = Endless
         \/ price[t] = Unpriced /\ ("WETH" \notin DOMAIN chain \/ ~chain["WETH"].feed \/ price["WETH"] = Unpriced)
         \/ price[t] # Unpriced /\ "WETH" \in DOMAIN chain /\ Shown(chain, t, price[t], price["WETH"] * chain[t].answer)
<1>1. IsPriced(chain, StableOrder) BY AskedIsPriced
<1> SUFFICES ASSUME price[t] # Endless
             PROVE  \/ price[t] = Unpriced /\ ("WETH" \notin DOMAIN chain \/ ~chain["WETH"].feed \/ price["WETH"] = Unpriced)
                    \/ price[t] # Unpriced /\ "WETH" \in DOMAIN chain /\ Shown(chain, t, price[t], price["WETH"] * chain[t].answer)
  OBVIOUS
<1> DEFINE found == ethConverted(chain, t, price)
<1>2. price[t] = applyVolatilityGuard(chain[t].last, found)
  <2>1. priceStep(chain, StableOrder, price)[t] = applyVolatilityGuard(chain[t].last, found) BY StepOf
  <2> QED BY <2>1, PriceOfAsked
<1>5. found # Endless /\ (found = Unpriced <=> price[t] = Unpriced)
  <2>1. price \in [DOMAIN chain -> Prices] BY <1>1, PricesAgree
  <2>2. found \in Prices BY <1>1, <2>1, EthTyped
  <2> HIDE DEF found
  <2> QED BY <1>1, <1>2, <2>2, GuardTyped
<1>3. CASE ~("WETH" \in DOMAIN chain /\ chain["WETH"].feed)
  <2>1. found = Unpriced BY <1>3 DEF ethConverted
  <2> QED BY <1>3, <1>5, <2>1
<1>4. CASE "WETH" \in DOMAIN chain /\ chain["WETH"].feed
  <2>1. found = times(price["WETH"], chain[t].answer) BY <1>4 DEF ethConverted
  <2>2. price["WETH"] \in Prices BY <1>4, PriceOfAsked
  <2>3. chain[t].answer \in Nat \ {0} BY DEF Asked, answerOf
  <2>4. price["WETH"] # Endless BY <1>5, <2>1, <2>2, <2>3, TimesTyped
  <2>5. CASE price["WETH"] = Unpriced BY <1>5, <2>1, <2>2, <2>3, <2>5, TimesTyped
  <2>6. CASE price["WETH"] \in Int
    <3>1. found = price["WETH"] * chain[t].answer BY <2>1, <2>2, <2>3, <2>6, TimesTyped
    <3>2. price["WETH"] \in {1, 3}
      <4>1. Bounded(chain, price) BY PricesBounded
      <4> QED BY <1>4, <2>6, <4>1, PricesApart DEF Bounded
    <3>3. found \in Nat \ {0} BY <2>3, <3>1, <3>2
    <3> HIDE DEF found
    <3>4. Shown(chain, t, price[t], found) BY <1>1, <1>2, <3>3, GuardShown
    <3>5. price[t] # Unpriced BY <1>5, <3>3, PricesApart
    <3> QED BY <1>4, <3>1, <3>4, <3>5
  <2> QED BY <2>2, <2>4, <2>5, <2>6 DEF Prices
<1> QED BY <1>3, <1>4

\* A gap needs a price of the collateral and a quote, and none is no difference at all.
LEMMA GapOfPrices ==
  ASSUME NEW coll \in {3, 5, 15, Unpriced}, NEW debt \in {1, Unpriced}, NEW quote \in {0, 5, 6}
  PROVE  LET gap == oracleDexGapBps(coll, debt, quote)
         IN /\ gap > 0 => coll # Unpriced /\ quote > 0
            /\ (gap = 0 /\ quote > 0 /\ coll # Unpriced /\ debt # Unpriced) => quote * debt = coll
<1> DEFINE gap == oracleDexGapBps(coll, debt, quote)
<1>1. CASE quote = 0 \/ coll = Unpriced BY <1>1 DEF oracleDexGapBps
<1>2. CASE quote # 0 /\ coll # Unpriced
  <2>1. gap = IF quote > coll THEN (20000 * (quote - coll) + coll) \div (2 * coll)
              ELSE (20000 * (coll - quote) + coll) \div (2 * coll)
    BY <1>2, PricesApart, SMT DEF oracleDexGapBps
  <2> HIDE DEF gap
  <2>2. coll \in {3, 5, 15} /\ quote \in {5, 6} BY <1>2
  <2> QED BY <1>2, <2>1, <2>2, SMT DEF gap
<1> QED BY <1>1, <1>2

\* The answer to a question for a price is sound.
LEMMA PriceMade ==
  ASSUME NEW chain, Asked(chain), NEW quote \in {0, 5, 6}, AnswerPrice(chain, quote)
  PROVE  PriceSound'
<1> DEFINE price == cachedOraclePrice(chain, StableOrder)
           gap == IF Endless \in {price["T"], price["USDC"]} THEN 0
                  ELSE oracleDexGapBps(price["T"], price["USDC"], quote)
<1>1. decision' = [about |-> "price", chain |-> chain, price |-> price, gap |-> gap, quote |-> quote]
  BY Zenon DEF AnswerPrice, Decide
<1>2. ASSUME NEW t \in DOMAIN chain PROVE IsPriceOf(chain, price, t)
  <2>1. price[t] = Endless => Circle(chain) BY PriceOfAsked
  <2>2. Dollars(chain, t) => Shown(chain, t, price[t], chain[t].answer) BY PriceOfAsked
  <2> HIDE DEF price
  <2>3. ~Usable(chain, t) =>
          /\ price[t] \notin {Unpriced, Endless} =>
               \E s \in ToSet(StableOrder) \cap DOMAIN chain :
                 /\ s # t /\ chain[t].rate[s] > 0 /\ price[s] # Unpriced
                 /\ Shown(chain, t, price[t], price[s] * chain[t].rate[s])
          /\ (\E s \in ToSet(StableOrder) \cap DOMAIN chain : s # t /\ chain[t].rate[s] > 0 /\ Dollars(chain, s)) =>
               price[t] # Unpriced
    BY SwappedPrice DEF price
  <2>4. (Usable(chain, t) /\ chain[t].eth) =>
          \/ price[t] = Endless
          \/ price[t] = Unpriced /\ ("WETH" \notin DOMAIN chain \/ ~chain["WETH"].feed \/ price["WETH"] = Unpriced)
          \/ price[t] # Unpriced /\ "WETH" \in DOMAIN chain /\ Shown(chain, t, price[t], price["WETH"] * chain[t].answer)
    BY EtherPrice DEF price
  <2> QED BY <2>1, <2>2, <2>3, <2>4, Zenon DEF IsPriceOf
<1>3. price["T"] \in {3, 5, 15, Unpriced, Endless} /\ price["USDC"] \in {1, Unpriced, Endless}
  <2>1. Bounded(chain, price) BY PricesBounded
  <2>2. "USDC" \in Stables \cap DOMAIN chain BY DEF Asked, Stables
  <2> HIDE DEF price
  <2> QED BY <2>1, <2>2 DEF Bounded
<1> HIDE DEF price
<1>4. IsGapOf(price, quote, gap)
  <2>1. CASE Endless \in {price["T"], price["USDC"]}
    BY <2>1 DEF IsGapOf
  <2>2. CASE Endless \notin {price["T"], price["USDC"]}
    <3>1. price["T"] \in {3, 5, 15, Unpriced} /\ price["USDC"] \in {1, Unpriced} BY <1>3, <2>2
    <3>2. gap = oracleDexGapBps(price["T"], price["USDC"], quote) BY <2>2
    <3> HIDE DEF gap
    <3> QED BY <3>1, <3>2, GapOfPrices DEF IsGapOf
  <2> QED BY <2>1, <2>2
<1> HIDE DEF gap
<1>5. decision'.chain = chain /\ decision'.price = price /\ decision'.gap = gap /\ decision'.quote = quote BY <1>1
<1> QED BY <1>2, <1>4, <1>5, Zenon DEF PriceSound

\* The price watcher's answer on a price is sound.
LEMMA PriceAnswered == AskPrice => decision'.about = "price" /\ PriceSound'
<1>1. ASSUME NEW chain, Asked(chain), NEW quote \in {0, 5, 6}, AnswerPrice(chain, quote)
      PROVE  decision'.about = "price" /\ PriceSound'
  <2>1. decision'.about = "price" BY <1>1, SMT DEF AnswerPrice, Decide
  <2>2. PriceSound' BY <1>1, PriceMade
  <2> QED BY <2>1, <2>2
<1> SUFFICES ASSUME AskPrice PROVE decision'.about = "price" /\ PriceSound' OBVIOUS
<1>2. PICK usable \in [PricedTokens -> BOOLEAN], eth \in BOOLEAN, wethFeed \in BOOLEAN,
           routes \in SUBSET {<<"T", "USDbC">>, <<"T", "USDC">>, <<"USDbC", "USDC">>,
                              <<"USDC", "USDbC">>, <<"WETH", "USDC">>},
           chainHas \in {PricedTokens, {"T", "USDC"}}, quote \in {0, 5, 6}, taken \in SUBSET {"T", "WETH"} :
        /\ quote = 5 \/ routes = {}
        /\ AnswerPrice(chainOf(usable, eth, wethFeed, routes, chainHas, taken), quote)
  BY Zenon DEF AskPrice
<1> DEFINE chain == chainOf(usable, eth, wethFeed, routes, chainHas, taken)
<1>3. Asked(chain) BY ChainAsked, Zenon
<1> HIDE DEF chain
<1>4. AnswerPrice(chain, quote) BY <1>2 DEF chain
<1> QED BY <1>1, <1>3, <1>4
-----------------------------------------------------------------------------
(* The cache of routes. *)

CacheEvents == {"ask", "route", "null", "reject", "tick"}
RoutesKept == {"route", "null", "failed"}
KeptFor(value) == IF value = "failed" THEN RouteErrorTtl ELSE RouteTtl

\* An entry of the cache, and what was last served from it.
Entry == [value : RoutesKept, readAt : Int, expires : Int, pending : BOOLEAN, served : RoutesKept, servedAge : Int,
          now : Int]

\* An entry expires within the time of what it holds, and what was served was within its own.
InTime(entry) ==
  /\ entry \in Entry
  /\ entry.expires <= entry.readAt + KeptFor(entry.value)
  /\ entry.servedAge < KeptFor(entry.served)

\* Setting one field of an entry leaves the others.
LEMMA EntrySet ==
  ASSUME NEW entry \in Entry
  PROVE  /\ \A v \in Int : LET to == [entry EXCEPT !.now = v]
                           IN /\ to \in Entry /\ to.value = entry.value /\ to.readAt = entry.readAt
                              /\ to.expires = entry.expires /\ to.served = entry.served
                              /\ to.servedAge = entry.servedAge
         /\ \A v \in BOOLEAN : LET to == [entry EXCEPT !.pending = v]
                               IN /\ to \in Entry /\ to.value = entry.value /\ to.readAt = entry.readAt
                                  /\ to.expires = entry.expires /\ to.served = entry.served
                                  /\ to.servedAge = entry.servedAge /\ to.now = entry.now
  BY DEF Entry

\* What serving and keeping a route set.
Serves(entry, value, age, to) == to = [entry EXCEPT !.served = value, !.servedAge = age]
Keeps(entry, value, readAt, expires, to) ==
  to = [entry EXCEPT !.value = value, !.readAt = readAt, !.expires = expires, !.pending = FALSE]

\* A route is served.
LEMMA EntryServes ==
  ASSUME NEW entry \in Entry, NEW value \in RoutesKept, NEW age \in Int,
         NEW to, Serves(entry, value, age, to)
  PROVE  /\ to \in Entry /\ to.value = entry.value /\ to.readAt = entry.readAt
         /\ to.expires = entry.expires /\ to.served = value /\ to.servedAge = age
<1> DEFINE one == [entry EXCEPT !.served = value]
           two == [one EXCEPT !.servedAge = age]
<1>1. /\ one \in Entry /\ one.value = entry.value /\ one.readAt = entry.readAt
      /\ one.expires = entry.expires /\ one.served = value
  BY DEF Entry
<1> HIDE DEF one
<1>2. /\ two \in Entry /\ two.value = one.value /\ two.readAt = one.readAt
      /\ two.expires = one.expires /\ two.served = one.served /\ two.servedAge = age
  BY <1>1 DEF Entry
<1> HIDE DEF two
<1>3. to = two BY Zenon DEF one, two, Serves
<1> QED BY <1>1, <1>2, <1>3

\* An answer is kept.
LEMMA EntryKeeps ==
  ASSUME NEW entry \in Entry, NEW value \in RoutesKept, NEW readAt \in Int, NEW expires \in Int,
         NEW to, Keeps(entry, value, readAt, expires, to)
  PROVE  /\ to \in Entry /\ to.value = value /\ to.readAt = readAt /\ to.expires = expires
         /\ to.served = entry.served /\ to.servedAge = entry.servedAge
<1> DEFINE one == [entry EXCEPT !.value = value]
           two == [one EXCEPT !.readAt = readAt]
           three == [two EXCEPT !.expires = expires]
           four == [three EXCEPT !.pending = FALSE]
<1>1. one \in Entry /\ one.value = value /\ one.served = entry.served /\ one.servedAge = entry.servedAge
  BY DEF Entry
<1> HIDE DEF one
<1>2. /\ two \in Entry /\ two.value = one.value /\ two.readAt = readAt /\ two.served = one.served
      /\ two.servedAge = one.servedAge
  BY <1>1 DEF Entry
<1> HIDE DEF two
<1>3. /\ three \in Entry /\ three.value = two.value /\ three.readAt = two.readAt /\ three.expires = expires
      /\ three.served = two.served /\ three.servedAge = two.servedAge
  BY <1>2 DEF Entry
<1> HIDE DEF three
<1>4. /\ four \in Entry /\ four.value = three.value /\ four.readAt = three.readAt /\ four.expires = three.expires
      /\ four.served = three.served /\ four.servedAge = three.servedAge
  BY <1>3 DEF Entry
<1> HIDE DEF four
<1>5. to = four
  BY Zenon DEF Keeps, one, two, three, four
<1> QED BY <1>1, <1>2, <1>3, <1>4, <1>5

\* Whatever happens next, the cache stays within its times.
LEMMA CacheStep ==
  ASSUME NEW entry, InTime(entry), NEW event \in CacheEvents
  PROVE  InTime(cachedBestRoute(entry, event))
<1> DEFINE to == cachedBestRoute(entry, event)
<1>1. entry \in Entry /\ entry.expires <= entry.readAt + KeptFor(entry.value) /\ entry.servedAge < KeptFor(entry.served)
  BY DEF InTime
<1>2. /\ entry.readAt \in Int /\ entry.expires \in Int /\ entry.now \in Int /\ entry.value \in RoutesKept
      /\ entry.servedAge \in Int /\ entry.pending \in BOOLEAN
  BY <1>1 DEF Entry
<1>3. CASE event = "tick"
  <2>1. to = [entry EXCEPT !.now = @ + 1] BY <1>3 DEF cachedBestRoute
  <2>2. to = [entry EXCEPT !.now = entry.now + 1] /\ entry.now + 1 \in Int BY <1>2, <2>1
  <2> HIDE DEF to
  <2>3. /\ to \in Entry /\ to.value = entry.value /\ to.readAt = entry.readAt /\ to.expires = entry.expires
        /\ to.served = entry.served /\ to.servedAge = entry.servedAge
    BY <1>1, <2>2, EntrySet
  <2>4. InTime(to) BY <1>1, <2>3 DEF InTime
  <2> QED BY <2>4 DEF to
<1>4. CASE event = "ask" /\ ~entry.pending /\ entry.expires > entry.now
  <2> DEFINE age == entry.now - entry.readAt
  <2>1. Serves(entry, entry.value, age, to)
    BY <1>4, Zenon DEF cachedBestRoute, Serves
  <2>2. age \in Int /\ age < KeptFor(entry.value)
    BY <1>1, <1>2, <1>4 DEF KeptFor, RouteTtl, RouteErrorTtl
  <2> HIDE DEF to, age
  <2>3. /\ to \in Entry /\ to.value = entry.value /\ to.readAt = entry.readAt /\ to.expires = entry.expires
        /\ to.served = entry.value /\ to.servedAge = age
    BY <1>1, <1>2, <2>1, <2>2, EntryServes
  <2>4. InTime(to) BY <1>1, <2>2, <2>3 DEF InTime
  <2> QED BY <2>4 DEF to
<1>5. CASE event = "ask" /\ ~entry.pending /\ ~(entry.expires > entry.now)
  <2>1. to = [entry EXCEPT !.pending = TRUE] BY <1>5, Zenon DEF cachedBestRoute
  <2> HIDE DEF to
  <2>2. /\ to \in Entry /\ to.value = entry.value /\ to.readAt = entry.readAt /\ to.expires = entry.expires
        /\ to.served = entry.served /\ to.servedAge = entry.servedAge
    BY <1>1, <2>1, EntrySet
  <2>3. InTime(to) BY <1>1, <2>2 DEF InTime
  <2> QED BY <2>3 DEF to
<1>6. ASSUME NEW value \in RoutesKept, NEW keep, keep = KeptFor(value),
             Keeps(entry, value, entry.now, entry.now + keep, to)
      PROVE  InTime(to)
  <2>1. keep \in Int BY <1>6 DEF KeptFor, RouteTtl, RouteErrorTtl
  <2> DEFINE until == entry.now + keep
             at == entry.now
  <2>2. until \in Int /\ at \in Int BY <1>2, <2>1
  <2>3. Keeps(entry, value, at, until, to) BY <1>6
  <2> HIDE DEF to, until, at
  <2>4. /\ to \in Entry /\ to.value = value /\ to.readAt = at /\ to.expires = until
        /\ to.served = entry.served /\ to.servedAge = entry.servedAge
    BY <1>1, <2>2, <2>3, EntryKeeps
  <2> QED BY <1>1, <1>2, <1>6, <2>1, <2>4 DEF InTime, until, at
<1>7. CASE event \in {"route", "null"} /\ entry.pending
  <2>1. Keeps(entry, event, entry.now, entry.now + RouteTtl, to)
    BY <1>7, Zenon DEF cachedBestRoute, Keeps
  <2>2. RouteTtl = KeptFor(event) BY <1>7 DEF KeptFor
  <2>3. event \in RoutesKept BY <1>7 DEF RoutesKept
  <2> QED BY <1>6, <2>1, <2>2, <2>3
<1>8. CASE event = "reject" /\ entry.pending
  <2>1. Keeps(entry, "failed", entry.now, entry.now + RouteErrorTtl, to)
    BY <1>8, Zenon DEF cachedBestRoute, Keeps
  <2>2. RouteErrorTtl = KeptFor("failed") BY DEF KeptFor
  <2>3. "failed" \in RoutesKept BY DEF RoutesKept
  <2> QED BY <1>6, <2>1, <2>2, <2>3
<1>9. CASE /\ event # "tick" /\ ~(event = "ask" /\ ~entry.pending)
           /\ ~(event \in {"route", "null"} /\ entry.pending) /\ ~(event = "reject" /\ entry.pending)
  <2>1. to = entry BY <1>9, Zenon DEF cachedBestRoute
  <2> QED BY <2>1
<1> QED BY <1>2, <1>3, <1>4, <1>5, <1>7, <1>8, <1>9

\* What is served of a route, a missing one included, is no older than a route's time, and no
\* older than a failure's if looking for it failed outright, after any number of questions,
\* answers and ticks in any order.
THEOREM RoutesServedInTime ==
  ASSUME NEW n \in Nat, NEW events \in [1..n -> CacheEvents]
  PROVE  InTime(cachedAfter(events))
<1> DEFINE X == {entry \in Entry : InTime(entry)}
           step == [i \in 1..n |-> [entry \in X |-> cachedBestRoute(entry, events[i])]]
           answer(f) == f = [k \in 0..n |-> IF k = 0 THEN NoRoute ELSE cachedBestRoute(f[k - 1], events[k])]
           w == CHOOSE f : answer(f)
<1>1. NoRoute \in X
  <2>1. NoRoute \in Entry BY DEF NoRoute, Entry, RoutesKept
  <2>2. InTime(NoRoute)
    <3>1. /\ NoRoute.expires = 0 /\ NoRoute.readAt = 0 /\ NoRoute.value = "failed" /\ NoRoute.served = "failed"
          /\ NoRoute.servedAge = 0
      BY DEF NoRoute
    <3> QED BY <2>1, <3>1 DEF InTime, KeptFor, RouteTtl, RouteErrorTtl
  <2> QED BY <2>1, <2>2
<1>2. \A i \in 1..n : \A entry \in X :
        step[i][entry] \in X /\ step[i][entry] = cachedBestRoute(entry, events[i])
  <2> SUFFICES ASSUME NEW i \in 1..n, NEW entry \in X
               PROVE  step[i][entry] \in X /\ step[i][entry] = cachedBestRoute(entry, events[i])
    OBVIOUS
  <2>1. step[i][entry] = cachedBestRoute(entry, events[i]) OBVIOUS
  <2>2. InTime(cachedBestRoute(entry, events[i])) BY CacheStep
  <2>3. cachedBestRoute(entry, events[i]) \in Entry BY <2>2 DEF InTime
  <2> HIDE DEF step
  <2> QED BY <2>1, <2>2, <2>3
<1> HIDE DEF X, step
<1>3. PICK f : History(f, X, NoRoute, n, step) BY <1>1, <1>2, Iterated DEF Steps
<1>4. f \in [0..n -> X] /\ f[0] = NoRoute /\ \A i \in 1..n : f[i] = step[i][f[i - 1]] BY <1>3 DEF History
<1>5. answer(f)
  <2>1. \A i \in 1..n : f[i] = cachedBestRoute(f[i - 1], events[i])
    <3> SUFFICES ASSUME NEW i \in 1..n PROVE f[i] = cachedBestRoute(f[i - 1], events[i]) OBVIOUS
    <3>1. i - 1 \in 0..n OBVIOUS
    <3>2. f[i - 1] \in X BY <1>4, <3>1
    <3> QED BY <1>2, <1>4, <3>2
  <2>2. \A i \in 0..n : i = 0 \/ i \in 1..n OBVIOUS
  <2> QED BY <1>4, <2>1, <2>2
<1>6. answer(w) BY <1>5, Zenon
<1>7. Len(events) = n BY LenProperties
<1>8. cachedAfter(events) = w[n] BY <1>7, Zenon DEF cachedAfter
<1> HIDE DEF w
<1>9. w[0] = NoRoute /\ \A k \in 1..n : w[k] = cachedBestRoute(w[k - 1], events[k])
  <2>1. w[0] = NoRoute BY <1>6
  <2>2. ASSUME NEW k \in 1..n PROVE w[k] = cachedBestRoute(w[k - 1], events[k])
    <3>1. k \in 0..n /\ k # 0 OBVIOUS
    <3> QED BY <1>6, <3>1, Zenon
  <2> QED BY <2>1, <2>2
<1> HIDE DEF answer
<1> DEFINE Has(k) == InTime(w[k])
           S == {k \in Nat : k <= n => Has(k)}
<1>10. 0 \in S BY <1>1, <1>9 DEF X
<1>11. \A k \in Nat : k \in S => k + 1 \in S
  <2> SUFFICES ASSUME NEW k \in Nat, Has(k), k + 1 <= n PROVE Has(k + 1)
    <3> HIDE DEF Has
    <3> QED OBVIOUS
  <2>1. k + 1 \in 1..n /\ (k + 1) - 1 = k OBVIOUS
  <2>2. w[k + 1] = cachedBestRoute(w[k], events[k + 1]) BY <1>9, <2>1
  <2>3. events[k + 1] \in CacheEvents BY <2>1
  <2>4. InTime(cachedBestRoute(w[k], events[k + 1])) BY <2>3, CacheStep
  <2> QED BY <2>2, <2>4
<1>12. Nat \subseteq S
  <2> HIDE DEF S
  <2> QED BY <1>10, <1>11, NatInductionSet
<1> HIDE DEF Has
<1>13. Has(n) BY <1>12
<1> QED BY <1>8, <1>13 DEF Has

\* The price watcher's answer on its cache of routes is sound.
LEMMA RouteCacheAnswered == AskRouteCache => decision'.about = "route-cache" /\ RouteCacheSound'
<1> SUFFICES ASSUME AskRouteCache PROVE decision'.about = "route-cache" /\ RouteCacheSound' OBVIOUS
<1>1. PICK events \in UNION {[1..n -> {"ask", "route", "null", "reject", "tick"}] : n \in 1..6} :
         decision' = [about |-> "route-cache", entry |-> cachedAfter(events)]
  BY Zenon DEF AskRouteCache, Decide
<1> DEFINE entry == cachedAfter(events)
<1>2. decision' = [about |-> "route-cache", entry |-> entry] BY <1>1
<1>3. InTime(entry)
  <2>1. PICK n \in 1..6 : events \in [1..n -> {"ask", "route", "null", "reject", "tick"}] OBVIOUS
  <2>2. n \in Nat /\ events \in [1..n -> CacheEvents] BY <2>1 DEF CacheEvents
  <2> QED BY <2>2, RoutesServedInTime
<1> HIDE DEF entry
<1>4. decision'.about = "route-cache" /\ decision'.entry = entry BY <1>2
<1>5. /\ entry.servedAge \in Int /\ entry.served \in RoutesKept /\ entry.servedAge < KeptFor(entry.served)
  BY <1>3 DEF InTime, Entry
<1>6. entry.servedAge < RouteTtl /\ (entry.served = "failed" => entry.servedAge < RouteErrorTtl)
  BY <1>5 DEF KeptFor, RouteTtl, RouteErrorTtl
<1> QED BY <1>4, <1>6 DEF RouteCacheSound

\* Every price the watcher answers with is one, every gap is of two prices, and no route
\* is served past its time.
THEOREM PricesAreSound == Spec => []PricesSound
<1>1. Init => PricesSound
  BY DEF Init, DecisionInit, PricesSound, PriceSound, RouteCacheSound, About
<1>2. PricesSound /\ [Next]_vars => PricesSound'
  <2> SUFFICES ASSUME PricesSound, [Next]_vars PROVE PricesSound' OBVIOUS
  <2>1. CASE UNCHANGED decision
    <3>1. decision' = decision BY <2>1
    <3> QED BY <3>1 DEF PricesSound, PriceSound, RouteCacheSound, About
  <2>2. CASE decision' = None
    BY <2>2 DEF PricesSound, PriceSound, RouteCacheSound, About
  <2>3. CASE decision'.about \notin PricesTopics
    BY <2>3 DEF PricesSound, PriceSound, RouteCacheSound, About, PricesTopics
  <2>4. AskPrice => PricesSound'
    BY PriceAnswered DEF PricesSound, RouteCacheSound, About
  <2>5. AskRouteCache => PricesSound'
    BY RouteCacheAnswered DEF PricesSound, PriceSound, About
  <2>6. FabricTopics \cap PricesTopics = {} /\ ScoresTopics \cap PricesTopics = {}
        /\ ExecutionTopics \cap PricesTopics = {} /\ LiquidationTopics \cap PricesTopics = {}
        /\ IndexersTopics \cap PricesTopics = {}
    BY DEF FabricTopics, LiquidationTopics, ScoresTopics, PricesTopics, IndexersTopics, ExecutionTopics
  <2>7. PricesDecide => PricesSound' BY <2>4, <2>5 DEF PricesDecide
  <2> QED BY <2>1, <2>2, <2>3, <2>6, <2>7, StepTopics, FabricAnswers, ScoresAnswers, ExecutionAnswers,
             LiquidationAnswers, IndexersAnswer, Zenon
<1> QED BY <1>1, <1>2, PTL DEF Spec
-----------------------------------------------------------------------------
(* The arbitrage fabric: what a pool is quoted at. *)

\* What rests at a place has its value, the rest that of a smaller place.
Fallen(f, n, Rest, value, down) == f = [i \in 0..n |-> IF i \in Rest THEN value[i] ELSE f[down[i]]]

\* Such a list of values exists: whatever place is asked for, going down ends.
LEMMA Falls ==
  ASSUME NEW n \in Nat, NEW Rest, NEW value, NEW down, \A i \in 0..n : i \in Rest \/ down[i] \in 0..(i - 1)
  PROVE  \E f : Fallen(f, n, Rest, value, down)
<1> DEFINE Has(m) == \E f : Fallen(f, m, Rest, value, down)
           S == {m \in Nat : m <= n => Has(m)}
<1>1. 0 \in S
  <2> DEFINE f == [i \in 0..0 |-> value[i]]
  <2>1. 0 \in Rest BY SMT
  <2>2. Fallen(f, 0, Rest, value, down) BY <2>1, SMT DEF Fallen
  <2> QED BY <2>2
<1>2. \A m \in Nat : m \in S => m + 1 \in S
  <2> SUFFICES ASSUME NEW m \in Nat, Has(m), m + 1 <= n PROVE Has(m + 1)
    <3> HIDE DEF Has
    <3> QED OBVIOUS
  <2>1. PICK f : Fallen(f, m, Rest, value, down) OBVIOUS
  <2> DEFINE g == [i \in 0..(m + 1) |-> IF i <= m THEN f[i] ELSE IF i \in Rest THEN value[i] ELSE f[down[i]]]
  <2>2. \A i \in 0..m : f[i] = IF i \in Rest THEN value[i] ELSE f[down[i]] BY <2>1, Zenon DEF Fallen
  <2>3. \A i \in 0..(m + 1) : i \in Rest \/ (down[i] \in 0..(i - 1) /\ down[i] \in 0..m) BY SMT
  <2>4. \A i \in 0..m : g[i] = f[i] BY SMT
  <2>5. \A i \in 0..(m + 1) : g[i] = IF i \in Rest THEN value[i] ELSE f[down[i]] BY <2>2, SMT
  <2>6. \A i \in 0..(m + 1) : g[i] = IF i \in Rest THEN value[i] ELSE g[down[i]] BY <2>3, <2>4, <2>5, SMT
  <2>7. g = [i \in 0..(m + 1) |-> g[i]] OBVIOUS
  <2> HIDE DEF g
  <2>8. Fallen(g, m + 1, Rest, value, down) BY <2>6, <2>7, Zenon DEF Fallen
  <2> QED BY <2>8
<1>3. Nat \subseteq S
  <2> HIDE DEF S
  <2> QED BY <1>1, <1>2, NatInductionSet
<1> HIDE DEF Has
<1>4. Has(n) BY <1>3
<1> QED BY <1>4 DEF Has

\* A pool that can be asked about.
IsPool(pool) == pool.depth \in 0..Deepest /\ pool.failure \in {"insufficient-liquidity", "other"}

\* What a quote of part of the amount is worth for the whole.
LEMMA Scaled ==
  ASSUME NEW i \in 1..Deepest, NEW n \in Nat, i <= n
  PROVE  /\ (PoolOut(i) * n) \div i \in Nat /\ (PoolOut(i) * n) \div i > 0
         /\ (PoolOut(i) * n) \div i <= n * PoolOut(1)
         /\ i = n => (PoolOut(i) * n) \div i = PoolOut(n)
<1> DEFINE p == PoolOut(i)
           one == PoolOut(1)
           q == (p * n) \div i
<1>1. i \in Nat /\ i > 0 BY DEF Deepest
<1>2. p \in Nat /\ p > 0 /\ p <= i * one /\ one \in Nat BY PoolAssumption DEF Deepest
<1> HIDE DEF p, one
<1>3. p * n \in Nat /\ n * one \in Nat BY <1>2, SMT
<1>4. q \in Nat /\ q * i <= p * n /\ p * n < (q + 1) * i BY <1>1, <1>3, Quotient
<1>5. q > 0
  <2>1. 1 * n <= p * n BY <1>2, Monotone
  <2>2. i <= p * n BY <2>1, <1>3, <1>1
  <2> DEFINE pn == p * n
  <2> HIDE DEF q, pn
  <2>3. CASE q = 0
    <3>1. (q + 1) * i = i BY <2>3, <1>1
    <3> QED BY <3>1, <1>4, <2>2, <1>1, <1>3 DEF pn
  <2> QED BY <2>3, <1>4
<1>6. q <= n * one
  <2>1. p * n <= (i * one) * n
    <3>1. i * one \in Int BY <1>1, <1>2
    <3> QED BY <1>2, <3>1, Monotone
  <2>2. (i * one) * n = (n * one) * i BY <1>1, <1>2
  <2> HIDE DEF q
  <2> DEFINE most == n * one
  <2>3. most \in Nat /\ q * i <= most * i BY <1>3, <1>4, <2>1, <2>2, <1>1
  <2> HIDE DEF most
  <2>4. most >= q BY <2>3, <1>1, <1>4, Cancel
  <2> QED BY <2>4 DEF most
<1>7. i = n => q = p
  <2> SUFFICES ASSUME i = n PROVE q = p OBVIOUS
  <2> HIDE DEF q
  <2>1. q >= p
    <3>1. (q + 1) * i > p * i BY <1>4, <1>2, <1>1
    <3>2. q + 1 \in Int /\ p + 1 \in Int BY <1>4, <1>2
    <3>3. CASE q + 1 <= p
      <4>1. (q + 1) * i <= p * i BY <3>3, <3>2, <1>1, <1>2, Monotone
      <4> DEFINE a == (q + 1) * i
                 b == p * i
      <4>2. a \in Int /\ b \in Int BY <3>2, <1>1, <1>2
      <4> HIDE DEF a, b
      <4> QED BY <3>1, <4>1, <4>2 DEF a, b
    <3> QED BY <3>3, <1>4, <1>2
  <2>2. p >= q BY <1>1, <1>2, <1>4, Cancel
  <2> QED BY <2>1, <2>2, <1>2, <1>4
<1> QED BY <1>4, <1>5, <1>6, <1>7, <1>2 DEF p, one

\* What one limit of a pool brings for an amount.
IsQuoted(quote, pool, limit, n, part) ==
  /\ ~LimitHolds(pool, limit) => quote = [kind |-> "spl", out |-> 0]
  /\ LimitHolds(pool, limit) /\ part <= pool.depth =>
       quote = [kind |-> "value", out |-> (PoolOut(part) * n) \div part]
  /\ quote.kind = "value" =>
       /\ LimitHolds(pool, limit)
       /\ quote.out \in Nat /\ quote.out > 0 /\ quote.out <= n * PoolOut(1)
  /\ LimitHolds(pool, limit) /\ pool.depth > 0 /\ pool.failure = "insufficient-liquidity" => quote.kind = "value"

\* A pool is given up only for its failure: where the limit holds, what it says it pays
\* is what it pays as deep as it is, and further down no better than the first unit.
LEMMA LimitOutcome ==
  ASSUME NEW pool, IsPool(pool), NEW limit, NEW n \in Nat, n > 0
  PROVE  IsQuoted(QuoteAtLimit(pool, limit, n), pool, limit, n, n)
<1> DEFINE answer(i) == ContractAnswer(pool, limit, i)
           scaled(i) == [answer(i) EXCEPT !.out = (@ * n) \div i]
           down(i) == IF i \div ScaleFactor > 0 THEN i \div ScaleFactor ELSE 1
           valued(i) == answer(i).kind = "value"
           again(i) == isRetryableQuoterError(answer(i).kind) /\ i > 1
           Rest == {i \in 0..n : valued(i) \/ ~again(i)}
           value == [i \in 0..n |-> IF valued(i) THEN scaled(i) ELSE answer(i)]
           downs == [i \in 0..n |-> down(i)]
           Tries(f) == f = [i \in 0..n |-> IF valued(i) THEN scaled(i)
                                         ELSE IF again(i) THEN f[down(i)] ELSE answer(i)]
           w == CHOOSE f : Tries(f)
<1>1. \A i \in 0..n : i > 1 => down(i) \in 1..(i - 1) BY SMT DEF ScaleFactor
<1>2. PICK f : Fallen(f, n, Rest, value, downs)
  <2>1. \A i \in 0..n : i \in Rest \/ downs[i] \in 0..(i - 1)
    <3> SUFFICES ASSUME NEW i \in 0..n, i \notin Rest PROVE downs[i] \in 0..(i - 1) OBVIOUS
    <3>1. i > 1 OBVIOUS
    <3>2. downs[i] = down(i) OBVIOUS
    <3> HIDE DEF downs, down
    <3> QED BY <1>1, <3>1, <3>2
  <2> HIDE DEF Rest, downs, value
  <2> QED BY <2>1, Falls
<1>3. Tries(f)
  <2>1. \A i \in 0..n : (IF i \in Rest THEN value[i] ELSE f[downs[i]])
                       = (IF valued(i) THEN scaled(i) ELSE IF again(i) THEN f[down(i)] ELSE answer(i))
    <3> SUFFICES ASSUME NEW i \in 0..n
                 PROVE  (IF i \in Rest THEN value[i] ELSE f[downs[i]])
                       = (IF valued(i) THEN scaled(i) ELSE IF again(i) THEN f[down(i)] ELSE answer(i))
      OBVIOUS
    <3>1. value[i] = IF valued(i) THEN scaled(i) ELSE answer(i) BY Zenon
    <3>2. downs[i] = down(i) BY Zenon
    <3>3. (i \in Rest) <=> (valued(i) \/ ~again(i)) BY Zenon
    <3> HIDE DEF Rest, value, downs, valued, again, scaled, answer, down
    <3> QED BY <3>1, <3>2, <3>3
  <2>2. f = [i \in 0..n |-> IF i \in Rest THEN value[i] ELSE f[downs[i]]] BY <1>2 DEF Fallen
  <2> HIDE DEF Rest, value, downs, valued, again, scaled, answer, down
  <2> QED BY <2>1, <2>2, Zenon
<1>4. Tries(w) BY <1>3, Zenon
<1>5. QuoteAtLimit(pool, limit, n) = w[n] BY Zenon DEF QuoteAtLimit
<1> HIDE DEF w
<1>6. \A i \in 0..n : w[i] = IF valued(i) THEN scaled(i) ELSE IF again(i) THEN w[down(i)] ELSE answer(i)
  <2> HIDE DEF valued, again, scaled, answer, down
  <2> QED BY <1>4, Zenon
<1> HIDE DEF Tries
<1> DEFINE Good(i) == IsQuoted(w[i], pool, limit, n, i)
           S == {k \in Nat : \A i \in 1..n : i <= k => Good(i)}
<1> DEFINE holds == LimitHolds(pool, limit)
<1>7. ASSUME NEW i \in 1..n, \A j \in 1..n : j < i => Good(j) PROVE Good(i)
  <2>1. i \in 0..n /\ i > 0 /\ i <= n OBVIOUS
  <2>2. CASE ~holds
    <3>1. answer(i) = [kind |-> "spl", out |-> 0] BY <2>2 DEF ContractAnswer
    <3>2. answer(i).kind = "spl" /\ ~valued(i) BY <3>1
    <3> HIDE DEF answer
    <3>3. w[i] = [kind |-> "spl", out |-> 0]
      <4>1. CASE i > 1
        <5>1. again(i) BY <4>1, <3>2 DEF isRetryableQuoterError
        <5>2. down(i) \in 1..n /\ down(i) < i /\ down(i) \in 1..(i - 1) BY <1>1, <4>1, <2>1
        <5>3. Good(down(i)) BY <1>7, <5>2
        <5> HIDE DEF down, again, valued
        <5>4. w[i] = w[down(i)] BY <1>6, <2>1, <3>2, <5>1
        <5> QED BY <5>3, <5>4, <2>2 DEF IsQuoted
      <4>2. CASE i = 1
        <5>1. ~again(i) BY <4>2
        <5> HIDE DEF down, again, valued
        <5> QED BY <1>6, <2>1, <3>2, <5>1, <3>1
      <4> QED BY <4>1, <4>2, <2>1
    <3> QED BY <3>3, <2>2 DEF IsQuoted
  <2>3. CASE holds /\ i <= pool.depth
    <3>1. answer(i) = [kind |-> "value", out |-> PoolOut(i)] BY <2>3, <2>1 DEF ContractAnswer, IsPool
    <3>2. scaled(i) = [kind |-> "value", out |-> (PoolOut(i) * n) \div i] BY <3>1
    <3>3. valued(i) BY <3>1
    <3>4. i \in 1..Deepest
      <4>1. pool.depth \in 0..Deepest /\ i <= pool.depth BY <2>3 DEF IsPool
      <4> DEFINE depth == pool.depth
      <4> HIDE DEF depth
      <4>2. depth \in 0..Deepest /\ i <= depth BY <4>1 DEF depth
      <4> QED BY <4>2, <2>1 DEF Deepest
    <3> HIDE DEF answer, scaled, valued, down, again
    <3>5. w[i] = scaled(i) BY <1>6, <2>1, <3>3
    <3> QED BY <3>2, <3>4, <3>5, <2>1, <2>3, Scaled DEF IsQuoted
  <2>4. CASE holds /\ ~(i <= pool.depth)
    <3>1. answer(i) = [kind |-> pool.failure, out |-> 0] BY <2>4, <2>1 DEF ContractAnswer, IsPool
    <3>2. ~valued(i) BY <3>1 DEF IsPool
    <3>3. answer(i).kind = pool.failure BY <3>1
    <3> HIDE DEF answer
    <3>4. CASE again(i)
      <4>1. i > 1 BY <3>4
      <4>2. down(i) \in 1..n /\ down(i) < i BY <1>1, <4>1, <2>1
      <4>3. Good(down(i)) BY <1>7, <4>2
      <4> HIDE DEF down, again, valued
      <4>4. w[i] = w[down(i)] BY <1>6, <2>1, <3>2, <3>4
      <4> QED BY <4>3, <4>4, <2>4 DEF IsQuoted
    <3>5. CASE ~again(i)
      <4>1. pool.depth > 0 /\ pool.failure = "insufficient-liquidity" => FALSE
        <5> SUFFICES ASSUME pool.depth > 0, pool.failure = "insufficient-liquidity" PROVE FALSE OBVIOUS
        <5>1. i > 1 BY <2>4, <2>1 DEF IsPool
        <5> QED BY <5>1, <3>3, <3>5 DEF isRetryableQuoterError
      <4> HIDE DEF down, again, valued
      <4>2. w[i] = answer(i) BY <1>6, <2>1, <3>2, <3>5
      <4>3. w[i].kind # "value" BY <4>2, <3>3 DEF IsPool
      <4> QED BY <4>1, <4>3, <2>4 DEF IsQuoted
    <3> QED BY <3>4, <3>5
  <2> QED BY <2>2, <2>3, <2>4
<1> HIDE DEF Good
<1>8. 0 \in S BY SMT
<1>9. \A k \in Nat : k \in S => k + 1 \in S
  <2> SUFFICES ASSUME NEW k \in Nat, \A i \in 1..n : i <= k => Good(i), NEW i \in 1..n, i <= k + 1 PROVE Good(i)
    OBVIOUS
  <2>1. \A j \in 1..n : j < i => Good(j) BY SMT
  <2> QED BY <1>7, <2>1
<1>10. Nat \subseteq S
  <2> HIDE DEF S
  <2> QED BY <1>8, <1>9, NatInductionSet
<1>11. Good(n) BY <1>10
<1> QED BY <1>5, <1>11 DEF Good

\* The first of some places is one of them.
LEMMA FirstPlace ==
  ASSUME NEW P \in SUBSET Nat, P # {}
  PROVE  Min(P) \in P /\ \A i \in P : Min(P) <= i
<1>1. PICK i \in P : \A j \in P : i <= j
  <2> DEFINE S == {k \in Nat : \A i \in Nat : i <= k => i \notin P}
  <2> SUFFICES ASSUME \A i \in P : \E j \in P : ~(i <= j) PROVE FALSE OBVIOUS
  <2>1. 0 \in S
    <3>1. 0 \notin P BY SMT
    <3> QED BY <3>1, SMT
  <2>2. \A k \in Nat : k \in S => k + 1 \in S
    <3> SUFFICES ASSUME NEW k \in Nat, \A i \in Nat : i <= k => i \notin P, NEW i \in Nat, i <= k + 1, i \in P PROVE FALSE
      OBVIOUS
    <3>1. PICK j \in P : ~(i <= j) OBVIOUS
    <3> QED BY <3>1, SMT
  <2>3. Nat \subseteq S
    <3> HIDE DEF S
    <3> QED BY <2>1, <2>2, NatInductionSet
  <2>4. PICK i \in P : TRUE OBVIOUS
  <2>5. i \in S BY <2>3
  <2> QED BY <2>5
<1> QED BY <1>1, Zenon DEF Min

\* What QuoteSound asks of a quote.
IsQuoteOf(quote, pool, n) ==
  LET limits == buildSqrtPriceLimits(pool)
      open == \E i \in DOMAIN limits : LimitHolds(pool, limits[i])
  IN /\ (open /\ n > 0 /\ pool.depth > 0 /\ pool.failure = "insufficient-liquidity") =>
          quote.kind = "value" /\ quote.out > 0
     /\ (open /\ n \in 1..pool.depth) => quote.out = PoolOut(n)
     /\ quote.out <= n * PoolOut(1)
     /\ (quote.kind = "value" /\ n > 0 /\ ~open) => quote = Zero

\* A venue is quoted what its pool pays, and never more than the price of the first unit.
THEOREM QuoteOutcome ==
  ASSUME NEW pool, IsPool(pool), NEW n \in Nat
  PROVE  IsQuoteOf(quoteExactInput(pool, n), pool, n)
<1> DEFINE limits == buildSqrtPriceLimits(pool)
           quote == quoteExactInput(pool, n)
           answers == [i \in DOMAIN limits |-> QuoteAtLimit(pool, limits[i], n)]
           valued == {i \in DOMAIN limits : answers[i].kind = "value"}
           failed == [kind |-> "failed", out |-> 0]
           open == \E i \in DOMAIN limits : LimitHolds(pool, limits[i])
<1>1. DOMAIN limits \subseteq Nat
  <2> DEFINE own == IF pool.configured = NoLimit THEN <<>> ELSE <<pool.configured>>
             far == IF pool.zeroForOne THEN MIN_SQRT_RATIO + 1 ELSE MAX_SQRT_RATIO - 1
             near == IF pool.zeroForOne THEN pool.price - 1 ELSE pool.price + 1
             all == own \o <<0, far, near>>
             seq == [i \in DOMAIN all |-> ClampRatio(all[i])]
  <2>1. DOMAIN limits = {i \in DOMAIN seq : \A j \in DOMAIN seq : seq[j] = seq[i] => i <= j}
    BY Zenon DEF buildSqrtPriceLimits, uniqueValues
  <2>2. DOMAIN seq = DOMAIN all OBVIOUS
  <2>3. DOMAIN all = 1..Len(all) /\ Len(all) \in Nat
    <3> DEFINE U == {pool.configured, 0, far, near}
               rest == <<0, far, near>>
    <3>1. rest \in Seq(U) OBVIOUS
    <3>2. own \in Seq(U)
      <4> DEFINE set == pool.configured
      <4>1. <<>> \in Seq(U) /\ (set \in U => <<set>> \in Seq(U))
        <5> HIDE DEF set, U
        <5> QED OBVIOUS
      <4>2. set \in U OBVIOUS
      <4> HIDE DEF set, U
      <4> QED BY <4>1, <4>2 DEF set
    <3> HIDE DEF U, own, rest
    <3>3. all \in Seq(U) BY <3>1, <3>2, ConcatProperties DEF rest
    <3> HIDE DEF all
    <3> QED BY <3>3
  <2> HIDE DEF limits, seq, all
  <2> QED BY <2>1, <2>2, <2>3
<1>2. /\ n = 0 => quote = failed
      /\ n # 0 /\ valued # {} => quote = answers[Min(valued)]
      /\ n # 0 /\ valued = {} => quote \in {Zero, failed}
  <2> HIDE DEF limits
  <2> QED BY Zenon DEF quoteExactInput, limits
<1>3. Zero.out = 0 /\ failed.out = 0 /\ failed.kind # "value" BY DEF Zero
<1>4. PoolOut(1) \in Nat BY PoolAssumption DEF Deepest
<1>5. n * PoolOut(1) \in Nat BY <1>4, SMT
<1> HIDE DEF limits, quote, failed
<1>6. CASE n = 0
  <2>1. quote.out = 0 /\ quote.kind # "value" BY <1>2, <1>3, <1>6
  <2>2. quote.out <= n * PoolOut(1) BY <2>1, <1>5
  <2> QED BY <1>6, <2>1, <2>2 DEF IsQuoteOf, limits, quote
<1>7. CASE n # 0
  <2>1. \A i \in DOMAIN limits : answers[i] = QuoteAtLimit(pool, limits[i], n) OBVIOUS
  <2>2. \A i \in DOMAIN limits : IsQuoted(answers[i], pool, limits[i], n, n) BY <1>7, <2>1, LimitOutcome
  <2> HIDE DEF answers
  <2>3. CASE valued = {}
    <3>1. quote.out = 0 BY <1>2, <1>3, <1>7, <2>3
    <3>2. quote.kind = "value" => quote = Zero BY <1>2, <1>3, <1>7, <2>3
    <3>3. \A i \in DOMAIN limits : answers[i].kind # "value" BY <2>3
    <3>4. ASSUME open PROVE pool.depth > 0 /\ pool.failure = "insufficient-liquidity" => FALSE
      BY <2>2, <3>3, <3>4 DEF IsQuoted
    <3>5. ASSUME open, n \in 1..pool.depth PROVE FALSE
      <4>1. PICK i \in DOMAIN limits : LimitHolds(pool, limits[i]) BY <3>5
      <4>2. n <= pool.depth BY <3>5 DEF IsPool
      <4>3. answers[i].kind = "value" BY <2>2, <4>1, <4>2 DEF IsQuoted
      <4> QED BY <3>3, <4>3
    <3>6. quote.out <= n * PoolOut(1) BY <1>5, <3>1
    <3> HIDE DEF valued
    <3> QED BY <3>2, <3>4, <3>5, <3>6 DEF IsQuoteOf, limits, quote
  <2>4. CASE valued # {}
    <3> DEFINE first == Min(valued)
    <3>1. valued \in SUBSET Nat BY <1>1
    <3>2. first \in valued
      <4> HIDE DEF valued
      <4> QED BY <2>4, <3>1, FirstPlace
    <3>3. quote = answers[first] BY <1>2, <1>7, <2>4
    <3> HIDE DEF first
    <3>4. first \in DOMAIN limits /\ answers[first].kind = "value" BY <3>2
    <3>5. IsQuoted(quote, pool, limits[first], n, n) /\ quote.kind = "value" BY <2>2, <3>3, <3>4
    <3>6. LimitHolds(pool, limits[first]) /\ quote.out \in Nat /\ quote.out > 0 /\ quote.out <= n * PoolOut(1)
      BY <3>5 DEF IsQuoted
    <3>7. open BY <3>4, <3>6
    <3>8. n \in 1..pool.depth => quote.out = PoolOut(n)
      <4> SUFFICES ASSUME n \in 1..pool.depth PROVE quote.out = PoolOut(n) OBVIOUS
      <4>1. n <= pool.depth /\ n > 0 BY DEF IsPool
      <4>2. quote = [kind |-> "value", out |-> (PoolOut(n) * n) \div n] BY <3>5, <3>6, <4>1 DEF IsQuoted
      <4>3. n \in 1..Deepest
        <5> DEFINE depth == pool.depth
        <5>1. depth \in 0..Deepest BY DEF IsPool
        <5> HIDE DEF depth
        <5>2. n <= depth BY <4>1 DEF depth
        <5> QED BY <5>1, <5>2, <4>1 DEF Deepest
      <4>4. (PoolOut(n) * n) \div n = PoolOut(n) BY <4>3, Scaled
      <4> QED BY <4>2, <4>4
    <3> HIDE DEF valued
    <3> QED BY <3>5, <3>6, <3>7, <3>8 DEF IsQuoteOf, limits, quote
  <2> QED BY <2>3, <2>4
<1> QED BY <1>6, <1>7

\* A question for a quote is answered soundly.
LEMMA QuoteAnswered == AskQuote => decision'.about = "quote" /\ QuoteSound'
<1> SUFFICES ASSUME AskQuote PROVE decision'.about = "quote" /\ QuoteSound' OBVIOUS
<1>1. PICK pool \in Pools, n \in 0..9 :
        decision' = [about |-> "quote", pool |-> pool, amountIn |-> n, quote |-> quoteExactInput(pool, n)]
  BY Zenon DEF AskQuote, Decide
<1> DEFINE quote == quoteExactInput(pool, n)
<1>2. IsPool(pool) BY DEF Pools, IsPool
<1>3. IsQuoteOf(quote, pool, n) BY <1>2, QuoteOutcome
<1>4. decision' = [about |-> "quote", pool |-> pool, amountIn |-> n, quote |-> quote] BY <1>1
<1> HIDE DEF quote
<1>5. /\ decision'.about = "quote" /\ decision'.pool = pool /\ decision'.amountIn = n /\ decision'.quote = quote
  BY <1>4
<1> QED BY <1>3, <1>5, Zenon DEF QuoteSound, IsQuoteOf

\* Of some triples one is met before all others.
LEMMA FirstTriple ==
  ASSUME NEW P \in SUBSET (Nat \X Nat \X Nat), P # {}
  PROVE  \E l \in P : \A m \in P : ~Earlier(m, l)
<1> DEFINE A == {l[1] : l \in P}
           B(a) == {l[2] : l \in {l \in P : l[1] = a}}
           C(a, b) == {l[3] : l \in {l \in P : l[1] = a /\ l[2] = b}}
<1>1. \A l \in P : l[1] \in Nat /\ l[2] \in Nat /\ l[3] \in Nat OBVIOUS
<1>2. PICK a \in A : \A x \in A : a <= x
  <2>1. A \in SUBSET Nat /\ A # {} BY <1>1
  <2> HIDE DEF A
  <2> QED BY <2>1, FirstPlace
<1>3. PICK b \in B(a) : \A x \in B(a) : b <= x
  <2>1. PICK l \in P : l[1] = a BY <1>2
  <2>2. l[2] \in B(a) BY <2>1
  <2>3. B(a) \in SUBSET Nat /\ B(a) # {} BY <1>1, <2>2
  <2> HIDE DEF B
  <2> QED BY <2>3, FirstPlace
<1>4. PICK c \in C(a, b) : \A x \in C(a, b) : c <= x
  <2>1. PICK l \in P : l[1] = a /\ l[2] = b BY <1>3
  <2>2. l[3] \in C(a, b) BY <2>1
  <2>3. C(a, b) \in SUBSET Nat /\ C(a, b) # {} BY <1>1, <2>2
  <2> HIDE DEF C
  <2> QED BY <2>3, FirstPlace
<1>5. PICK l \in P : l[1] = a /\ l[2] = b /\ l[3] = c BY <1>4
<1>6. ASSUME NEW m \in P, Earlier(m, l) PROVE FALSE
  <2>1. a <= m[1] BY <1>2
  <2>2. m[1] = a => b <= m[2]
    <3> SUFFICES ASSUME m[1] = a PROVE b <= m[2] OBVIOUS
    <3>1. m[2] \in B(a) OBVIOUS
    <3> QED BY <1>3, <3>1
  <2>3. m[1] = a /\ m[2] = b => c <= m[3]
    <3> SUFFICES ASSUME m[1] = a, m[2] = b PROVE c <= m[3] OBVIOUS
    <3>1. m[3] \in C(a, b) OBVIOUS
    <3> QED BY <1>4, <3>1
  <2>4. a \in Nat /\ b \in Nat /\ c \in Nat BY <1>1, <1>5
  <2> HIDE DEF A, B, C
  <2> QED BY <2>1, <2>2, <2>3, <2>4, <1>1, <1>5, <1>6 DEF Earlier
<1> QED BY <1>5, <1>6

\* Of two different triples one is met first.
LEMMA OneIsEarlier ==
  ASSUME NEW l \in Nat \X Nat \X Nat, NEW m \in Nat \X Nat \X Nat, ~Earlier(l, m), ~Earlier(m, l)
  PROVE  l = m
<1> DEFINE l1 == l[1] l2 == l[2] l3 == l[3] m1 == m[1] m2 == m[2] m3 == m[3]
<1>1. l = <<l1, l2, l3>> /\ m = <<m1, m2, m3>> OBVIOUS
<1>2. l1 \in Nat /\ l2 \in Nat /\ l3 \in Nat /\ m1 \in Nat /\ m2 \in Nat /\ m3 \in Nat OBVIOUS
<1>3. /\ ~(l1 < m1 \/ (l1 = m1 /\ (l2 < m2 \/ (l2 = m2 /\ l3 < m3))))
      /\ ~(m1 < l1 \/ (m1 = l1 /\ (m2 < l2 \/ (m2 = l2 /\ m3 < l3))))
  BY Zenon DEF Earlier
<1> HIDE DEF l1, l2, l3, m1, m2, m3
<1>4. l1 = m1 /\ l2 = m2 /\ l3 = m3 BY <1>2, <1>3
<1> QED BY <1>1, <1>4

\* What LoopsOnce asks of the loops tried and of those of them that threw.
TriesEachOnce(tried, thrown, pairs) ==
  /\ \A i, j, k \in DOMAIN pairs :
       ClosesLoop(pairs, i, j, k) =>
         \/ \E l \in tried : loopKey(l) = loopKey(<<i, j, k>>)
         \/ \E t \in thrown : Earlier(t, <<i, j, k>>)
  /\ \A l, m \in tried : loopKey(l) = loopKey(m) => l = m
  /\ \A t \in thrown, l \in tried : ~Earlier(t, l)

\* Meeting first is transitive.
LEMMA EarlierStill ==
  ASSUME NEW l \in Nat \X Nat \X Nat, NEW m \in Nat \X Nat \X Nat, NEW o \in Nat \X Nat \X Nat,
         Earlier(l, m), ~Earlier(o, m)
  PROVE  Earlier(l, o)
<1> DEFINE l1 == l[1] l2 == l[2] l3 == l[3] m1 == m[1] m2 == m[2] m3 == m[3] o1 == o[1] o2 == o[2] o3 == o[3]
<1>1. /\ l1 \in Nat /\ l2 \in Nat /\ l3 \in Nat /\ m1 \in Nat /\ m2 \in Nat /\ m3 \in Nat
      /\ o1 \in Nat /\ o2 \in Nat /\ o3 \in Nat
  OBVIOUS
<1>2. /\ l1 < m1 \/ (l1 = m1 /\ (l2 < m2 \/ (l2 = m2 /\ l3 < m3)))
      /\ ~(o1 < m1 \/ (o1 = m1 /\ (o2 < m2 \/ (o2 = m2 /\ o3 < m3))))
  BY Zenon DEF Earlier
<1> HIDE DEF l1, l2, l3, m1, m2, m3, o1, o2, o3
<1>3. l1 < o1 \/ (l1 = o1 /\ (l2 < o2 \/ (l2 = o2 /\ l3 < o3))) BY <1>1, <1>2
<1> QED BY <1>3, Zenon DEF Earlier, l1, l2, l3, o1, o2, o3

\* Every triangle of three or more pairs is tried, and once, unless one met before it
\* throws; nothing is tried after one that throws.
THEOREM TrianglesOnce ==
  ASSUME NEW n \in Nat, n >= 3, NEW pairs, DOMAIN pairs = 1..n, Len(pairs) = n, NEW throws
  PROVE  TriesEachOnce(LoopsTried(pairs, throws), LoopsTried(pairs, throws) \cap throws, pairs)
<1> DEFINE D == DOMAIN pairs
           loops == {l \in D \X D \X D : ClosesLoop(pairs, l[1], l[2], l[3])}
           firsts == {l \in loops : \A m \in loops : loopKey(m) = loopKey(l) => ~Earlier(m, l)}
           thrown == firsts \cap throws
           tried == {l \in firsts : \A m \in thrown : ~Earlier(m, l)}
<1>1. LoopsTried(pairs, throws) = tried
  <2>1. ~(Len(pairs) < 3) OBVIOUS
  <2>2. Loops(pairs) = loops BY <2>1, Zenon DEF Loops
  <2> HIDE DEF loops
  <2>3. FirstLoops(pairs) = firsts BY <2>2, Zenon DEF FirstLoops
  <2> QED BY <2>3, Zenon DEF LoopsTried
<1>2. D \subseteq Nat OBVIOUS
<1>3. loops \subseteq Nat \X Nat \X Nat
  <2> HIDE DEF D
  <2> QED BY <1>2
<1>4. ASSUME NEW i \in D, NEW j \in D, NEW k \in D, ClosesLoop(pairs, i, j, k)
      PROVE  \/ \E l \in tried : loopKey(l) = loopKey(<<i, j, k>>)
             \/ \E t \in tried \cap throws : Earlier(t, <<i, j, k>>)
  <2> DEFINE l0 == <<i, j, k>>
             P == {l \in loops : loopKey(l) = loopKey(l0)}
  <2> HIDE DEF D
  <2>1. l0 \in D \X D \X D /\ l0[1] = i /\ l0[2] = j /\ l0[3] = k OBVIOUS
  <2> HIDE DEF l0
  <2>2. l0 \in P BY <1>4, <2>1
  <2>3. P \in SUBSET (Nat \X Nat \X Nat) /\ P # {} BY <1>3, <2>2
  <2> HIDE DEF P
  <2>4. PICK l \in P : \A m \in P : ~Earlier(m, l) BY <2>3, FirstTriple
  <2>5. l \in loops /\ loopKey(l) = loopKey(l0) BY <2>4 DEF P
  <2>6. ASSUME NEW m \in loops, loopKey(m) = loopKey(l) PROVE ~Earlier(m, l)
    <3>1. m \in P BY <2>5, <2>6 DEF P
    <3> QED BY <2>4, <3>1
  <2>7. ~Earlier(l0, l) BY <2>2, <2>4
  <2>8. l0 \in loops BY <2>2 DEF P
  <2> HIDE DEF loops
  <2>9. l \in firsts BY <2>5, <2>6
  <2>10. CASE \A m \in thrown : ~Earlier(m, l)
    <3>1. l \in tried BY <2>9, <2>10
    <3> QED BY <2>5, <3>1 DEF l0
  <2>11. CASE \E m \in thrown : Earlier(m, l)
    <3>1. thrown \in SUBSET (Nat \X Nat \X Nat) /\ thrown # {} BY <1>3, <2>11
    <3>2. PICK t \in thrown : \A m \in thrown : ~Earlier(m, t) BY <3>1, FirstTriple
    <3>3. t \in tried \cap throws BY <3>2
    <3>4. PICK m \in thrown : Earlier(m, l) BY <2>11
    <3>5. ~Earlier(m, t) BY <3>2
    <3>6. /\ l \in Nat \X Nat \X Nat /\ l0 \in Nat \X Nat \X Nat
          /\ m \in Nat \X Nat \X Nat /\ t \in Nat \X Nat \X Nat
      BY <1>3, <2>5, <2>8, <3>1, <3>2, <3>4
    <3>7. Earlier(t, l)
      <4>1. ~Earlier(t, l) => m = t \/ Earlier(t, l)
        <5> SUFFICES ASSUME ~Earlier(t, l), m # t PROVE FALSE OBVIOUS
        <5>1. Earlier(m, t) BY <3>4, <3>6, EarlierStill
        <5> QED BY <3>5, <5>1
      <4> QED BY <3>4, <4>1
    <3>8. Earlier(t, l0) BY <2>7, <3>6, <3>7, EarlierStill
    <3> QED BY <3>3, <3>8 DEF l0
  <2> QED BY <2>10, <2>11
<1>5. ASSUME NEW l \in tried, NEW m \in tried, loopKey(l) = loopKey(m) PROVE l = m
  <2>1. l \in loops /\ m \in loops OBVIOUS
  <2> HIDE DEF loops
  <2>2. ~Earlier(m, l) /\ ~Earlier(l, m) BY <1>5, <2>1
  <2> QED BY <1>3, <2>1, <2>2, OneIsEarlier
<1>6. \A t \in tried \cap throws, l \in tried : ~Earlier(t, l)
  <2> HIDE DEF loops
  <2> QED OBVIOUS
<1> HIDE DEF tried
<1>7. \A i, j, k \in DOMAIN pairs :
        ClosesLoop(pairs, i, j, k) =>
          \/ \E l \in tried : loopKey(l) = loopKey(<<i, j, k>>)
          \/ \E t \in tried \cap throws : Earlier(t, <<i, j, k>>)
  BY <1>4
<1>8. \A l, m \in tried : loopKey(l) = loopKey(m) => l = m
  BY <1>5
<1> DEFINE ending == tried \cap throws
<1>9. TriesEachOnce(tried, ending, pairs)
  <2> HIDE DEF ending
  <2>1. /\ \A t \in ending, l \in tried : ~Earlier(t, l)
        /\ \A i, j, k \in DOMAIN pairs :
             ClosesLoop(pairs, i, j, k) =>
               \/ \E l \in tried : loopKey(l) = loopKey(<<i, j, k>>)
               \/ \E t \in ending : Earlier(t, <<i, j, k>>)
    BY <1>6, <1>7 DEF ending
  <2> QED BY <1>8, <2>1, Zenon DEF TriesEachOnce
<1> QED BY <1>1, <1>9

\* A question for the triangles is answered soundly.
LEMMA LoopsAnswered == AskLoops => decision'.about = "loops" /\ LoopsOnce'
<1> SUFFICES ASSUME AskLoops PROVE decision'.about = "loops" /\ LoopsOnce' OBVIOUS
<1>1. PICK pairs \in [1..4 -> {p \in [baseToken : {"A", "B", "C"}, quoteToken : {"A", "B", "C"}] :
                                 p.baseToken # p.quoteToken}] :
        \E throws \in SUBSET Loops(pairs) :
          decision' = [about |-> "loops", pairs |-> pairs, throws |-> throws, tried |-> LoopsTried(pairs, throws),
                       offered |-> EdgesOfChain(pairs, throws, [l \in Loops(pairs) |-> {l}])]
  BY Zenon DEF AskLoops, Decide
<1>2. PICK throws \in SUBSET Loops(pairs) :
          decision' = [about |-> "loops", pairs |-> pairs, throws |-> throws, tried |-> LoopsTried(pairs, throws),
                       offered |-> EdgesOfChain(pairs, throws, [l \in Loops(pairs) |-> {l}])]
  BY <1>1
<1> DEFINE tried == LoopsTried(pairs, throws)
           each == [l \in Loops(pairs) |-> {l}]
           offered == EdgesOfChain(pairs, throws, each)
<1>3. decision' = [about |-> "loops", pairs |-> pairs, throws |-> throws, tried |-> tried, offered |-> offered]
  BY <1>2
<1>4. DOMAIN pairs = 1..4 /\ Len(pairs) = 4 BY LenProperties
<1>5. TriesEachOnce(tried, tried \cap throws, pairs)
  <2>1. 4 \in Nat /\ 4 >= 3 OBVIOUS
  <2> QED BY <1>4, <2>1, TrianglesOnce
<1>6. offered = IF tried \cap throws = {} THEN tried ELSE {}
  <2>1. tried \subseteq Loops(pairs) BY Zenon DEF LoopsTried, FirstLoops
  <2>2. offered = IF tried \cap throws # {} THEN {} ELSE UNION {each[l] : l \in tried}
    BY Zenon DEF EdgesOfChain
  <2> HIDE DEF tried, offered
  <2>3. UNION {each[l] : l \in tried} = tried
    <3>1. \A l \in tried : each[l] = {l} BY <2>1
    <3> HIDE DEF each
    <3> QED BY <3>1
  <2> QED BY <2>2, <2>3
<1> HIDE DEF tried, offered
<1>7. /\ decision'.about = "loops" /\ decision'.pairs = pairs /\ decision'.throws = throws
      /\ decision'.tried = tried /\ decision'.offered = offered
  BY <1>3
<1>8. /\ TriesEachOnce(decision'.tried, decision'.tried \cap decision'.throws, decision'.pairs)
      /\ decision'.offered = IF decision'.tried \cap decision'.throws = {} THEN decision'.tried ELSE {}
  BY <1>5, <1>6, <1>7
<1> QED BY <1>7, <1>8, Zenon DEF LoopsOnce, TriesEachOnce

\* The last of some places is one of them.
LEMMA LastPlace ==
  ASSUME NEW n \in Nat, NEW P \in SUBSET (1..n), P # {}
  PROVE  Max(P) \in P
<1> DEFINE Q == {n - i : i \in P}
<1>1. Q \in SUBSET Nat /\ Q # {}
  <2>1. PICK i \in P : TRUE OBVIOUS
  <2>2. n - i \in Q BY <2>1
  <2>3. \A j \in P : n - j \in Nat OBVIOUS
  <2> QED BY <2>2, <2>3
<1> HIDE DEF Q
<1>2. Min(Q) \in Q /\ \A k \in Q : Min(Q) <= k BY <1>1, FirstPlace
<1>3. PICK last \in P : Min(Q) = n - last BY <1>2 DEF Q
<1>4. ASSUME NEW i \in P PROVE i <= last
  <2>1. n - i \in Q BY DEF Q
  <2>2. n - last <= n - i BY <1>2, <1>3, <2>1
  <2> QED BY <2>2
<1> QED BY <1>4, Zenon DEF Max

\* Points of a venue that were measured.
AreMeasured(points) ==
  /\ DOMAIN points \subseteq 1..5
  /\ \A i \in DOMAIN points : points[i].amountBaseIn \in Nat /\ points[i].amountBaseIn > 0

\* The size suggested was measured, and fits where any does.
THEOREM SuggestionFits ==
  ASSUME NEW points, AreMeasured(points), DOMAIN points # {}, NEW tradeSize
  PROVE  LET amount == suggestBaseAmount(points, tradeSize)
         IN /\ \E i \in DOMAIN points : amount = points[i].amountBaseIn
            /\ validDepth(points) => depthAccepts(points, amount)
<1> DEFINE fitting == {i \in DOMAIN points : points[i].fits}
           amount == suggestBaseAmount(points, tradeSize)
<1>1. fitting \in SUBSET (1..5) /\ 5 \in Nat /\ DOMAIN points \in SUBSET Nat BY SMT DEF AreMeasured
<1>2. amount = points[IF fitting # {} THEN Max(fitting) ELSE Min(DOMAIN points)].amountBaseIn
  BY Zenon DEF suggestBaseAmount
<1>3. validDepth(points) <=> fitting # {} BY DEF validDepth
<1>4. CASE fitting = {}
  <2>1. Min(DOMAIN points) \in DOMAIN points BY <1>1, FirstPlace
  <2> HIDE DEF fitting, amount
  <2> QED BY <1>2, <1>3, <1>4, <2>1 DEF amount
<1>5. CASE fitting # {}
  <2> DEFINE last == Max(fitting)
             large == {i \in fitting : points[i].amountBaseIn >= amount}
             chosen == selectDepthPoint(points, amount)
  <2>1. last \in fitting
    <3> HIDE DEF fitting
    <3> QED BY <1>1, <1>5, LastPlace
  <2>2. amount = points[last].amountBaseIn BY <1>2, <1>5
  <2>3. last \in DOMAIN points BY <2>1
  <2>4. amount \in Nat /\ amount > 0 BY <2>2, <2>3 DEF AreMeasured
  <2> HIDE DEF last, amount
  <2>5. last \in large BY <2>1, <2>2, <2>4
  <2>6. large \in SUBSET Nat /\ large # {}
    <3>1. large \subseteq fitting OBVIOUS
    <3>2. fitting \subseteq Nat BY <1>1
    <3> HIDE DEF fitting
    <3> QED BY <2>5, <3>1, <3>2
  <2>7. chosen = points[IF large # {} THEN Min(large) ELSE Max(fitting)]
    BY Zenon DEF selectDepthPoint
  <2>8. Min(large) \in large
    <3> HIDE DEF large
    <3> QED BY <2>6, FirstPlace
  <2>9. chosen.amountBaseIn >= amount
    <3>1. points[Min(large)].amountBaseIn >= amount BY <2>8
    <3> HIDE DEF large, chosen
    <3> QED BY <2>6, <2>7, <3>1
  <2>10. depthAccepts(points, amount) BY <1>3, <1>5, <2>4, <2>9 DEF depthAccepts
  <2> QED BY <2>2, <2>3, <2>10 DEF amount
<1> QED BY <1>4, <1>5

\* What a venue was measured at, it pays something for.
LEMMA MeasuredPays ==
  ASSUME NEW tradeSize \in Nat, NEW brings
  PROVE  LET depth == Measured(tradeSize, brings)
         IN /\ DOMAIN depth \subseteq DOMAIN Tiers
            /\ \A i \in DOMAIN depth :
                 /\ depth[i].amountBaseIn = scaleAmount(tradeSize, Tiers[i]) /\ depth[i].amountBaseIn > 0
                 /\ brings[depth[i].amountBaseIn] > 0
<1> DEFINE amount == [i \in DOMAIN Tiers |-> scaleAmount(tradeSize, Tiers[i])]
           good(i) == amount[i] > 0 /\ brings[amount[i]] > 0
           ends(i) == Tiers[i] >= FullSize /\ amount[i] > 0 /\ ~good(i)
           enders == {i \in DOMAIN Tiers : ends(i)}
           last == IF \E i \in DOMAIN Tiers : ends(i) THEN Min(enders) - 1 ELSE Len(Tiers)
           point(i) == [multiplier |-> Tiers[i], amountBaseIn |-> amount[i], amountQuoteOut |-> brings[amount[i]]]
           depth == [i \in {j \in 1..last : good(j)} |-> point(i)]
<1>1. Measured(tradeSize, brings) = depth BY Zenon DEF Measured
<1>2. Len(Tiers) = 5 /\ DOMAIN Tiers = 1..5 BY DEF Tiers
<1>3. last \in Int /\ last <= 5
  <2>1. CASE \E i \in DOMAIN Tiers : ends(i)
    <3>1. enders \in SUBSET Nat /\ enders # {} BY <1>2, <2>1
    <3>2. last = Min(enders) - 1 BY <2>1
    <3>3. enders \subseteq 1..5 BY <1>2
    <3> DEFINE first == Min(enders)
    <3> HIDE DEF enders, last
    <3>4. first \in enders BY <3>1, FirstPlace
    <3> HIDE DEF first
    <3>5. first \in 1..5 BY <3>3, <3>4
    <3>6. last = first - 1 BY <3>2 DEF first
    <3> QED BY <3>5, <3>6
  <2>2. CASE ~\E i \in DOMAIN Tiers : ends(i) BY <1>2, <2>2
  <2> QED BY <2>1, <2>2
<1> HIDE DEF last
<1>4. DOMAIN depth \subseteq DOMAIN Tiers BY <1>2, <1>3
<1>5. \A i \in DOMAIN depth : good(i) /\ depth[i] = point(i) OBVIOUS
<1>6. \A i \in DOMAIN depth : depth[i].amountBaseIn = amount[i]
  <2> HIDE DEF amount, depth
  <2> QED BY <1>5
<1>7. \A i \in DOMAIN Tiers : amount[i] = scaleAmount(tradeSize, Tiers[i]) OBVIOUS
<1> HIDE DEF depth, amount
<1>8. \A i \in DOMAIN depth : /\ depth[i].amountBaseIn = scaleAmount(tradeSize, Tiers[i]) /\ depth[i].amountBaseIn > 0
                               /\ brings[depth[i].amountBaseIn] > 0
  BY <1>4, <1>5, <1>6, <1>7
<1> HIDE DEF good, point
<1> QED BY <1>1, <1>4, <1>8

\* A question for a venue's depth is answered soundly.
LEMMA DepthAnswered == AskDepth => decision'.about = "depth" /\ DepthSound'
<1> SUFFICES ASSUME AskDepth PROVE decision'.about = "depth" /\ DepthSound' OBVIOUS
<1>1. PICK price \in [{1, 2, 4, 6, 8} -> {0, 8, 9, 10}], maxSlippageBps \in {0, 1000} :
        decision' = [about |-> "depth", price |-> price,
                     points |-> refreshVenue(4, [a \in DOMAIN price |-> a * price[a]], maxSlippageBps)]
  BY Zenon DEF AskDepth, Decide
<1> DEFINE brings == [a \in DOMAIN price |-> a * price[a]]
           depth == Measured(4, brings)
           fits(i) == WithinSlippage(depth, depth[i], maxSlippageBps)
           points == refreshVenue(4, brings, maxSlippageBps)
           amount == suggestBaseAmount(points, 4)
<1>2. decision' = [about |-> "depth", price |-> price, points |-> points] BY <1>1
<1>3. /\ DOMAIN depth \subseteq DOMAIN Tiers
      /\ \A i \in DOMAIN depth :
           /\ depth[i].amountBaseIn = scaleAmount(4, Tiers[i]) /\ depth[i].amountBaseIn > 0
           /\ brings[depth[i].amountBaseIn] > 0
  <2> HIDE DEF brings
  <2> QED BY MeasuredPays
<1>4. /\ DOMAIN points = DOMAIN depth
      /\ \A i \in DOMAIN points : points[i].amountBaseIn = depth[i].amountBaseIn
  <2>1. points = [i \in DOMAIN depth |->
                    [multiplier |-> depth[i].multiplier, amountBaseIn |-> depth[i].amountBaseIn,
                     amountQuoteOut |-> depth[i].amountQuoteOut, fits |-> fits(i)]]
    BY Zenon DEF refreshVenue
  <2> HIDE DEF points, depth, fits
  <2> QED BY <2>1
<1>5. \A i \in DOMAIN Tiers : scaleAmount(4, Tiers[i]) \in {1, 2, 4, 6, 8}
  <2>1. DOMAIN Tiers = 1..5 /\ Tiers[1] = 1 /\ Tiers[2] = 2 /\ Tiers[3] = 4 /\ Tiers[4] = 6 /\ Tiers[5] = 8
    BY DEF Tiers
  <2> QED BY <2>1 DEF scaleAmount, FullSize
<1> HIDE DEF points, depth
<1>6. \A i \in DOMAIN points : points[i].amountBaseIn \in {1, 2, 4, 6, 8} /\ points[i].amountBaseIn > 0
                               /\ brings[points[i].amountBaseIn] > 0
  BY <1>3, <1>4, <1>5
<1>7. \A a \in {1, 2, 4, 6, 8} : brings[a] > 0 => price[a] > 0
  <2> SUFFICES ASSUME NEW a \in {1, 2, 4, 6, 8}, brings[a] > 0 PROVE price[a] > 0 OBVIOUS
  <2>1. brings[a] = a * price[a] OBVIOUS
  <2>2. price[a] \in {0, 8, 9, 10} OBVIOUS
  <2>3. price[a] = 0 => a * price[a] = 0 BY SMT
  <2> HIDE DEF brings
  <2> QED BY <2>1, <2>2, <2>3
<1>8. AreMeasured(points)
  <2>1. DOMAIN Tiers = 1..5 BY DEF Tiers
  <2>2. DOMAIN points \subseteq 1..5 BY <1>3, <1>4, <2>1
  <2> HIDE DEF brings
  <2>3. \A i \in DOMAIN points : points[i].amountBaseIn \in Nat /\ points[i].amountBaseIn > 0 BY <1>6
  <2> QED BY <2>2, <2>3 DEF AreMeasured
<1>9. ASSUME DOMAIN points # {}
      PROVE  /\ amount \in DOMAIN price /\ price[amount] > 0
             /\ validDepth(points) => depthAccepts(points, amount)
  <2>1. /\ \E i \in DOMAIN points : amount = points[i].amountBaseIn
        /\ validDepth(points) => depthAccepts(points, amount)
    BY <1>8, <1>9, SuggestionFits
  <2> HIDE DEF amount, brings
  <2>2. amount \in {1, 2, 4, 6, 8} /\ brings[amount] > 0 BY <1>6, <2>1
  <2> QED BY <1>7, <2>1, <2>2
<1> HIDE DEF amount
<1>10. decision'.about = "depth" /\ decision'.price = price /\ decision'.points = points BY <1>2
<1> QED BY <1>9, <1>10, Zenon DEF DepthSound, amount
-----------------------------------------------------------------------------
(* The arbitrage fabric: what an edge holds. *)

\* A division keeps the order.
LEMMA DivisionGrows ==
  ASSUME NEW x \in Nat, NEW y \in Nat, x <= y, NEW d \in Nat, d > 0
  PROVE  x \div d <= y \div d
<1> DEFINE p == x \div d
           q == y \div d
<1>1. p \in Nat /\ p * d <= x /\ q \in Nat /\ y < (q + 1) * d BY Quotient
<1> HIDE DEF p, q
<1>2. CASE q + 1 <= p
  <2>1. (q + 1) * d <= p * d BY <1>1, <1>2, Monotone
  <2> DEFINE a == (q + 1) * d
             b == p * d
  <2>2. a \in Int /\ b \in Int BY <1>1
  <2>3. a <= b /\ b <= x /\ y < a BY <1>1, <2>1
  <2> HIDE DEF a, b
  <2> QED BY <2>2, <2>3
<1>3. CASE ~(q + 1 <= p)
  <2>1. p <= q BY <1>1, <1>3
  <2> QED BY <2>1 DEF p, q
<1> QED BY <1>2, <1>3

\* Slippage off the larger leaves the larger.
LEMMA SlippageGrows ==
  ASSUME NEW x \in Nat, NEW y \in Nat, x <= y, NEW bps \in Int
  PROVE  applySlippage(x, bps) <= applySlippage(y, bps)
<1> DEFINE c == 10000 - clamp(bps, 0, 10000)
           d == 10000
<1>1. c \in Nat BY SMT DEF clamp
<1>2. d \in Nat /\ d > 0 OBVIOUS
<1>3. applySlippage(x, bps) = (x * c) \div d /\ applySlippage(y, bps) = (y * c) \div d BY SMT DEF applySlippage
<1> HIDE DEF c, d
<1>4. x * c \in Nat /\ y * c \in Nat BY <1>1, SMT
<1>5. x * c <= y * c BY <1>1, Monotone
<1> DEFINE a == x * c
           b == y * c
<1> HIDE DEF a, b
<1>6. a \div d <= b \div d BY <1>2, <1>4, <1>5, DivisionGrows DEF a, b
<1> QED BY <1>3, <1>6 DEF a, b

\* What EdgesSound asks of an edge of either solver.
Closes(edge, minNetUsd) ==
  LET legs == edge.legs
      path == buildPath(legs)
  IN /\ \A i \in DOMAIN legs : i > 1 => /\ legs[i].tokenIn = legs[i - 1].tokenOut
                                        /\ legs[i].amountIn = legs[i - 1].minAmountOut
     /\ legs[1].amountIn = edge.sizeIn /\ Last(legs).minAmountOut = edge.finalOut
     /\ edge.netUsd >= minNetUsd
     /\ path # NoPath /\ Head(path.tokens) = Last(path.tokens)
     /\ Len(path.tokens) = Len(path.fees) + 1
     /\ \A bps \in Bps : amountOutMinimum(edge, bps) >= applySlippage(edge.sizeIn, bps)

\* Legs between known tokens that come back to where they start make a path.
LEMMA PathCloses ==
  ASSUME NEW n \in Nat, n > 0, NEW legs, DOMAIN legs = 1..n, Len(legs) = n,
         \A i \in 1..n : legs[i].feeBps \in Nat, \A i \in 1..n : legs[i].feeBps > 0,
         \A i \in 1..n : legs[i].tokenOut \in Tokens, legs[1].tokenIn \in Tokens,
         legs[n].tokenOut = legs[1].tokenIn
  PROVE  LET path == buildPath(legs)
         IN path # NoPath /\ Head(path.tokens) = Last(path.tokens) /\ Len(path.tokens) = Len(path.fees) + 1
<1> DEFINE start == <<legs[1].tokenIn>>
           outs == [i \in DOMAIN legs |-> legs[i].tokenOut]
           fees == [i \in DOMAIN legs |-> legs[i].feeBps]
           tokens == start \o outs
           path == buildPath(legs)
<1>1. ~\E i \in DOMAIN legs : legs[i].feeBps <= 0 BY SMT
<1>2. path = [tokens |-> tokens, fees |-> fees] BY <1>1, Zenon DEF buildPath
<1>3. start \in Seq(Tokens) /\ Len(start) = 1 /\ start[1] = legs[1].tokenIn
  <2> HIDE DEF Tokens
  <2> QED OBVIOUS
<1>4. outs \in [1..n -> Tokens]
  <2> HIDE DEF Tokens
  <2> QED OBVIOUS
<1>5. fees \in [1..n -> Nat] OBVIOUS
<1>6. outs[n] = legs[1].tokenIn OBVIOUS
<1> HIDE DEF start, outs, fees, tokens, path, Tokens
<1>7. outs \in Seq(Tokens) /\ Len(outs) = n BY <1>4
<1>8. fees \in Seq(Nat) /\ Len(fees) = n BY <1>5
<1>9. /\ tokens \in Seq(Tokens) /\ Len(tokens) = 1 + n
      /\ tokens[1] = start[1] /\ tokens[n + 1] = outs[n]
  <2>1. /\ start \o outs \in Seq(Tokens) /\ Len(start \o outs) = Len(start) + Len(outs)
        /\ \A i \in 1..(Len(start) + Len(outs)) :
             (start \o outs)[i] = IF i <= Len(start) THEN start[i] ELSE outs[i - Len(start)]
    BY <1>3, <1>7, ConcatProperties
  <2>2. 1 \in 1..(1 + n) /\ n + 1 \in 1..(1 + n) /\ ~(n + 1 <= 1) /\ (n + 1) - 1 = n /\ 1 <= 1 OBVIOUS
  <2> QED BY <1>3, <1>7, <2>1, <2>2 DEF tokens
<1>10. path.tokens = tokens /\ path.fees = fees /\ path \in [tokens : Seq(Tokens), fees : Seq(Nat)]
  BY <1>2, <1>8, <1>9
<1>11. Head(tokens) = tokens[1] /\ Last(tokens) = tokens[n + 1]
  <2>1. tokens # <<>> BY <1>9
  <2>2. Last(tokens) = tokens[Len(tokens)] BY DEF Last
  <2> QED BY <1>9, <2>1, <2>2
<1> QED BY <1>3, <1>6, <1>8, <1>9, <1>10, <1>11, PathAssumption DEF path

\* An edge of such legs, each handed what the one before gives, that brings no less
\* than it takes and clears the floor.
LEMMA EdgeCloses ==
  ASSUME NEW edge, NEW legs, edge.legs = legs, NEW n \in Nat, n > 0, DOMAIN legs = 1..n, Len(legs) = n,
         \A i \in 1..n : legs[i].feeBps \in Nat, \A i \in 1..n : legs[i].feeBps > 0,
         \A i \in 1..n : legs[i].tokenOut \in Tokens, legs[1].tokenIn \in Tokens,
         legs[n].tokenOut = legs[1].tokenIn,
         \A i \in 2..n : legs[i].tokenIn = legs[i - 1].tokenOut,
         \A i \in 2..n : legs[i].amountIn = legs[i - 1].minAmountOut,
         legs[1].amountIn = edge.sizeIn, legs[n].minAmountOut = edge.finalOut,
         edge.sizeIn \in Nat, edge.finalOut \in Nat, edge.sizeIn > 0, edge.sizeIn <= edge.finalOut,
         NEW minNetUsd, edge.netUsd >= minNetUsd
  PROVE  Closes(edge, minNetUsd)
<1>1. \A i \in DOMAIN legs : i > 1 => /\ legs[i].tokenIn = legs[i - 1].tokenOut
                                      /\ legs[i].amountIn = legs[i - 1].minAmountOut
  <2> HIDE DEF Tokens
  <2> QED OBVIOUS
<1>2. Last(legs).minAmountOut = edge.finalOut
  <2>1. Last(legs) = legs[n] BY DEF Last
  <2> QED BY <2>1
<1>3. LET path == buildPath(legs)
      IN path # NoPath /\ Head(path.tokens) = Last(path.tokens) /\ Len(path.tokens) = Len(path.fees) + 1
  <2> HIDE DEF Tokens
  <2> QED BY PathCloses
<1>4. \A bps \in Bps : amountOutMinimum(edge, bps) >= applySlippage(edge.sizeIn, bps)
  <2> SUFFICES ASSUME NEW bps \in Bps PROVE amountOutMinimum(edge, bps) >= applySlippage(edge.sizeIn, bps) OBVIOUS
  <2>1. bps \in Int BY SMT DEF Bps
  <2>2. amountOutMinimum(edge, bps) = applySlippage(edge.finalOut, bps) BY SMT DEF amountOutMinimum
  <2>3. applySlippage(edge.sizeIn, bps) <= applySlippage(edge.finalOut, bps) BY <2>1, SlippageGrows
  <2>4. \A x \in Nat : applySlippage(x, bps) \in Int
    <3>1. 10000 - clamp(bps, 0, 10000) \in Nat BY <2>1, SMT DEF clamp
    <3> QED BY <3>1, SMT DEF applySlippage
  <2> QED BY <2>2, <2>3, <2>4
<1> QED BY <1>1, <1>2, <1>3, <1>4, Zenon DEF Closes

\* A pair whose venues answer with numbers at the sizes they can be asked about.
IsPair(pair) ==
  /\ pair.tradeSize \in Nat /\ pair.tradeSize > 0
  /\ \A v \in pair.venues : pair.suggested[v] \in Nat /\ pair.fee[v] \in Nat /\ pair.fee[v] > 0
  /\ \A v \in pair.venues : \A a \in 1..pair.tradeSize : pair.sold[v][a] \in Nat
  /\ \A v, w \in pair.venues : \A a \in 1..pair.tradeSize : pair.bought[w][pair.sold[v][a]] \in Nat

\* The least of the sizes that are one, or none.
LEMMA PickedAmount ==
  ASSUME NEW candidates \in SUBSET Nat, pickTradeAmount(candidates) > 0
  PROVE  /\ pickTradeAmount(candidates) \in candidates
         /\ \A a \in candidates : a > 0 => pickTradeAmount(candidates) <= a
<1> DEFINE known == {a \in candidates : a > 0}
           picked == pickTradeAmount(candidates)
<1>1. picked = IF known = {} THEN 0 ELSE Min(known) BY Zenon DEF pickTradeAmount
<1>2. known # {} BY <1>1, SMT
<1>3. known \in SUBSET Nat OBVIOUS
<1>4. picked = Min(known) BY <1>1, <1>2
<1> HIDE DEF known, picked
<1>5. picked \in known /\ \A a \in known : picked <= a BY <1>2, <1>3, <1>4, FirstPlace
<1> QED BY <1>5 DEF known, picked

\* A round trip that is offered closes, clears the floor and asks for no more than the
\* sizes suggested for its venues and configured.
THEOREM RoundTripCloses ==
  ASSUME NEW pair, IsPair(pair), NEW edge \in computeEdgesForPair(pair)
  PROVE  /\ Closes(edge, pair.minNetUsd) /\ edge.source = "single-hop"
         /\ \E v, w \in pair.venues :
              /\ v # w
              /\ \A size \in {pair.tradeSize, pair.suggested[v], pair.suggested[w]} :
                   size > 0 => edge.sizeIn <= size
<1>1. PICK v, w \in pair.venues : v # w /\ edge = SingleHop(pair, v, w)
  <2>1. PICK vw \in {vw \in pair.venues \X pair.venues : vw[1] # vw[2] /\ ~pair.estimateLow[vw[1]][vw[2]]} :
          edge = SingleHop(pair, vw[1], vw[2])
    BY Zenon DEF computeEdgesForPair
  <2>2. vw[1] \in pair.venues /\ vw[2] \in pair.venues /\ vw[1] # vw[2] BY <2>1
  <2> QED BY <2>1, <2>2
<1>2. edge.sizeIn > 0 /\ edge.finalOut > edge.sizeIn /\ PassesFloors(edge, pair.minNetUsd, pair.pnlMultipleMin)
  BY Zenon DEF computeEdgesForPair
<1> DEFINE sizes == {pair.tradeSize, pair.suggested[v], pair.suggested[w]}
           amount == pickTradeAmount(sizes)
           mid == IF amount = 0 THEN 0 ELSE pair.sold[v][amount]
           back == IF mid = 0 THEN 0 ELSE pair.bought[w][mid]
           first == Leg("base", "quote", pair.fee[v], amount, mid)
           second == Leg("quote", "base", pair.fee[w], mid, back)
           legs == <<first, second>>
           net == (back - amount) * pair.priceUsd
<1>3. edge = [source |-> "single-hop", sizeIn |-> amount, finalOut |-> back, netUsd |-> net,
              gasUsd |-> pair.gasUsd, legs |-> legs]
  BY <1>1, Zenon DEF SingleHop, SingleHopEdge
<1>4. sizes \in SUBSET Nat BY SMT DEF IsPair
<1> HIDE DEF net, legs, back, mid, amount
<1>5. /\ edge.source = "single-hop" /\ edge.sizeIn = amount /\ edge.finalOut = back /\ edge.legs = legs
  BY <1>3
<1>6. amount > 0 /\ back > amount BY <1>2, <1>5
<1>7. amount \in sizes /\ \A a \in sizes : a > 0 => amount <= a
  <2> HIDE DEF sizes
  <2> QED BY <1>4, <1>6, PickedAmount DEF amount
<1>8. amount \in 1..pair.tradeSize
  <2>1. amount \in Nat BY <1>4, <1>7
  <2>2. pair.tradeSize \in Nat /\ pair.tradeSize > 0 /\ pair.tradeSize \in sizes BY DEF IsPair
  <2>3. amount <= pair.tradeSize BY <1>7, <2>2
  <2> HIDE DEF sizes
  <2> QED BY <1>6, <2>1, <2>2, <2>3
<1>9. amount \in Nat /\ pair.tradeSize \in Nat /\ amount <= pair.tradeSize
  BY <1>8 DEF IsPair
<1>10. amount # 0 BY <1>6, <1>9
<1>11. mid = pair.sold[v][amount] /\ mid \in Nat
  <2>1. mid = pair.sold[v][amount] BY <1>10 DEF mid
  <2> HIDE DEF sizes
  <2> QED BY <1>8, <2>1 DEF IsPair
<1>12. back = pair.bought[w][mid] /\ back \in Nat
  <2>1. mid # 0
    <3>1. mid = 0 => back = 0 BY DEF back
    <3> QED BY <3>1, <1>6, <1>9
  <2>2. back = pair.bought[w][mid] BY <2>1 DEF back
  <2>3. pair.bought[w][pair.sold[v][amount]] \in Nat
    <3> HIDE DEF sizes
    <3> QED BY <1>8 DEF IsPair
  <2> QED BY <1>11, <2>2, <2>3
<1>13. edge.netUsd >= pair.minNetUsd BY <1>2 DEF PassesFloors
<1>14. DOMAIN legs = 1..2 /\ Len(legs) = 2 /\ legs[1] = first /\ legs[2] = second BY DEF legs
<1>15. /\ first.tokenIn = "base" /\ first.tokenOut = "quote" /\ first.feeBps = pair.fee[v]
       /\ first.amountIn = amount /\ first.minAmountOut = mid
       /\ second.tokenIn = "quote" /\ second.tokenOut = "base" /\ second.feeBps = pair.fee[w]
       /\ second.amountIn = mid /\ second.minAmountOut = back
  BY DEF Leg
<1>16. pair.fee[v] \in Nat /\ pair.fee[v] > 0 /\ pair.fee[w] \in Nat /\ pair.fee[w] > 0 BY DEF IsPair
<1>17. {"base", "quote"} \subseteq Tokens BY DEF Tokens
<1> HIDE DEF first, second, sizes
<1>18. \A i \in 1..2 : i = 1 \/ i = 2 OBVIOUS
<1>19. /\ \A i \in 1..2 : legs[i].feeBps \in Nat
       /\ \A i \in 1..2 : legs[i].feeBps > 0
       /\ \A i \in 1..2 : legs[i].tokenOut \in Tokens
       /\ legs[1].tokenIn \in Tokens /\ legs[2].tokenOut = legs[1].tokenIn
       /\ legs[1].amountIn = edge.sizeIn /\ legs[2].minAmountOut = edge.finalOut
  BY <1>5, <1>14, <1>15, <1>16, <1>17, <1>18
<1>20. /\ \A i \in 2..2 : legs[i].tokenIn = legs[i - 1].tokenOut
       /\ \A i \in 2..2 : legs[i].amountIn = legs[i - 1].minAmountOut
  <2>1. \A i \in 2..2 : i = 2 /\ i - 1 = 1 OBVIOUS
  <2> QED BY <1>14, <1>15, <2>1
<1>21. edge.sizeIn \in Nat /\ edge.finalOut \in Nat /\ edge.sizeIn > 0 /\ edge.sizeIn <= edge.finalOut
  BY <1>5, <1>6, <1>9, <1>12
<1>22. Closes(edge, pair.minNetUsd)
  <2>1. 2 \in Nat /\ 2 > 0 OBVIOUS
  <2> QED BY <1>5, <1>13, <1>14, <1>19, <1>20, <1>21, <2>1, EdgeCloses
<1>23. \A size \in sizes : size > 0 => edge.sizeIn <= size BY <1>5, <1>7
<1> QED BY <1>1, <1>5, <1>22, <1>23 DEF sizes

\* A question for the round trips of a pair is answered soundly.
LEMMA SingleHopAnswered == AskSingleHop => decision'.about = "edges" /\ EdgesSound'
<1> SUFFICES ASSUME AskSingleHop PROVE decision'.about = "edges" /\ EdgesSound' OBVIOUS
<1> DEFINE sales(rate) == [v \in {1, 2} |-> [a \in 0..3 |-> (a * rate[v]) \div 2]]
           returns(back) == [v \in {1, 2} |-> [q \in 0..9 |-> q * back[v]]]
           lows(low) == [v \in {1, 2} |-> [w \in {1, 2} |-> low[v]]]
           asked(suggested, rate, back, fee, gas, multiple, low) ==
             [venues |-> {1, 2}, fee |-> fee, tradeSize |-> 3, suggested |-> suggested,
              sold |-> sales(rate), bought |-> returns(back), estimateLow |-> lows(low),
              pricesKnown |-> TRUE, priceUsd |-> 1, gasUsd |-> gas, minNetUsd |-> 1,
              pnlMultipleMin |-> multiple]
<1>1. PICK suggested \in [{1, 2} -> {0, 2, 3}], rate, back \in [{1, 2} -> 0..3], fee \in [{1, 2} -> {5, 30}],
           gas \in {0, 1}, multiple \in {0, 2}, low \in [{1, 2} -> BOOLEAN] :
        decision' = [about |-> "edges", pair |-> asked(suggested, rate, back, fee, gas, multiple, low), minNetUsd |-> 1,
                     edges |-> computeEdgesForPair(asked(suggested, rate, back, fee, gas, multiple, low))]
  BY Zenon DEF AskSingleHop, Decide
<1> DEFINE sold == sales(rate)
           bought == returns(back)
           estimate == lows(low)
           pair == asked(suggested, rate, back, fee, gas, multiple, low)
           edges == computeEdgesForPair(pair)
<1>2. decision' = [about |-> "edges", pair |-> pair, minNetUsd |-> 1, edges |-> edges] BY <1>1
<1>3. pair = [venues |-> {1, 2}, fee |-> fee, tradeSize |-> 3, suggested |-> suggested,
              sold |-> sold, bought |-> bought, estimateLow |-> estimate,
              pricesKnown |-> TRUE, priceUsd |-> 1, gasUsd |-> gas, minNetUsd |-> 1,
              pnlMultipleMin |-> multiple]
  OBVIOUS
<1>4. \A v \in {1, 2} : \A a \in 0..3 : sold[v][a] = (a * rate[v]) \div 2 OBVIOUS
<1>5. \A v \in {1, 2} : \A q \in 0..9 : bought[v][q] = q * back[v] OBVIOUS
<1> HIDE DEF sold, bought, estimate, pair, edges
<1>6. /\ pair.venues = {1, 2} /\ pair.fee = fee /\ pair.tradeSize = 3 /\ pair.suggested = suggested
      /\ pair.sold = sold /\ pair.bought = bought /\ pair.minNetUsd = 1
  BY <1>3
<1>7. \A v \in {1, 2} : \A a \in 1..3 : sold[v][a] \in 0..4
  <2> SUFFICES ASSUME NEW v \in {1, 2}, NEW a \in 1..3 PROVE sold[v][a] \in 0..4 OBVIOUS
  <2> DEFINE r == rate[v]
  <2>1. r \in 0..3 OBVIOUS
  <2>2. sold[v][a] = (a * r) \div 2 BY <1>4
  <2> HIDE DEF r
  <2>3. r = 0 \/ r = 1 \/ r = 2 \/ r = 3 BY <2>1
  <2>4. a = 1 \/ a = 2 \/ a = 3 OBVIOUS
  <2> QED BY <2>2, <2>3, <2>4
<1>8. \A w \in {1, 2} : \A q \in 0..4 : bought[w][q] \in Nat
  <2> SUFFICES ASSUME NEW w \in {1, 2}, NEW q \in 0..4 PROVE bought[w][q] \in Nat OBVIOUS
  <2> DEFINE r == back[w]
  <2>1. r \in Nat OBVIOUS
  <2>2. bought[w][q] = q * r BY <1>5
  <2> HIDE DEF r
  <2> QED BY <2>1, <2>2
<1>9. \A v \in {1, 2} : suggested[v] \in Nat /\ fee[v] \in Nat /\ fee[v] > 0 OBVIOUS
<1>10. IsPair(pair)
  <2>1. \A v, w \in {1, 2} : \A a \in 1..3 : bought[w][sold[v][a]] \in Nat BY <1>7, <1>8
  <2>2. \A v \in {1, 2} : \A a \in 1..3 : sold[v][a] \in Nat BY <1>7
  <2> QED BY <1>6, <1>9, <2>1, <2>2, SMT DEF IsPair
<1>11. \A edge \in edges :
         /\ Closes(edge, 1) /\ edge.source = "single-hop"
         /\ \E v, w \in {1, 2} : /\ v # w
                                 /\ \A size \in {3, suggested[v], suggested[w]} : size > 0 => edge.sizeIn <= size
  BY <1>6, <1>10, RoundTripCloses DEF edges
<1>12. /\ decision'.about = "edges" /\ decision'.pair = pair /\ decision'.minNetUsd = 1 /\ decision'.edges = edges
  BY <1>2
<1>13. ASSUME NEW edge \in edges
       PROVE  /\ Closes(edge, 1) /\ edge.source # "triangular"
              /\ \A size \in {3} \cup {suggested[v] : v \in {1, 2}} : size > 0 => edge.sizeIn <= size
  <2>1. edge.source # "triangular" BY <1>11, <1>13
  <2>2. PICK v, w \in {1, 2} : v # w /\ \A size \in {3, suggested[v], suggested[w]} : size > 0 => edge.sizeIn <= size
    BY <1>11, <1>13
  <2>3. \A x \in {1, 2} : x = v \/ x = w BY <2>2
  <2> QED BY <1>11, <1>13, <2>1, <2>2, <2>3
<1>14. \A edge \in decision'.edges :
         /\ Closes(edge, decision'.minNetUsd) /\ edge.source # "triangular"
         /\ \A size \in {decision'.pair.tradeSize} \cup {decision'.pair.suggested[v] : v \in decision'.pair.venues} :
              size > 0 => edge.sizeIn <= size
  BY <1>6, <1>12, <1>13
<1> QED BY <1>12, <1>14, Zenon DEF EdgesSound, Closes

\* The point a depth is trusted with fits.
LEMMA SelectedFits ==
  ASSUME NEW points, DOMAIN points \subseteq 1..5, validDepth(points), NEW amount
  PROVE  \E p \in DOMAIN points : points[p].fits /\ selectDepthPoint(points, amount) = points[p]
<1> DEFINE fitting == {i \in DOMAIN points : points[i].fits}
           large == {i \in fitting : points[i].amountBaseIn >= amount}
<1>1. fitting \in SUBSET (1..5) /\ fitting # {} BY DEF validDepth
<1>2. selectDepthPoint(points, amount) = points[IF large # {} THEN Min(large) ELSE Max(fitting)]
  BY Zenon DEF selectDepthPoint
<1>3. large \in SUBSET Nat /\ large \subseteq fitting
  <2>1. large \subseteq fitting OBVIOUS
  <2>2. fitting \subseteq Nat BY <1>1
  <2> HIDE DEF fitting, large
  <2> QED BY <2>1, <2>2
<1>4. large # {} => Min(large) \in large
  <2> HIDE DEF large
  <2> QED BY <1>3, FirstPlace
<1>5. Max(fitting) \in fitting
  <2> HIDE DEF fitting
  <2> QED BY <1>1, LastPlace
<1> DEFINE p == IF large # {} THEN Min(large) ELSE Max(fitting)
<1> HIDE DEF large
<1>6. p \in fitting BY <1>3, <1>4, <1>5
<1>7. selectDepthPoint(points, amount) = points[p] BY <1>2
<1> HIDE DEF p
<1> QED BY <1>6, <1>7

\* Three legs between known tokens over measured venues, which bring a number for what
\* each is asked.
IsTriangle(legs) ==
  /\ \A i \in 1..3 : legs[i].token \in Tokens /\ legs[i].fee \in Nat /\ legs[i].fee > 0
  /\ \A i \in 1..3 : DOMAIN legs[i].points \subseteq 1..5
  /\ \A p \in DOMAIN legs[1].points :
       /\ legs[1].points[p].amountBaseIn \in Nat
       /\ legs[3].out[legs[2].out[legs[1].out[legs[1].points[p].amountBaseIn]]] \in Nat

\* A triangle that is offered closes, clears the floor and hands no leg more than a
\* point within the slippage was measured at; none of its quotes threw.
THEOREM TriangleCloses ==
  ASSUME NEW legs, IsTriangle(legs), NEW fresh, NEW tradeSize, NEW priceUsd, NEW gas, NEW minNetUsd, NEW multiple,
         NEW edge \in buildLoopEdge(legs, fresh, tradeSize, priceUsd, gas, minNetUsd, multiple)
  PROVE  /\ Closes(edge, minNetUsd) /\ edge.source = "triangular"
         /\ ~LoopThrows(legs, fresh, tradeSize, priceUsd)
         /\ \A i \in DOMAIN edge.legs : \E p \in DOMAIN legs[i].points :
              legs[i].points[p].fits /\ edge.legs[i].amountIn <= legs[i].points[p].amountBaseIn
<1> DEFINE deep == \A i \in 1..3 : validDepth(legs[i].points)
           asked == suggestBaseAmount(legs[1].points, tradeSize)
           start == StartOf(legs, tradeSize)
           mid == legs[1].out[start]
           last == legs[2].out[mid]
           back == legs[3].out[last]
           net == (back - start) * priceUsd
           gases == (gas * 18) \div 10
           first == Leg(legs[1].token, legs[2].token, legs[1].fee, start, mid)
           second == Leg(legs[2].token, legs[3].token, legs[2].fee, mid, last)
           third == Leg(legs[3].token, legs[1].token, legs[3].fee, last, back)
           sold == <<first, second, third>>
           made == [source |-> "triangular", sizeIn |-> start, finalOut |-> back,
                    netUsd |-> net, gasUsd |-> gases, legs |-> sold]
           taken == /\ Asks(3, legs, fresh, tradeSize, priceUsd) /\ ~legs[3].throws
                    /\ back > start /\ made.gasUsd > 0
                    /\ PassesFloors(made, minNetUsd, multiple)
<1>20. \A i \in {1, 2, 3} : DOMAIN legs[i].points \subseteq 1..5
  <2>1. \A i \in 1..3 : DOMAIN legs[i].points \subseteq 1..5 BY Zenon DEF IsTriangle
  <2>2. {1, 2, 3} \subseteq 1..3 OBVIOUS
  <2> QED BY <2>1, <2>2, Zenon
<1>1. buildLoopEdge(legs, fresh, tradeSize, priceUsd, gas, minNetUsd, multiple) = IF taken THEN {made} ELSE {}
  BY Zenon DEF buildLoopEdge
<1> HIDE DEF taken, made
<1>2. edge = made /\ taken BY <1>1
<1>21. /\ deep /\ start > 0 /\ mid > 0 /\ depthAccepts(legs[2].points, mid)
       /\ last > 0 /\ depthAccepts(legs[3].points, last)
       /\ ~LoopThrows(legs, fresh, tradeSize, priceUsd)
  <2> DEFINE handed == HandedOn(legs, tradeSize)
  <2>1. handed = <<start, mid, last>> BY Zenon DEF HandedOn
  <2> HIDE DEF start, mid, last
  <2>2. handed[1] = start /\ handed[2] = mid /\ handed[3] = last BY <2>1
  <2> HIDE DEF handed
  <2>3. Asks(3, legs, fresh, tradeSize, priceUsd) /\ ~legs[3].throws BY <1>2 DEF taken
  <2>4. /\ deep /\ \A leg \in 1..(3 - 1) : ~legs[leg].throws
        /\ \A leg \in 1..3 : handed[leg] > 0
        /\ \A leg \in 2..3 : depthAccepts(legs[leg].points, handed[leg])
    BY <2>3, Zenon DEF Asks, handed
  <2>5. {1, 2, 3} \subseteq 1..3 /\ {2, 3} \subseteq 2..3 /\ {1, 2} \subseteq 1..(3 - 1) /\ 1..3 \subseteq {1, 2, 3} OBVIOUS
  <2>6. \A leg \in {1, 2, 3} : handed[leg] > 0 BY <2>4, <2>5, Zenon
  <2>7. \A leg \in {2, 3} : depthAccepts(legs[leg].points, handed[leg]) BY <2>4, <2>5, Zenon
  <2>8. \A leg \in {1, 2} : ~legs[leg].throws BY <2>4, <2>5, Zenon
  <2>9. \A leg \in {1, 2, 3} : ~legs[leg].throws BY <2>3, <2>8
  <2>10. ~LoopThrows(legs, fresh, tradeSize, priceUsd) BY <2>5, <2>9, Zenon DEF LoopThrows
  <2> QED BY <2>2, <2>4, <2>6, <2>7, <2>10
<1>22. start = selectDepthPoint(legs[1].points, asked).amountBaseIn BY DEF StartOf
<1> HIDE DEF net, gases, sold, start, mid, last, back, asked
<1>3. edge.source = "triangular" /\ edge.sizeIn = start /\ edge.finalOut = back /\ edge.legs = sold
  BY <1>2 DEF made
<1>4. /\ deep /\ start > 0 /\ mid > 0 /\ depthAccepts(legs[2].points, mid)
      /\ last > 0 /\ depthAccepts(legs[3].points, last) /\ back > start
      /\ edge.netUsd >= minNetUsd
  BY <1>2, <1>21, Zenon DEF taken, PassesFloors
<1>5. PICK p \in DOMAIN legs[1].points :
         legs[1].points[p].fits /\ selectDepthPoint(legs[1].points, asked) = legs[1].points[p]
  <2>1. DOMAIN legs[1].points \subseteq 1..5 BY <1>20
  <2>2. validDepth(legs[1].points) BY <1>4
  <2> QED BY <2>1, <2>2, SelectedFits
<1>6. start = legs[1].points[p].amountBaseIn BY <1>5, <1>22
<1>7. start \in Nat /\ back \in Nat BY <1>6 DEF IsTriangle, mid, last, back
<1>8. \E q \in DOMAIN legs[2].points : legs[2].points[q].fits /\ mid <= legs[2].points[q].amountBaseIn
  <2>1. DOMAIN legs[2].points \subseteq 1..5 BY <1>20
  <2>2. validDepth(legs[2].points) /\ selectDepthPoint(legs[2].points, mid).amountBaseIn >= mid BY <1>4 DEF depthAccepts
  <2>3. PICK q \in DOMAIN legs[2].points :
           legs[2].points[q].fits /\ selectDepthPoint(legs[2].points, mid) = legs[2].points[q]
    BY <2>1, <2>2, SelectedFits
  <2> QED BY <2>2, <2>3
<1>9. \E q \in DOMAIN legs[3].points : legs[3].points[q].fits /\ last <= legs[3].points[q].amountBaseIn
  <2>1. DOMAIN legs[3].points \subseteq 1..5 BY <1>20
  <2>2. validDepth(legs[3].points) /\ selectDepthPoint(legs[3].points, last).amountBaseIn >= last BY <1>4 DEF depthAccepts
  <2>3. PICK q \in DOMAIN legs[3].points :
           legs[3].points[q].fits /\ selectDepthPoint(legs[3].points, last) = legs[3].points[q]
    BY <2>1, <2>2, SelectedFits
  <2> QED BY <2>2, <2>3
<1>10. DOMAIN sold = 1..3 /\ Len(sold) = 3 /\ sold[1] = first /\ sold[2] = second /\ sold[3] = third BY DEF sold
<1>11. /\ first.tokenIn = legs[1].token /\ first.tokenOut = legs[2].token /\ first.feeBps = legs[1].fee
       /\ first.amountIn = start /\ first.minAmountOut = mid
       /\ second.tokenIn = legs[2].token /\ second.tokenOut = legs[3].token /\ second.feeBps = legs[2].fee
       /\ second.amountIn = mid /\ second.minAmountOut = last
       /\ third.tokenIn = legs[3].token /\ third.tokenOut = legs[1].token /\ third.feeBps = legs[3].fee
       /\ third.amountIn = last /\ third.minAmountOut = back
  BY DEF Leg
<1> HIDE DEF first, second, third
<1>12. \A i \in 1..3 : i = 1 \/ i = 2 \/ i = 3 OBVIOUS
<1>13. \A i \in 1..3 : legs[i].token \in Tokens /\ legs[i].fee \in Nat /\ legs[i].fee > 0 BY DEF IsTriangle
<1>14. /\ \A i \in 1..3 : sold[i].feeBps \in Nat
       /\ \A i \in 1..3 : sold[i].feeBps > 0
       /\ \A i \in 1..3 : sold[i].tokenOut \in Tokens
       /\ sold[1].tokenIn \in Tokens /\ sold[3].tokenOut = sold[1].tokenIn
       /\ sold[1].amountIn = edge.sizeIn /\ sold[3].minAmountOut = edge.finalOut
  BY <1>3, <1>10, <1>11, <1>12, <1>13
<1>15. /\ \A i \in 2..3 : sold[i].tokenIn = sold[i - 1].tokenOut
       /\ \A i \in 2..3 : sold[i].amountIn = sold[i - 1].minAmountOut
  <2>1. \A i \in 2..3 : (i = 2 /\ i - 1 = 1) \/ (i = 3 /\ i - 1 = 2) OBVIOUS
  <2> QED BY <1>10, <1>11, <2>1
<1>16. edge.sizeIn \in Nat /\ edge.finalOut \in Nat /\ edge.sizeIn > 0 /\ edge.sizeIn <= edge.finalOut
  BY <1>3, <1>4, <1>7
<1>17. Closes(edge, minNetUsd)
  <2>1. 3 \in Nat /\ 3 > 0 OBVIOUS
  <2> QED BY <1>3, <1>4, <1>10, <1>14, <1>15, <1>16, <2>1, EdgeCloses
<1>18. \A i \in DOMAIN sold : \E q \in DOMAIN legs[i].points :
         legs[i].points[q].fits /\ sold[i].amountIn <= legs[i].points[q].amountBaseIn
  <2>1. \E q \in DOMAIN legs[1].points : legs[1].points[q].fits /\ sold[1].amountIn <= legs[1].points[q].amountBaseIn
    BY <1>5, <1>6, <1>7, <1>10, <1>11
  <2> QED BY <1>8, <1>9, <1>10, <1>11, <1>12, <2>1
<1> QED BY <1>3, <1>17, <1>18, <1>21

\* The venues of a triangle that is asked about were measured at two or four.
LEMMA AskedDepths ==
  ASSUME NEW depth \in Depths
  PROVE  DOMAIN depth \subseteq 1..5 /\ \A i \in DOMAIN depth : depth[i].amountBaseIn \in {2, 4}
<1>1. CASE \E f \in BOOLEAN : depth = <<[amountBaseIn |-> 2, fits |-> f]>>
  <2>1. PICK f \in BOOLEAN : depth = <<[amountBaseIn |-> 2, fits |-> f]>> BY <1>1
  <2> DEFINE point == [amountBaseIn |-> 2, fits |-> f]
  <2>2. point.amountBaseIn = 2 OBVIOUS
  <2>3. depth = <<point>> BY <2>1
  <2> HIDE DEF point
  <2>4. DOMAIN depth = 1..1 /\ depth[1] = point BY <2>3
  <2> QED BY <2>2, <2>4
<1>2. CASE \E f \in BOOLEAN : depth = <<[amountBaseIn |-> 2, fits |-> TRUE], [amountBaseIn |-> 4, fits |-> f]>>
  <2>1. PICK f \in BOOLEAN : depth = <<[amountBaseIn |-> 2, fits |-> TRUE], [amountBaseIn |-> 4, fits |-> f]>> BY <1>2
  <2> DEFINE near == [amountBaseIn |-> 2, fits |-> TRUE]
             far == [amountBaseIn |-> 4, fits |-> f]
  <2>2. near.amountBaseIn = 2 /\ far.amountBaseIn = 4 OBVIOUS
  <2>3. depth = <<near, far>> BY <2>1
  <2> HIDE DEF near, far
  <2>4. DOMAIN depth = 1..2 /\ depth[1] = near /\ depth[2] = far BY <2>3
  <2>5. \A i \in 1..2 : i = 1 \/ i = 2 OBVIOUS
  <2> QED BY <2>2, <2>4, <2>5
<1> QED BY <1>1, <1>2, Zenon DEF Depths

\* A question for a triangle's edge is answered soundly.
LEMMA TriangleAnswered == AskTriangle => decision'.about = "edges" /\ EdgesSound'
<1> SUFFICES ASSUME AskTriangle PROVE decision'.about = "edges" /\ EdgesSound' OBVIOUS
<1> DEFINE asked(points, rate, down) ==
             [i \in 1..3 |-> [points |-> points[i], token |-> <<"A", "B", "C">>[i], fee |-> 5,
                              throws |-> (i = down), out |-> [a \in 0..16 |-> a * rate[i]]]]
<1>1. PICK points \in [1..3 -> Depths], rate \in [1..3 -> 0..2], multiple \in {0, 1}, down \in 0..3 :
        decision' = [about |-> "edges", minNetUsd |-> 1, legs |-> asked(points, rate, down),
                     threw |-> LoopThrows(asked(points, rate, down), TRUE, 2, 1),
                     edges |-> buildLoopEdge(asked(points, rate, down), TRUE, 2, 1, 1, 1, multiple)]
  BY Zenon DEF AskTriangle, Decide
<1> DEFINE legs == asked(points, rate, down)
           edges == buildLoopEdge(legs, TRUE, 2, 1, 1, 1, multiple)
           threw == LoopThrows(legs, TRUE, 2, 1)
           throws(i) == i = down
           outs(i) == [a \in 0..16 |-> a * rate[i]]
           tokens == <<"A", "B", "C">>
<1>2. decision' = [about |-> "edges", minNetUsd |-> 1, legs |-> legs, threw |-> threw, edges |-> edges] BY <1>1
<1>3. \A i \in 1..3 : legs[i] = [points |-> points[i], token |-> tokens[i], fee |-> 5, throws |-> throws(i),
                                out |-> outs(i)]
  OBVIOUS
<1>4. \A i \in 1..3 : \A a \in 0..16 : outs(i)[a] = a * rate[i] OBVIOUS
<1>5. \A i \in 1..3 : tokens[i] \in Tokens
  <2>1. tokens[1] = "A" /\ tokens[2] = "B" /\ tokens[3] = "C" OBVIOUS
  <2>2. {"A", "B", "C"} \subseteq Tokens BY DEF Tokens
  <2>3. \A i \in 1..3 : i = 1 \/ i = 2 \/ i = 3 OBVIOUS
  <2> HIDE DEF tokens
  <2> QED BY <2>1, <2>2, <2>3
<1> HIDE DEF legs, edges, outs, tokens, threw, throws
<1>6. \A i \in 1..3 : /\ legs[i].points = points[i] /\ legs[i].token = tokens[i] /\ legs[i].fee = 5
                      /\ legs[i].out = outs(i)
  BY <1>3
<1>7. \A i \in 1..3 : \A a \in 0..16 : legs[i].out[a] = a * rate[i] BY <1>4, <1>6
<1>8. \A i \in 1..3 : \A a \in 0..8 : legs[i].out[a] \in 0..(2 * a) /\ legs[i].out[a] \in 0..16
  <2> SUFFICES ASSUME NEW i \in 1..3, NEW a \in 0..8
               PROVE  legs[i].out[a] \in 0..(2 * a) /\ legs[i].out[a] \in 0..16
    OBVIOUS
  <2> DEFINE r == rate[i]
  <2>1. r \in 0..2 OBVIOUS
  <2>2. legs[i].out[a] = a * r BY <1>7
  <2> HIDE DEF r
  <2>3. r = 0 \/ r = 1 \/ r = 2 BY <2>1
  <2> QED BY <2>2, <2>3
<1>9. ASSUME NEW a \in {2, 4} PROVE legs[3].out[legs[2].out[legs[1].out[a]]] \in Nat
  <2> DEFINE mid == legs[1].out[a]
             last == legs[2].out[mid]
  <2>1. mid \in 0..(2 * a) BY <1>8, SMTT(30)
  <2>2. mid \in 0..8 BY <2>1
  <2> HIDE DEF mid
  <2>3. last \in 0..16 BY <1>8, <2>2
  <2> DEFINE r == rate[3]
  <2>4. r \in 0..2 OBVIOUS
  <2> HIDE DEF last
  <2>5. legs[3].out[last] = last * r BY <1>7, <2>3
  <2> HIDE DEF r
  <2>6. last * r \in Nat BY <2>3, <2>4
  <2> QED BY <2>5, <2>6 DEF last, mid
<1>10. IsTriangle(legs)
  <2>1. \A i \in 1..3 : legs[i].token \in Tokens /\ legs[i].fee \in Nat /\ legs[i].fee > 0 BY <1>5, <1>6
  <2>2. \A i \in 1..3 : points[i] \in Depths OBVIOUS
  <2>3. \A i \in 1..3 : DOMAIN legs[i].points \subseteq 1..5 BY <1>6, <2>2, AskedDepths
  <2>4. legs[1].points = points[1] /\ points[1] \in Depths BY <1>6
  <2>5. \A p \in DOMAIN legs[1].points : legs[1].points[p].amountBaseIn \in {2, 4} BY <2>4, AskedDepths
  <2>6. {2, 4} \subseteq Nat OBVIOUS
  <2>7. \A p \in DOMAIN legs[1].points :
          /\ legs[1].points[p].amountBaseIn \in Nat
          /\ legs[3].out[legs[2].out[legs[1].out[legs[1].points[p].amountBaseIn]]] \in Nat
    BY <1>9, <2>5, <2>6
  <2> QED BY <2>1, <2>3, <2>7, Zenon DEF IsTriangle
<1>11. \A edge \in edges :
         /\ Closes(edge, 1) /\ edge.source = "triangular" /\ ~threw
         /\ \A i \in DOMAIN edge.legs : \E p \in DOMAIN legs[i].points :
              legs[i].points[p].fits /\ edge.legs[i].amountIn <= legs[i].points[p].amountBaseIn
  BY <1>10, TriangleCloses, ZenonT(40) DEF edges, threw
<1>12. /\ decision'.about = "edges" /\ decision'.minNetUsd = 1 /\ decision'.legs = legs /\ decision'.edges = edges
       /\ decision'.threw = threw
  BY <1>2
<1>13. \A edge \in decision'.edges :
         /\ Closes(edge, decision'.minNetUsd) /\ edge.source # "single-hop" /\ ~decision'.threw
         /\ \A i \in DOMAIN edge.legs : \E p \in DOMAIN decision'.legs[i].points :
              /\ decision'.legs[i].points[p].fits
              /\ edge.legs[i].amountIn <= decision'.legs[i].points[p].amountBaseIn
  <2>1. ASSUME NEW edge \in edges
        PROVE  /\ Closes(edge, 1) /\ edge.source # "single-hop" /\ ~threw
               /\ \A i \in DOMAIN edge.legs : \E p \in DOMAIN legs[i].points :
                    legs[i].points[p].fits /\ edge.legs[i].amountIn <= legs[i].points[p].amountBaseIn
    <3>1. edge.source = "triangular" BY <1>11, <2>1
    <3>2. edge.source # "single-hop" BY <3>1
    <3> QED BY <1>11, <2>1, <3>2
  <2> QED BY <1>12, <2>1
<1> QED BY <1>12, <1>13, Zenon DEF EdgesSound, Closes

\* What a chain is sampled at.
IsChainQuote(quote) ==
  /\ quote.sampledBase \in Nat /\ quote.sampledBase > 0 /\ quote.sampledQuote \in Nat
  /\ quote.suggested \in Nat /\ quote.fallback \in Nat /\ quote.gasUsd \in Nat /\ quote.quotePriceUsd \in Nat

\* If what is gained over the samples covers a cost, what is paid out less what is paid
\* in, both rounded down, does to within one unit.
LEMMA RoundedGain ==
  ASSUME NEW amount \in Nat, NEW sq \in Nat, NEW sb \in Nat, sb > 0, NEW bq \in Nat, NEW bb \in Nat, bb > 0,
         NEW p \in Nat, p > 0, NEW cost \in Int,
         amount * (sq * bb - bq * sb) * (p + p) >= cost * (2 * bb * sb)
  PROVE  (((amount * sq) \div sb) - ((amount * bq) \div bb) + 1) * p > cost
<1> DEFINE d == bb * sb
           os == amount * sq
           ib == amount * bq
           out == os \div sb
           in == ib \div bb
           gain == amount * (sq * bb - bq * sb)
           left == out - in + 1
<1>1. d \in Nat /\ d > 0
  <2>1. 1 * sb <= bb * sb BY Monotone
  <2>2. bb * sb \in Nat BY SMT
  <2> QED BY <2>1, <2>2
<1>2. os \in Nat /\ ib \in Nat BY SMT
<1>3. gain = os * bb - ib * sb
  <2>1. amount * (sq * bb - bq * sb) = (amount * sq) * bb - (amount * bq) * sb OBVIOUS
  <2> QED BY <2>1
<1>4. amount * (sq * bb - bq * sb) * (p + p) = 2 * (gain * p)
  <2>1. gain \in Int BY SMT
  <2>2. amount * (sq * bb - bq * sb) * (p + p) = gain * (p + p) OBVIOUS
  <2> HIDE DEF gain
  <2>3. gain * (p + p) = 2 * (gain * p) BY <2>1
  <2> QED BY <2>2, <2>3
<1>5. cost * (2 * bb * sb) = 2 * (cost * d) OBVIOUS
<1>6. gain \in Int BY SMT
<1> HIDE DEF d, os, ib, gain
<1>7. gain * p >= cost * d
  <2> DEFINE a == gain * p
             b == cost * d
  <2>1. a \in Int /\ b \in Int BY <1>1, <1>6
  <2>2. 2 * a >= 2 * b BY <1>4, <1>5
  <2> HIDE DEF a, b
  <2>3. a >= b BY <2>1, <2>2
  <2> QED BY <2>3 DEF a, b
<1>8. out \in Nat /\ os < (out + 1) * sb /\ in \in Nat /\ in * bb <= ib BY <1>2, Quotient
<1> HIDE DEF out, in
<1>9. os * bb < ((out + 1) * sb) * bb
  <2> DEFINE up == (out + 1) * sb
  <2>1. up \in Int /\ os + 1 <= up BY <1>2, <1>8
  <2> HIDE DEF up
  <2>2. (os + 1) * bb <= up * bb
    <3>1. os + 1 \in Int BY <1>2
    <3> QED BY <2>1, <3>1, Monotone
  <2>3. (os + 1) * bb = os * bb + bb BY <1>2
  <2> DEFINE x == os * bb
             y == up * bb
  <2>4. x \in Int /\ y \in Int BY <1>2, <2>1
  <2>5. x + bb <= y BY <2>2, <2>3
  <2> HIDE DEF x, y
  <2>6. x < y BY <2>4, <2>5
  <2> QED BY <2>6 DEF x, y, up
<1>10. (in * bb) * sb <= ib * sb
  <2>1. in * bb \in Int BY <1>8
  <2> QED BY <1>2, <1>8, <2>1, Monotone
<1>11. gain < left * d
  <2>1. ((out + 1) * sb) * bb = (out + 1) * d BY <1>8 DEF d
  <2>2. (in * bb) * sb = in * d BY <1>8 DEF d
  <2>3. left * d = (out + 1) * d - in * d BY <1>1, <1>8
  <2> DEFINE a == (out + 1) * d
             b == in * d
             x == os * bb
             y == ib * sb
  <2>4. a \in Int /\ b \in Int /\ x \in Int /\ y \in Int BY <1>1, <1>2, <1>8
  <2>5. x < a /\ b <= y BY <1>9, <1>10, <2>1, <2>2
  <2>6. gain = x - y BY <1>3
  <2>7. left * d = a - b BY <2>3
  <2> HIDE DEF a, b, x, y, left
  <2> QED BY <2>4, <2>5, <2>6, <2>7
<1>12. left \in Int BY <1>8
<1> HIDE DEF left
<1>13. gain * p < (left * p) * d
  <2> DEFINE most == left * d
  <2>1. most \in Int BY <1>1, <1>12
  <2>2. gain + 1 <= most BY <1>6, <1>11, <2>1
  <2>3. (left * p) * d = most * p BY <1>1, <1>12
  <2> HIDE DEF most
  <2>4. (gain + 1) * p <= most * p
    <3>1. gain + 1 \in Int BY <1>6
    <3> QED BY <2>1, <2>2, <3>1, Monotone
  <2>5. (gain + 1) * p = gain * p + p BY <1>6
  <2> DEFINE x == gain * p
             y == most * p
  <2>6. x \in Int /\ y \in Int /\ x + p <= y BY <1>6, <2>1, <2>4, <2>5
  <2> HIDE DEF x, y
  <2>7. x < y BY <2>6
  <2> QED BY <2>3, <2>7 DEF x, y
<1>14. left * p > cost
  <2> DEFINE worth == left * p
  <2>1. worth \in Int BY <1>12
  <2> HIDE DEF worth
  <2>2. ASSUME worth <= cost PROVE FALSE
    <3>1. worth * d <= cost * d BY <1>1, <2>1, <2>2, Monotone
    <3> DEFINE x == worth * d
               y == cost * d
               z == gain * p
    <3>2. x \in Int /\ y \in Int /\ z \in Int BY <1>1, <1>6, <2>1
    <3>3. z < x BY <1>13 DEF worth
    <3>4. z >= y /\ x <= y BY <1>7, <3>1
    <3> HIDE DEF x, y, z
    <3> QED BY <3>2, <3>3, <3>4
  <2>3. worth > cost BY <2>1, <2>2
  <2> QED BY <2>3 DEF worth
<1> QED BY <1>14 DEF left, out, in, os, ib

\* Of two chains only one can be the dearer.
LEMMA DearerOneWay ==
  ASSUME NEW buy, IsChainQuote(buy), NEW sell, IsChainQuote(sell), Dearer(sell, buy)
  PROVE  ~Dearer(buy, sell)
<1> DEFINE x == sell.sampledQuote * buy.sampledBase
           y == buy.sampledQuote * sell.sampledBase
<1>1. x \in Int /\ y \in Int BY SMT DEF IsChainQuote
<1>2. Dearer(sell, buy) <=> x > y BY Zenon DEF Dearer
<1>3. Dearer(buy, sell) <=> y > x BY Zenon DEF Dearer
<1> HIDE DEF x, y
<1> QED BY <1>1, <1>2, <1>3

\* What CrossSound asks of one edge.
CrossPays(edge, buy, sell, minNetUsd) ==
  /\ Last(edge.legs).minAmountOut - Head(edge.legs).amountIn >= minNetUsd + buy.gasUsd + sell.gasUsd
  /\ buildPath(edge.legs) = NoPath

\* Between quotes in dollars an edge brings in more than it pays out, by the gas of both
\* chains and the floor, and there is none unless the chain sold on is the dearer.
THEOREM CrossOutcome ==
  ASSUME NEW buy, IsChainQuote(buy), buy.quotePriceUsd = 1, NEW sell, IsChainQuote(sell), sell.quotePriceUsd = 1,
         NEW minNetUsd \in Int, NEW multiple \in Int
  PROVE  /\ \A edge \in CrossChain(buy, sell, minNetUsd, multiple) :
              Dearer(sell, buy) /\ CrossPays(edge, buy, sell, minNetUsd)
         /\ \E one : CrossChain(buy, sell, minNetUsd, multiple) \subseteq {one}
<1> DEFINE amounts == {pickBaseAmount(buy), pickBaseAmount(sell)}
           amount == Min(amounts)
           num == amount * (sell.sampledQuote * buy.sampledBase - buy.sampledQuote * sell.sampledBase)
                    * (buy.quotePriceUsd + sell.quotePriceUsd)
           den == 2 * buy.sampledBase * sell.sampledBase
           gases == buy.gasUsd + sell.gasUsd
           net == num \div den - gases
           in == scaleQuoteAmount(buy, amount)
           out == scaleQuoteAmount(sell, amount)
           first == Leg("quote", "base", 0, in, amount)
           second == Leg("base", "base", 0, amount, 0)
           third == Leg("base", "quote", 0, amount, out)
           legs == <<first, second, third>>
           made == [source |-> "cross-chain", sizeIn |-> amount, finalOut |-> 0, netUsd |-> net,
                    gasUsd |-> gases, legs |-> legs]
           taken == /\ buy.venueFresh /\ sell.venueFresh
                    /\ amount > 0 /\ Dearer(sell, buy) /\ gases > 0
                    /\ num - gases * den >= minNetUsd * den
                    /\ num - gases * den >= multiple * gases * den
<1>1. CrossChain(buy, sell, minNetUsd, multiple) = IF taken THEN {made} ELSE {}
  BY Zenon DEF CrossChain
<1>2. amount \in Nat
  <2>1. amounts \in SUBSET Nat BY SMT DEF pickBaseAmount, IsChainQuote
  <2>2. amounts # {} OBVIOUS
  <2> HIDE DEF amounts
  <2> QED BY <2>1, <2>2, FirstPlace
<1> HIDE DEF amounts, amount
<1> DEFINE sq == sell.sampledQuote sb == sell.sampledBase bq == buy.sampledQuote bb == buy.sampledBase
<1>3. sq \in Nat /\ sb \in Nat /\ sb > 0 /\ bq \in Nat /\ bb \in Nat /\ bb > 0 BY SMT DEF IsChainQuote
<1>4. gases \in Nat BY SMT DEF IsChainQuote
<1>5. num = amount * (sq * bb - bq * sb) * (1 + 1) /\ den = 2 * bb * sb BY Zenon
<1>6. in = (amount * bq) \div bb /\ out = (amount * sq) \div sb
  <2>1. sb # 0 /\ bb # 0 BY <1>3
  <2>2. in = IF bq = 0 \/ bb = 0 THEN 0 ELSE (amount * bq) \div bb BY Zenon DEF scaleQuoteAmount
  <2>3. out = IF sq = 0 \/ sb = 0 THEN 0 ELSE (amount * sq) \div sb BY Zenon DEF scaleQuoteAmount
  <2>4. \A d \in Nat : d > 0 => (amount * 0) \div d = 0 BY <1>2, SMT
  <2> HIDE DEF in, out, sq, sb, bq, bb
  <2>5. bq = 0 => (amount * bq) \div bb = 0 BY <1>3, <2>4
  <2>6. sq = 0 => (amount * sq) \div sb = 0 BY <1>3, <2>4
  <2> QED BY <2>1, <2>2, <2>3, <2>5, <2>6
<1>7. in \in Nat /\ out \in Nat
  <2>1. amount * bq \in Nat /\ amount * sq \in Nat BY <1>2, <1>3, SMT
  <2> HIDE DEF in, out, sq, sb, bq, bb
  <2> QED BY <1>3, <1>6, <2>1, Quotient
<1> HIDE DEF num, den, net, gases, in, out, sq, sb, bq, bb, first, second, third, legs
<1>8. ASSUME taken PROVE out - in >= minNetUsd + buy.gasUsd + sell.gasUsd
  <2> DEFINE cost == minNetUsd + gases
  <2>1. num - gases * den >= minNetUsd * den BY <1>8
  <2>2. den \in Int BY <1>3, <1>5
  <2>3. num \in Int BY <1>2, <1>3, <1>5
  <2>4. cost * den = minNetUsd * den + gases * den BY <1>4, <2>2
  <2>5. num >= cost * den
    <3> DEFINE x == minNetUsd * den
               y == gases * den
    <3>1. x \in Int /\ y \in Int BY <1>4, <2>2
    <3>2. num - y >= x /\ cost * den = x + y BY <2>1, <2>4
    <3> HIDE DEF x, y, cost
    <3> QED BY <2>3, <3>1, <3>2
  <2>6. cost \in Int BY <1>4
  <2> HIDE DEF cost
  <2>7. amount * (sq * bb - bq * sb) * (1 + 1) >= cost * (2 * bb * sb) BY <1>5, <2>5
  <2>8. (((amount * sq) \div sb) - ((amount * bq) \div bb) + 1) * 1 > cost
    BY <1>2, <1>3, <2>6, <2>7, RoundedGain
  <2>9. (out - in + 1) * 1 > cost BY <1>6, <2>8
  <2>10. out - in >= cost BY <1>7, <2>6, <2>9
  <2>11. cost = minNetUsd + buy.gasUsd + sell.gasUsd BY SMT DEF cost, gases, IsChainQuote
  <2> QED BY <2>10, <2>11
<1>9. made.legs = legs OBVIOUS
<1>10. DOMAIN legs = 1..3 /\ Len(legs) = 3 /\ legs[1] = first /\ legs[3] = third /\ Head(legs) = first
  BY DEF legs
<1>11. first.amountIn = in /\ first.feeBps = 0 /\ third.minAmountOut = out BY DEF first, third, Leg
<1>12. Last(legs) = third BY <1>10 DEF Last
<1>13. buildPath(legs) = NoPath
  <2>1. 1 \in DOMAIN legs /\ legs[1].feeBps <= 0 BY <1>10, <1>11
  <2> QED BY <2>1, Zenon DEF buildPath
<1> HIDE DEF made
<1>14. ASSUME taken PROVE CrossPays(made, buy, sell, minNetUsd)
  BY <1>8, <1>9, <1>10, <1>11, <1>12, <1>13, <1>14 DEF CrossPays
<1>15. taken => Dearer(sell, buy) OBVIOUS
<1> HIDE DEF taken
<1> QED BY <1>1, <1>14, <1>15

\* The chains asked about are sampled at two.
LEMMA AskedChain ==
  ASSUME NEW out \in Nat, NEW measured \in BOOLEAN, NEW suggested \in Nat, NEW gas \in Nat
  PROVE  LET quote == chainQuote(out, measured, suggested, gas) IN IsChainQuote(quote) /\ quote.quotePriceUsd = 1
<1> DEFINE point == [multiplier |-> FullSize, amountBaseIn |-> 2, amountQuoteOut |-> out]
           depth == IF measured /\ out > 0 THEN <<point>> ELSE <<>>
           depthOf == [v \in {1, 2} |-> depth]
           outs == <<out, out - 1>>
           Best(v) == /\ \A w \in DOMAIN outs : outs[w] <= outs[v]
                      /\ \A w \in DOMAIN outs : outs[w] = outs[v] => v <= w
           best == CHOOSE v \in DOMAIN outs : Best(v)
           taken == loadQuote(outs, depthOf, 2)
           quote == chainQuote(out, measured, suggested, gas)
<1>1. quote = [sampledBase |-> taken.sampledBase, sampledQuote |-> taken.sampledQuote, suggested |-> suggested,
               fallback |-> 2, venueFresh |-> TRUE, gasUsd |-> gas, quotePriceUsd |-> 1]
  BY Zenon DEF chainQuote
<1>2. taken = IF DOMAIN depthOf[best] = {}
              THEN [sampledBase |-> 2, sampledQuote |-> outs[best]]
              ELSE [sampledBase |-> Primary(depthOf[best]).amountBaseIn,
                    sampledQuote |-> Primary(depthOf[best]).amountQuoteOut]
  BY Zenon DEF loadQuote
<1>3. DOMAIN outs = {1, 2} /\ outs[1] = out /\ outs[2] = out - 1
  <2>1. DOMAIN outs = 1..2 /\ outs[1] = out /\ outs[2] = out - 1 OBVIOUS
  <2>2. 1..2 = {1, 2} OBVIOUS
  <2> HIDE DEF outs
  <2> QED BY <2>1, <2>2
<1> HIDE DEF outs
<1>4. best = 1
  <2>1. Best(1) BY <1>3
  <2>2. 1 \in DOMAIN outs BY <1>3
  <2>3. best \in DOMAIN outs /\ Best(best) BY <2>1, <2>2, Zenon
  <2> HIDE DEF best
  <2>4. outs[1] <= outs[best] BY <1>3, <2>3
  <2> QED BY <1>3, <2>3, <2>4
<1>5. depthOf[1] = depth OBVIOUS
<1>6. taken.sampledBase = 2 /\ taken.sampledQuote = out
  <2>1. CASE measured /\ out > 0
    <3>1. depth = <<point>> BY <2>1
    <3>2. point.multiplier = FullSize /\ point.amountBaseIn = 2 /\ point.amountQuoteOut = out OBVIOUS
    <3> HIDE DEF point
    <3>3. DOMAIN depth = {1} /\ depth[1] = point
      <4>1. DOMAIN depth = 1..1 /\ depth[1] = point BY <3>1
      <4>2. 1..1 = {1} OBVIOUS
      <4> QED BY <4>1, <4>2
    <3> HIDE DEF depth
    <3> DEFINE full == {i \in DOMAIN depth : depth[i].multiplier = FullSize}
    <3>4. full = {1} BY <3>2, <3>3
    <3>5. Primary(depth) = depth[IF full # {} THEN Min(full) ELSE Max(DOMAIN depth)] BY Zenon DEF Primary
    <3>6. Min({1}) \in {1}
      <4>1. {1} \in SUBSET Nat /\ {1} # {} OBVIOUS
      <4> QED BY <4>1, FirstPlace
    <3> HIDE DEF full
    <3>7. Primary(depth) = point BY <3>3, <3>4, <3>5, <3>6
    <3> DEFINE at == depthOf[best]
    <3>8. at = depth BY <1>4, <1>5
    <3>9. taken = [sampledBase |-> point.amountBaseIn, sampledQuote |-> point.amountQuoteOut]
      <4> HIDE DEF at, taken, depthOf
      <4>1. DOMAIN at # {} BY <3>3, <3>8
      <4>2. taken = IF DOMAIN at = {}
                    THEN [sampledBase |-> 2, sampledQuote |-> outs[best]]
                    ELSE [sampledBase |-> Primary(at).amountBaseIn, sampledQuote |-> Primary(at).amountQuoteOut]
        BY <1>2 DEF at
      <4> QED BY <3>7, <3>8, <4>1, <4>2
    <3> HIDE DEF taken
    <3> QED BY <3>2, <3>9
  <2>2. CASE ~(measured /\ out > 0)
    <3>1. depth = <<>> BY <2>2
    <3>2. DOMAIN depthOf[best] = {}
      <4>1. depthOf[best] = depth BY <1>4, <1>5
      <4>2. DOMAIN <<>> = {} OBVIOUS
      <4> QED BY <3>1, <4>1, <4>2
    <3> HIDE DEF depthOf, best
    <3>3. taken = [sampledBase |-> 2, sampledQuote |-> outs[best]] BY <1>2, <3>2
    <3> HIDE DEF taken
    <3> QED BY <1>3, <1>4, <3>3
  <2> QED BY <2>1, <2>2
<1> HIDE DEF taken, quote
<1>7. /\ quote.sampledBase = 2 /\ quote.sampledQuote = out /\ quote.suggested = suggested
      /\ quote.fallback = 2 /\ quote.gasUsd = gas /\ quote.quotePriceUsd = 1
  BY <1>1, <1>6
<1> QED BY <1>7 DEF IsChainQuote, quote

\* Edges both ways between two such chains are edges one way.
LEMMA CrossAnswered == AskCrossChain => decision'.about = "cross" /\ CrossSound'
<1> SUFFICES ASSUME AskCrossChain PROVE decision'.about = "cross" /\ CrossSound' OBVIOUS
<1>1. PICK buyOut, sellOut \in 0..8, suggested \in {0, 1, 3}, gas \in {1, 2}, multiple \in {0, 1}, depth \in BOOLEAN :
        AnswerCrossChain(chainQuote(buyOut, depth, suggested, gas), chainQuote(sellOut, depth, 2, gas), multiple)
  BY Zenon DEF AskCrossChain
<1> DEFINE buy == chainQuote(buyOut, depth, suggested, gas)
           sell == chainQuote(sellOut, depth, 2, gas)
           there == CrossChain(buy, sell, 1, multiple)
           back == CrossChain(sell, buy, 1, multiple)
           edges == there \cup back
<1>2. /\ IsChainQuote(buy) /\ buy.quotePriceUsd = 1 /\ IsChainQuote(sell) /\ sell.quotePriceUsd = 1
  <2>1. buyOut \in Nat /\ sellOut \in Nat /\ suggested \in Nat /\ gas \in Nat /\ 2 \in Nat OBVIOUS
  <2> HIDE DEF there, back
  <2> QED BY <2>1, AskedChain
<1> HIDE DEF buy, sell
<1>3. decision' = [about |-> "cross", minNetUsd |-> 1, buy |-> buy, sell |-> sell, edges |-> edges]
  BY <1>1, Zenon DEF AnswerCrossChain, Decide, buy, sell
<1>4. 1 \in Int /\ multiple \in Int OBVIOUS
<1>5. \A edge \in there : Dearer(sell, buy) /\ CrossPays(edge, buy, sell, 1) BY <1>2, <1>4, CrossOutcome
<1>6. \A edge \in back : Dearer(buy, sell) /\ CrossPays(edge, sell, buy, 1) BY <1>2, <1>4, CrossOutcome
<1>7. PICK one : there \subseteq {one} BY <1>2, <1>4, CrossOutcome
<1>8. PICK other : back \subseteq {other} BY <1>2, <1>4, CrossOutcome
<1>9. there = {} \/ back = {}
  <2>1. Dearer(sell, buy) => ~Dearer(buy, sell) BY <1>2, DearerOneWay
  <2> HIDE DEF there, back
  <2> QED BY <1>5, <1>6, <2>1
<1> HIDE DEF there, back
<1>10. PICK edge : edges \subseteq {edge} BY <1>7, <1>8, <1>9
<1>11. \A e \in edges : CrossPays(e, buy, sell, 1)
  <2>1. \A e \in back : CrossPays(e, buy, sell, 1)
    <3>1. buy.gasUsd \in Nat /\ sell.gasUsd \in Nat BY <1>2 DEF IsChainQuote
    <3>2. 1 + sell.gasUsd + buy.gasUsd = 1 + buy.gasUsd + sell.gasUsd BY <3>1
    <3> QED BY <1>6, <3>2 DEF CrossPays
  <2> QED BY <1>5, <2>1
<1> HIDE DEF edges
<1> DEFINE sold == {e.legs : e \in edges}
<1>12. Cardinality(sold) <= 1
  <2>1. CASE edges = {}
    <3>1. sold = {} BY <2>1
    <3> QED BY <3>1, FS_EmptySet
  <2>2. CASE edges # {}
    <3>1. edges = {edge} BY <1>10, <2>2
    <3>2. sold = {edge.legs} BY <3>1
    <3>3. Cardinality({edge.legs}) = 1 BY FS_Singleton
    <3> QED BY <3>2, <3>3
  <2> QED BY <2>1, <2>2
<1>13. /\ decision'.about = "cross" /\ decision'.minNetUsd = 1 /\ decision'.buy = buy /\ decision'.sell = sell
       /\ decision'.edges = edges
  BY <1>3
<1>14. \A e \in decision'.edges : CrossPays(e, decision'.buy, decision'.sell, decision'.minNetUsd)
  BY <1>11, <1>13
<1>15. Cardinality({e.legs : e \in decision'.edges}) <= 1 BY <1>12, <1>13
<1> QED BY <1>13, <1>14, <1>15, Zenon DEF CrossSound, CrossPays

\* What is quoted is what the venues hold and their depth what they showed, and every
\* edge made of it closes, pays its gas and clears its floor, whatever is asked.
THEOREM FabricIsSound == Spec => []FabricSound
<1>1. Init => FabricSound
  BY DEF Init, DecisionInit, FabricSound, FabricQuotesSound, FabricEdgesSound, QuoteSound, DepthSound, EdgesSound,
         LoopsOnce, CrossSound, About
<1>2. FabricSound /\ [Next]_vars => FabricSound'
  <2> SUFFICES ASSUME FabricSound, [Next]_vars PROVE FabricSound' OBVIOUS
  <2>1. CASE UNCHANGED decision
    <3>1. decision' = decision BY <2>1
    <3> QED BY <3>1 DEF FabricSound, FabricQuotesSound, FabricEdgesSound, QuoteSound, DepthSound, EdgesSound,
                        LoopsOnce, CrossSound, About
  <2>2. CASE decision' = None
    BY <2>2 DEF FabricSound, FabricQuotesSound, FabricEdgesSound, QuoteSound, DepthSound, EdgesSound,
                LoopsOnce, CrossSound, About
  <2>3. CASE decision'.about \notin FabricTopics
    BY <2>3 DEF FabricSound, FabricQuotesSound, FabricEdgesSound, QuoteSound, DepthSound, EdgesSound,
                LoopsOnce, CrossSound, About, FabricTopics
  <2>4. AskQuote => FabricSound'
    BY QuoteAnswered DEF FabricSound, FabricQuotesSound, FabricEdgesSound, DepthSound, EdgesSound, LoopsOnce, CrossSound, About
  <2>5. AskDepth => FabricSound'
    BY DepthAnswered DEF FabricSound, FabricQuotesSound, FabricEdgesSound, QuoteSound, EdgesSound, LoopsOnce, CrossSound, About
  <2>6. AskSingleHop => FabricSound'
    BY SingleHopAnswered DEF FabricSound, FabricQuotesSound, FabricEdgesSound, QuoteSound, DepthSound, LoopsOnce, CrossSound, About
  <2>7. AskTriangle => FabricSound'
    BY TriangleAnswered DEF FabricSound, FabricQuotesSound, FabricEdgesSound, QuoteSound, DepthSound, LoopsOnce, CrossSound, About
  <2>8. AskLoops => FabricSound'
    BY LoopsAnswered DEF FabricSound, FabricQuotesSound, FabricEdgesSound, QuoteSound, DepthSound, EdgesSound, CrossSound, About
  <2>9. AskCrossChain => FabricSound'
    BY CrossAnswered DEF FabricSound, FabricQuotesSound, FabricEdgesSound, QuoteSound, DepthSound, EdgesSound, LoopsOnce, About
  <2>10. PricesTopics \cap FabricTopics = {} /\ ScoresTopics \cap FabricTopics = {}
         /\ ExecutionTopics \cap FabricTopics = {} /\ LiquidationTopics \cap FabricTopics = {}
         /\ IndexersTopics \cap FabricTopics = {}
    BY DEF FabricTopics, LiquidationTopics, ScoresTopics, PricesTopics, IndexersTopics, ExecutionTopics
  <2>11. FabricDecides => FabricSound' BY <2>4, <2>5, <2>6, <2>7, <2>8, <2>9 DEF FabricDecides
  <2> QED BY <2>1, <2>2, <2>3, <2>10, <2>11, StepTopics, PricesAnswers, ScoresAnswers, ExecutionAnswers,
             LiquidationAnswers, IndexersAnswer, Zenon
<1> QED BY <1>1, <1>2, PTL DEF Spec
=============================================================================
