--------------------------- MODULE CreditProofs ---------------------------
(* Theorems of Credit: which terms a loan is charged on, that the two          *)
(* services that compute a schedule compute the same one, what every part of   *)
(* it is exactly, and that a quote adds up.                                    *)
EXTENDS Credit, SumTheorems, TLAPS

(* The offers are one entry per version: its terms, its quote and a status.    *)
OfferSet == [terms : Terms, status : {"SENT", "SUPERSEDED", "ACCEPTED"},
             quote : {Quote(terms) : terms \in Terms}]

(* An offer was quoted on its own terms. *)
QuotedOnItsTerms ==
  \A v \in 1..Len(offers) : offers[v].quote = Quote(offers[v].terms)

(* What a contract or a loan names is an accepted offer of the case. *)
Accepted(v) == v = 0 \/ (v \in 1..Len(offers) /\ offers[v].status = "ACCEPTED")

(* A disbursed loan is charged on the terms its offer was quoted on, whatever  *)
(* the case has been offered between its acceptance and the disbursement.      *)
ChargedOnItsTerms ==
  loan.disbursed =>
    /\ loan.offer # 0
    /\ loan.cuotas = ChargedSchedule(offers[loan.offer].terms)
    /\ offers[loan.offer].quote = Quote(offers[loan.offer].terms)

Inv ==
  /\ offers \in Seq(OfferSet)
  /\ QuotedOnItsTerms
  /\ contract \in Nat /\ Accepted(contract)
  /\ loan = [offer |-> loan.offer, disbursed |-> loan.disbursed, cuotas |-> loan.cuotas]
  /\ loan.offer \in Nat /\ Accepted(loan.offer)
  /\ loan.disbursed \in BOOLEAN
  /\ ChargedOnItsTerms

(* The case has no offer, contract or loan before its first offer. *)
LEMMA Initially == Init => Inv
BY DEF Init, Inv, OfferSet, QuotedOnItsTerms, Accepted, ChargedOnItsTerms

(* An offer with another status is the record of its other fields. *)
LEMMA OfferWithStatus ==
  ASSUME NEW o \in OfferSet, NEW s
  PROVE  [o EXCEPT !.status = s] = [terms |-> o.terms, status |-> s, quote |-> o.quote]
BY DEF OfferSet

(* Superseding an offer changes at most its status. *)
LEMMA SupersededOffer ==
  ASSUME NEW o \in OfferSet
  PROVE  /\ Superseded(o) \in OfferSet
         /\ Superseded(o).terms = o.terms
         /\ Superseded(o).quote = o.quote
         /\ o.status = "ACCEPTED" => Superseded(o).status = "ACCEPTED"
<1> DEFINE s == IF o.status = "SENT" THEN "SUPERSEDED" ELSE o.status
<1>1. s \in {"SENT", "SUPERSEDED", "ACCEPTED"} /\ (o.status = "ACCEPTED" => s = "ACCEPTED")
  BY DEF OfferSet
<1>2. Superseded(o) = [terms |-> o.terms, status |-> s, quote |-> o.quote]
  BY OfferWithStatus DEF Superseded
<1> HIDE DEF s
<1> QED
  BY <1>1, <1>2 DEF OfferSet

(* A new offer changes at most the status of the offers before it, and of      *)
(* those only a SENT one's.                                                    *)
LEMMA NewOfferKeepsTheOthers ==
  ASSUME Inv, NEW terms \in Terms, CreateCaseOffer(terms)
  PROVE  /\ offers' \in Seq(OfferSet)
         /\ Len(offers') = Len(offers) + 1
         /\ \A v \in 1..Len(offers) :
              /\ offers'[v].terms = offers[v].terms
              /\ offers'[v].quote = offers[v].quote
              /\ offers[v].status = "ACCEPTED" => offers'[v].status = "ACCEPTED"
         /\ offers'[Len(offers) + 1].terms = terms
         /\ offers'[Len(offers) + 1].quote = Quote(terms)
<1> DEFINE kept == [v \in DOMAIN offers |-> Superseded(offers[v])]
           new  == [terms |-> terms, status |-> "SENT", quote |-> Quote(terms)]
<1>1. /\ offers \in Seq(OfferSet)
      /\ DOMAIN offers = 1..Len(offers)
      /\ Len(offers) \in Nat
  BY DEF Inv
<1>2. \A v \in 1..Len(offers) :
        /\ Superseded(offers[v]) \in OfferSet
        /\ Superseded(offers[v]).terms = offers[v].terms
        /\ Superseded(offers[v]).quote = offers[v].quote
        /\ offers[v].status = "ACCEPTED" => Superseded(offers[v]).status = "ACCEPTED"
  BY <1>1, SupersededOffer
<1>3. new \in OfferSet
  BY DEF OfferSet
<1>4. kept \in Seq(OfferSet) /\ Len(kept) = Len(offers)
  BY <1>1, <1>2
<1>5. offers' = Append(kept, new)
  BY DEF CreateCaseOffer
<1>6. /\ offers' \in Seq(OfferSet)
      /\ Len(offers') = Len(offers) + 1
      /\ offers'[Len(offers) + 1] = new
      /\ \A v \in 1..Len(offers) : offers'[v] = kept[v]
  <2> HIDE DEF kept, new
  <2>1. Append(kept, new) \in Seq(OfferSet) /\ Len(Append(kept, new)) = Len(kept) + 1
    BY <1>3, <1>4
  <2>2. Append(kept, new)[Len(kept) + 1] = new
    BY <1>3, <1>4
  <2>3. \A v \in 1..Len(kept) : Append(kept, new)[v] = kept[v]
    BY <1>3, <1>4
  <2> QED BY <1>4, <1>5, <2>1, <2>2, <2>3
<1>7. \A v \in 1..Len(offers) : offers'[v] = Superseded(offers[v])
  BY <1>1, <1>6
<1> QED
  BY <1>2, <1>6, <1>7

(* Every step keeps the invariant. *)
LEMMA Step == Inv /\ [Next]_vars => Inv'
<1> SUFFICES ASSUME Inv, [Next]_vars PROVE Inv'
  OBVIOUS
<1>0. Len(offers) \in Nat
  BY DEF Inv
<1>1. CASE RunPrequal \/ UNCHANGED vars
  BY <1>1 DEF RunPrequal, vars, Inv, QuotedOnItsTerms, Accepted, ChargedOnItsTerms
<1>2. ASSUME NEW terms \in Terms, CreateCaseOffer(terms) PROVE Inv'
  <2>1. contract' = contract /\ loan' = loan
    BY <1>2 DEF CreateCaseOffer
  <2>2. QuotedOnItsTerms'
    BY <1>0, <1>2, NewOfferKeepsTheOthers DEF Inv, QuotedOnItsTerms
  <2>3. Accepted(contract)' /\ Accepted(loan.offer)'
    BY <1>0, <1>2, <2>1, NewOfferKeepsTheOthers DEF Inv, Accepted
  <2>4. ChargedOnItsTerms'
    BY <1>0, <1>2, <2>1, NewOfferKeepsTheOthers DEF Inv, Accepted, ChargedOnItsTerms
  <2> QED
    BY <1>2, <2>1, <2>2, <2>3, <2>4, NewOfferKeepsTheOthers DEF Inv
<1>3. CASE AcceptOffer
  <2>1. /\ offers' = [offers EXCEPT ![Len(offers)].status = "ACCEPTED"]
        /\ contract' = contract /\ loan' = loan
    BY <1>3 DEF AcceptOffer
  <2>2. /\ offers' \in Seq(OfferSet) /\ Len(offers') = Len(offers)
        /\ \A v \in 1..Len(offers) :
             /\ offers'[v].terms = offers[v].terms
             /\ offers'[v].quote = offers[v].quote
             /\ offers[v].status = "ACCEPTED" => offers'[v].status = "ACCEPTED"
    <3> DEFINE last == [terms |-> offers[Len(offers)].terms, status |-> "ACCEPTED",
                        quote |-> offers[Len(offers)].quote]
    <3>1. offers \in Seq(OfferSet) /\ Len(offers) \in 1..Len(offers)
      BY <1>0, <1>3 DEF Inv, AcceptOffer
    <3>2. offers[Len(offers)] \in OfferSet
      BY <3>1
    <3>3. last \in OfferSet
      BY <3>2 DEF OfferSet
    <3>4. offers' = [offers EXCEPT ![Len(offers)] = last]
      <4> HIDE DEF last
      <4>1. offers' = [offers EXCEPT ![Len(offers)] =
                         [offers[Len(offers)] EXCEPT !.status = "ACCEPTED"]]
        BY <2>1, Zenon
      <4>2. [offers[Len(offers)] EXCEPT !.status = "ACCEPTED"] = last
        BY <3>2, OfferWithStatus, Zenon DEF last
      <4> QED
        BY <4>1, <4>2, Zenon
    <3>5. last.terms = offers[Len(offers)].terms /\ last.quote = offers[Len(offers)].quote
          /\ last.status = "ACCEPTED"
      OBVIOUS
    <3> HIDE DEF last
    <3>6. offers' \in Seq(OfferSet) /\ Len(offers') = Len(offers)
      BY <3>1, <3>3, <3>4
    <3>7. \A v \in 1..Len(offers) : offers'[v] = IF v = Len(offers) THEN last ELSE offers[v]
      BY <3>1, <3>4
    <3> QED
      BY <3>5, <3>6, <3>7
  <2> QED
    BY <1>0, <2>1, <2>2 DEF Inv, QuotedOnItsTerms, Accepted, ChargedOnItsTerms
<1>4. CASE StartContract
  <2>1. /\ offers' = offers /\ loan' = loan
        /\ contract' \in AcceptedOffers
    BY <1>4 DEF StartContract
  <2>2. contract' \in Nat /\ Accepted(contract)'
    BY <1>0, <2>1 DEF Inv, Accepted, AcceptedOffers
  <2> QED
    BY <2>1, <2>2 DEF Inv, QuotedOnItsTerms, Accepted, ChargedOnItsTerms
<1>5. ASSUME NEW signed \in BOOLEAN, EndContract(signed) PROVE Inv'
  <2>1. offers' = offers /\ contract' = 0
    BY <1>5 DEF EndContract
  <2>2. CASE signed /\ loan.offer = 0
    <3>1. loan' = [offer |-> contract, disbursed |-> loan.disbursed, cuotas |-> loan.cuotas]
      BY <1>5, <2>2 DEF EndContract, Inv
    <3>2. ~loan.disbursed
      BY <2>2 DEF Inv, ChargedOnItsTerms
    <3> QED
      BY <2>1, <3>1, <3>2 DEF Inv, QuotedOnItsTerms, Accepted, ChargedOnItsTerms
  <2>3. CASE ~(signed /\ loan.offer = 0)
    <3>1. loan' = loan
      BY <1>5, <2>3 DEF EndContract
    <3> QED
      BY <2>1, <3>1 DEF Inv, QuotedOnItsTerms, Accepted, ChargedOnItsTerms
  <2> QED BY <2>2, <2>3
<1>6. CASE RegistrarDesembolso
  <2>1. /\ offers' = offers /\ contract' = contract
        /\ loan.offer # 0
        /\ loan' = [offer |-> loan.offer, disbursed |-> TRUE,
                    cuotas |-> ChargedSchedule(offers[loan.offer].terms)]
    BY <1>6 DEF RegistrarDesembolso, DisbursedOffer, Inv
  <2>2. offers[loan.offer].quote = Quote(offers[loan.offer].terms)
    BY <2>1 DEF Inv, QuotedOnItsTerms, Accepted
  <2> QED
    BY <2>1, <2>2 DEF Inv, QuotedOnItsTerms, Accepted, ChargedOnItsTerms
<1> QED
  BY <1>1, <1>2, <1>3, <1>4, <1>5, <1>6 DEF Next

(* The invariant holds of every behaviour. *)
THEOREM Invariance == Spec => []Inv
BY Initially, Step, PTL DEF Spec

(* What a disbursed loan is charged is the schedule of the terms its own       *)
(* accepted offer had quoted: not those of an offer the case received after    *)
(* the contract was started (start-contract, loans-desembolso).                *)
THEOREM LoanKeepsItsTerms == Spec => [](ChargedOnItsTerms /\ Accepted(loan.offer))
<1>1. Inv => ChargedOnItsTerms /\ Accepted(loan.offer)
  BY DEF Inv
<1> QED
  BY <1>1, Invariance, PTL

----------------------------------------------------------------------------
(* Arithmetic of amounts. *)

(* The quotient and the rest of a division. *)
LEMMA Division ==
  ASSUME NEW x \in Int, NEW d \in Nat \ {0}
  PROVE  /\ x \div d \in Int /\ x % d \in 0..(d - 1)
         /\ x = (d * (x \div d)) + (x % d)
OBVIOUS

(* There is only one quotient and one rest. *)
LEMMA DivisionIsUnique ==
  ASSUME NEW d \in Nat \ {0}, NEW k \in Int, NEW r \in 0..(d - 1),
         NEW l \in Int, NEW s \in 0..(d - 1), d * k + r = d * l + s
  PROVE  k = l /\ r = s
<1>1. d * (k - l) = s - r
  OBVIOUS
<1>2. s - r < d /\ r - s < d
  OBVIOUS
<1>3. ASSUME k - l >= 1 PROVE FALSE
  <2>1. d * (k - l) >= d
    BY <1>3
  <2> QED BY <1>1, <1>2, <2>1
<1>4. ASSUME k - l <= -1 PROVE FALSE
  <2>1. d * (k - l) <= -d
    BY <1>4
  <2> QED BY <1>1, <1>2, <2>1
<1>5. k = l
  BY <1>3, <1>4
<1> QED BY <1>5

(* An amount in units of 1/den. *)
Units(x, den) == x.whole * den + x.rest

(* Normalising an amount keeps what it is worth. *)
LEMMA CarryUnits ==
  ASSUME NEW den \in Nat \ {0}, NEW w \in Int, NEW r \in Int
  PROVE  /\ Carry(w, r, den) \in Amounts(den)
         /\ Units(Carry(w, r, den), den) = w * den + r
<1> DEFINE q == r \div den
           m == r % den
<1>1. q \in Int /\ m \in 0..(den - 1) /\ r = (den * q) + m
  BY Division
<1> HIDE DEF q, m
<1>2. Carry(w, r, den) = [whole |-> w + q, rest |-> m]
  BY DEF Carry, q, m
<1>3. (w + q) * den + m = w * den + r
  BY <1>1
<1> QED
  BY <1>1, <1>2, <1>3 DEF Amounts, Units

(* The numbers an amount is made of. *)
LEMMA AmountParts ==
  ASSUME NEW den \in Nat \ {0}, NEW x \in Amounts(den)
  PROVE  /\ x.whole \in Int /\ x.rest \in Int /\ 0 <= x.rest /\ x.rest < den
         /\ x.whole * den \in Int
         /\ Units(x, den) \in Int /\ Units(x, den) = x.whole * den + x.rest
BY DEF Amounts, Units

(* The sum of amounts is exact. *)
LEMMA PlusUnits ==
  ASSUME NEW den \in Nat \ {0}, NEW x \in Amounts(den), NEW y \in Amounts(den)
  PROVE  /\ Plus(x, y, den) \in Amounts(den)
         /\ Units(Plus(x, y, den), den) = Units(x, den) + Units(y, den)
<1> DEFINE w == x.whole + y.whole
           r == x.rest + y.rest
<1>0. w \in Int /\ r \in Int /\ Plus(x, y, den) = Carry(w, r, den)
  BY AmountParts DEF Plus
<1>1. /\ Plus(x, y, den) \in Amounts(den)
      /\ Units(Plus(x, y, den), den) = w * den + r
  <2> HIDE DEF w, r
  <2> QED BY <1>0, CarryUnits
<1> DEFINE u == x.whole * den
           v == y.whole * den
<1>2. /\ u \in Int /\ Units(x, den) = u + x.rest /\ x.rest \in Int
      /\ v \in Int /\ Units(y, den) = v + y.rest /\ y.rest \in Int
      /\ (x.whole + y.whole) * den = u + v
  BY AmountParts
<1> HIDE DEF u, v
<1> QED
  BY <1>1, <1>2

(* And so is the difference. *)
LEMMA MinusUnits ==
  ASSUME NEW den \in Nat \ {0}, NEW x \in Amounts(den), NEW y \in Amounts(den)
  PROVE  /\ Minus(x, y, den) \in Amounts(den)
         /\ Units(Minus(x, y, den), den) = Units(x, den) - Units(y, den)
<1> DEFINE w == x.whole - y.whole
           r == x.rest - y.rest
<1>0. w \in Int /\ r \in Int /\ Minus(x, y, den) = Carry(w, r, den)
  BY AmountParts DEF Minus
<1>1. /\ Minus(x, y, den) \in Amounts(den)
      /\ Units(Minus(x, y, den), den) = w * den + r
  <2> HIDE DEF w, r
  <2> QED BY <1>0, CarryUnits
<1> DEFINE u == x.whole * den
           v == y.whole * den
<1>2. /\ u \in Int /\ Units(x, den) = u + x.rest /\ x.rest \in Int
      /\ v \in Int /\ Units(y, den) = v + y.rest /\ y.rest \in Int
      /\ (x.whole - y.whole) * den = u - v
  BY AmountParts
<1> HIDE DEF u, v
<1> QED
  BY <1>1, <1>2

(* d divides m. *)
Divides(d, m) == \E k \in Int : m = d * k

(* A product with an exact rest. *)
LEMMA TimesUnits ==
  ASSUME NEW den \in Nat \ {0}, NEW x \in Amounts(den), NEW num \in Int,
         NEW d \in Nat \ {0}, Divides(d, den), Divides(d, x.rest)
  PROVE  /\ Times(x, num, d, den) \in Amounts(den)
         /\ d * Units(Times(x, num, d, den), den) = num * Units(x, den)
<1> PICK e \in Int : den = d * e
  BY DEF Divides
<1> PICK f \in Int : x.rest = d * f
  BY DEF Divides
<1> DEFINE n == x.whole * num
           q == n \div d
           m == n % d
<1>1. x.whole \in Int /\ n \in Int
  BY AmountParts
<1>2. q \in Int /\ m \in 0..(d - 1) /\ n = (d * q) + m
  <2> HIDE DEF n
  <2> QED BY <1>1, Division
<1>3. den \div d = e /\ x.rest \div d = f
  <2>1. ASSUME NEW g \in Int PROVE (d * g) \div d = g
    <3> DEFINE k == (d * g) \div d
               r == (d * g) % d
    <3>1. d * g \in Int
      OBVIOUS
    <3>2. k \in Int /\ r \in 0..(d - 1) /\ d * g = (d * k) + r
      BY <3>1, Division
    <3> HIDE DEF k, r
    <3>3. d * k + r = d * g + 0 /\ 0 \in 0..(d - 1)
      BY <3>2
    <3>4. k = g
      BY <3>2, <3>3, DivisionIsUnique
    <3> QED BY <3>4 DEF k
  <2> QED BY <2>1
<1>4. Times(x, num, d, den) = Carry(q, m * e + f * num, den)
  BY <1>3 DEF Times
<1> HIDE DEF q, m
<1>5. /\ Times(x, num, d, den) \in Amounts(den)
      /\ Units(Times(x, num, d, den), den) = q * den + (m * e + f * num)
  <2> DEFINE r == m * e + f * num
  <2>1. r \in Int /\ q \in Int /\ Times(x, num, d, den) = Carry(q, r, den)
    BY <1>2, <1>4
  <2>2. /\ Carry(q, r, den) \in Amounts(den)
        /\ Units(Carry(q, r, den), den) = q * den + r
    <3> HIDE DEF r
    <3> QED BY <2>1, CarryUnits
  <2> QED BY <2>1, <2>2
<1>6. d * (q * den + (m * e + f * num)) = num * Units(x, den)
  <2>1. d * (q * den + (m * e + f * num)) = (d * q) * den + (m * (d * e) + (d * f) * num)
    BY <1>2
  <2>2. (d * q) * den + (m * (d * e) + (d * f) * num) = n * den + x.rest * num
    <3>1. (d * q) * den + m * den = ((d * q) + m) * den
      BY <1>2
    <3>2. m * (d * e) = m * den /\ (d * f) * num = x.rest * num
      OBVIOUS
    <3>3. ((d * q) + m) * den = n * den
      BY <1>2
    <3> DEFINE a == (d * q) * den
               b == m * den
               c == x.rest * num
    <3>4. a \in Int /\ b \in Int /\ c \in Int
      BY <1>2, AmountParts
    <3>5. a + b = n * den
      BY <3>1, <3>3
    <3>6. (d * q) * den + (m * (d * e) + (d * f) * num) = a + (b + c)
      BY <3>2
    <3> HIDE DEF a, b, c, n
    <3>7. a + (b + c) = (a + b) + c
      BY <3>4
    <3> QED BY <3>5, <3>6, <3>7 DEF c
  <2>3. n * den + x.rest * num = num * (x.whole * den + x.rest)
    BY AmountParts
  <2> QED BY <2>1, <2>2, <2>3 DEF Units
<1> QED BY <1>5, <1>6

(* Rounding moves an amount by at most half a cent. *)
LEMMA RoundUnits ==
  ASSUME NEW den \in Nat \ {0}, NEW x \in Amounts(den)
  PROVE  /\ Round2(x, den) \in Int /\ den * Round2(x, den) \in Int
         /\ 2 * (den * Round2(x, den)) - 2 * Units(x, den) <= den
         /\ 2 * (den * Round2(x, den)) - 2 * Units(x, den) > -den
<1> DEFINE w == den * x.whole
<1>0. w \in Int /\ Units(x, den) = w + x.rest
  BY AmountParts
<1>1. CASE 2 * x.rest >= den
  <2>1. Round2(x, den) = x.whole + 1
    BY <1>1 DEF Round2
  <2>2. den * (x.whole + 1) = w + den
    BY AmountParts
  <2> HIDE DEF w
  <2> QED BY <1>0, <1>1, <2>1, <2>2, AmountParts
<1>2. CASE ~(2 * x.rest >= den)
  <2>1. Round2(x, den) = x.whole
    BY <1>2, AmountParts DEF Round2
  <2> HIDE DEF w
  <2>2. den * x.whole = w
    BY DEF w
  <2> QED BY <1>0, <1>2, <2>1, <2>2, AmountParts
<1> QED BY <1>1, <1>2

----------------------------------------------------------------------------
(* The French schedule in closed form: powers, balances, instalments. *)

(* Products of positive numbers. *)
LEMMA PositiveProduct ==
  ASSUME NEW a \in Nat \ {0}, NEW b \in Nat \ {0}
  PROVE  a * b \in Nat \ {0}
OBVIOUS

(* The recursive function of the powers is defined and computes them. *)
LEMMA PowersEquation ==
  ASSUME NEW b \in Nat \ {0}
  PROVE  /\ Powers(b)[0] = 1
         /\ \A k \in 1..Installments : Powers(b)[k] = b * Powers(b)[k - 1]
         /\ \A k \in 0..Installments : Powers(b)[k] \in Nat \ {0}
<1> DEFINE n == Installments
           V == Nat \ {0}
           F == [k \in 1..n |-> [x \in V |-> b * x]]
           Eq(g) == g = [k \in 0..n |-> IF k = 0 THEN 1 ELSE b * g[k - 1]]
<1>0. n \in Nat
  BY InstallmentsAssumption
<1>1. /\ 1 \in V
      /\ \A k \in 1..n : \A x \in V : F[k][x] \in V
  BY PositiveProduct
<1>2. PICK g \in [0..n -> V] : g[0] = 1 /\ \A k \in 1..n : g[k] = F[k][g[k - 1]]
  <2>1. Solvable(n, V, 1, F)
    <3> HIDE DEF F, V, n
    <3> QED BY <1>0, <1>1, Recursion
  <2> HIDE DEF F, V, n
  <2> QED BY <2>1 DEF Solvable
<1>3. Eq(g)
  <2>1. ASSUME NEW k \in 0..n PROVE g[k] = IF k = 0 THEN 1 ELSE b * g[k - 1]
    <3>1. CASE k = 0
      BY <1>2, <3>1
    <3>2. CASE k # 0
      <4>1. k \in 1..n /\ k - 1 \in 0..n
        BY <1>0, <3>2
      <4>2. g[k - 1] \in V
        BY <4>1
      <4>3. F[k][g[k - 1]] = b * g[k - 1]
        BY <4>1, <4>2
      <4> HIDE DEF F
      <4> QED BY <1>2, <3>2, <4>1, <4>3
    <3> QED BY <3>1, <3>2
  <2> QED BY <2>1
<1>4. Eq(Powers(b))
  <2>1. Powers(b) = CHOOSE h : Eq(h)
    BY DEF Powers
  <2> HIDE DEF Eq
  <2> QED BY <1>3, <2>1
<1> DEFINE P == Powers(b)
<1>5. P[0] = 1 /\ \A k \in 1..n : P[k] = b * P[k - 1]
  BY <1>0, <1>4
<1>6. \A k \in 0..n : P[k] \in V
  <2> DEFINE G == {k \in Nat : k <= n => P[k] \in V}
  <2>1. 0 \in G
    BY <1>5
  <2>2. ASSUME NEW k \in Nat, k \in G PROVE k + 1 \in G
    <3>1. ASSUME k + 1 <= n PROVE P[k + 1] = b * P[k] /\ P[k] \in V
      <4>1. k + 1 \in 1..n /\ k <= n
        BY <1>0, <3>1
      <4>2. P[k + 1] = b * P[(k + 1) - 1]
        BY <1>5, <4>1
      <4> QED BY <2>2, <4>1, <4>2
    <3> HIDE DEF P
    <3> QED BY <3>1, PositiveProduct
  <2> HIDE DEF P
  <2>3. Nat \subseteq G
    <3> HIDE DEF G
    <3> QED BY <2>1, <2>2, NaturalInduction
  <2> QED BY <1>0, <2>3
<1> QED BY <1>5, <1>6

(* Terms an offer can have. *)
Lent(terms) ==
  /\ terms.amount \in Nat \ {0}
  /\ terms.rate.num \in Nat \ {0}
  /\ terms.rate.den \in Nat \ {0}

(* What instalment k + 1 amortises, up to a factor that is the same for all. *)
Share(rate, k) == Powers(rate.num + rate.den)[k] * Powers(rate.den)[Installments - k]

(* From one instalment to the next the capital amortised grows by the rate. *)
LEMMA Shares ==
  ASSUME NEW terms, Lent(terms)
  PROVE  /\ \A k \in 0..Installments : Share(terms.rate, k) \in Nat \ {0}
         /\ \A k \in 1..Installments :
              terms.rate.den * Share(terms.rate, k)
                = (terms.rate.num + terms.rate.den) * Share(terms.rate, k - 1)
         /\ Share(terms.rate, 0) = Powers(terms.rate.den)[Installments]
         /\ Share(terms.rate, Installments) = Powers(terms.rate.num + terms.rate.den)[Installments]
<1> DEFINE n == Installments
           a == terms.rate.num
           d == terms.rate.den
           q == terms.rate.num + terms.rate.den
           A == Powers(terms.rate.num + terms.rate.den)
           D == Powers(terms.rate.den)
<1>1. n \in Nat \ {0} /\ a \in Nat \ {0} /\ d \in Nat \ {0} /\ q \in Nat \ {0}
  BY InstallmentsAssumption DEF Lent
<1>2. /\ A[0] = 1
      /\ \A k \in 1..n : A[k] = q * A[k - 1]
      /\ \A k \in 0..n : A[k] \in Nat \ {0}
  BY <1>1, PowersEquation
<1>3. /\ D[0] = 1
      /\ \A k \in 1..n : D[k] = d * D[k - 1]
      /\ \A k \in 0..n : D[k] \in Nat \ {0}
  BY <1>1, PowersEquation
<1>4. \A k : Share(terms.rate, k) = A[k] * D[n - k]
  BY DEF Share
<1> HIDE DEF n, a, d, q, A, D
<1>5. ASSUME NEW k \in 0..n PROVE Share(terms.rate, k) \in Nat \ {0}
  <2>1. A[k] \in Nat \ {0} /\ D[n - k] \in Nat \ {0}
    BY <1>1, <1>2, <1>3
  <2> QED BY <1>4, <2>1, PositiveProduct
<1>6. ASSUME NEW k \in 1..n PROVE d * Share(terms.rate, k) = q * Share(terms.rate, k - 1)
  <2>1. k \in 0..n /\ k - 1 \in 0..n /\ n - k \in 0..n /\ n - (k - 1) \in 1..n
        /\ (n - (k - 1)) - 1 = n - k
    BY <1>1
  <2>2. A[k] = q * A[k - 1] /\ D[n - (k - 1)] = d * D[n - k]
    BY <1>2, <1>3, <2>1
  <2>3. A[k - 1] \in Nat /\ D[n - k] \in Nat /\ D[n - (k - 1)] \in Nat
    BY <1>2, <1>3, <2>1
  <2>4. Share(terms.rate, k) = A[k] * D[n - k]
        /\ Share(terms.rate, k - 1) = A[k - 1] * D[n - (k - 1)]
    BY <1>4
  <2> DEFINE u == A[k - 1]
             v == D[n - k]
  <2>5. d * ((q * u) * v) = q * (u * (d * v))
    <3>1. u \in Nat /\ v \in Nat
      BY <2>3
    <3> HIDE DEF u, v
    <3> QED BY <1>1, <3>1
  <2> QED BY <2>2, <2>4, <2>5
<1>7. Share(terms.rate, 0) = D[n]
  BY <1>1, <1>2, <1>3, <1>4
<1>8. Share(terms.rate, n) = A[n]
  BY <1>1, <1>2, <1>3, <1>4
<1> QED BY <1>5, <1>6, <1>7, <1>8 DEF n, d, q, A, D

(* The shares grow, so that the common denominator is a number above 0. *)
LEMMA SharesGrow ==
  ASSUME NEW terms, Lent(terms)
  PROVE  /\ \A k \in 0..Installments :
              Share(terms.rate, 0) <= Share(terms.rate, k)
              /\ Share(terms.rate, k) <= Share(terms.rate, Installments)
         /\ Growth(terms.rate) = Share(terms.rate, Installments) - Share(terms.rate, 0)
         /\ Growth(terms.rate) \in Nat \ {0}
<1> DEFINE n == Installments
           a == terms.rate.num
           d == terms.rate.den
           T == [k \in 0..n |-> Share(terms.rate, k)]
<1>1. n \in Nat \ {0} /\ a \in Nat \ {0} /\ d \in Nat \ {0}
  BY InstallmentsAssumption DEF Lent
<1>2. /\ \A k \in 0..n : T[k] \in Nat \ {0}
      /\ \A k \in 1..n : d * T[k] = (a + d) * T[k - 1]
      /\ \A k \in 0..n : T[k] = Share(terms.rate, k)
  <2>1. ASSUME NEW k \in 1..n PROVE T[k] = Share(terms.rate, k) /\ T[k - 1] = Share(terms.rate, k - 1)
    BY <1>1
  <2> QED BY <2>1, Shares
<1>3. Growth(terms.rate) = T[n] - T[0]
  BY <1>1, <1>2, Shares DEF Growth
<1> HIDE DEF n, a, d, T
<1>4. ASSUME NEW k \in 1..n PROVE T[k - 1] < T[k]
  <2> DEFINE u == T[k]
             v == T[k - 1]
  <2>1. k - 1 \in 0..n /\ u \in Nat \ {0} /\ v \in Nat \ {0} /\ d * u = (a + d) * v
    BY <1>1, <1>2
  <2> HIDE DEF u, v
  <2>2. (a + d) * v = a * v + d * v /\ a * v \in Nat \ {0}
    BY <1>1, <2>1, PositiveProduct
  <2>3. d * u > d * v
    BY <1>1, <2>1, <2>2
  <2>4. u > v
    BY <1>1, <2>1, <2>3
  <2> QED BY <2>4, <2>1 DEF u, v
<1>5. \A k \in 0..n : T[0] <= T[k] /\ (k > 0 => T[0] < T[k])
  <2> DEFINE G == {k \in Nat : k <= n => T[0] <= T[k] /\ (k > 0 => T[0] < T[k])}
  <2>1. 0 \in G
    BY <1>1, <1>2
  <2>2. ASSUME NEW k \in Nat, k \in G PROVE k + 1 \in G
    <3>1. ASSUME k + 1 <= n PROVE T[0] <= T[k] /\ T[k] < T[k + 1] /\ T[k] \in Nat /\ T[k + 1] \in Nat
      <4>1. k + 1 \in 1..n /\ k \in 0..n /\ k + 1 \in 0..n /\ (k + 1) - 1 = k
        BY <1>1, <3>1
      <4>2. T[(k + 1) - 1] < T[k + 1]
        BY <1>4, <4>1
      <4> QED BY <1>1, <1>2, <2>2, <4>1, <4>2
    <3>2. 0 \in 0..n /\ T[0] \in Nat
      BY <1>1, <1>2
    <3> QED BY <3>1, <3>2
  <2>3. Nat \subseteq G
    <3> HIDE DEF G
    <3> QED BY <2>1, <2>2, NaturalInduction
  <2> QED BY <1>1, <2>3
<1>6. \A k \in 0..n : T[k] <= T[n]
  <2> DEFINE G == {j \in Nat : j <= n => T[n - j] <= T[n]}
  <2>1. 0 \in G
    BY <1>1, <1>2
  <2>2. ASSUME NEW j \in Nat, j \in G PROVE j + 1 \in G
    <3>1. ASSUME j + 1 <= n PROVE T[n - (j + 1)] <= T[n]
      <4>1. n - j \in 1..n /\ (n - j) - 1 = n - (j + 1) /\ n - j \in 0..n /\ n - (j + 1) \in 0..n
            /\ n \in 0..n
        BY <1>1, <3>1
      <4>2. T[(n - j) - 1] < T[n - j]
        BY <1>4, <4>1
      <4>3. T[n - j] <= T[n]
        BY <2>2, <3>1, <1>1
      <4>4. T[n - j] \in Nat /\ T[n - (j + 1)] \in Nat /\ T[n] \in Nat
        BY <1>2, <4>1
      <4>5. T[n - (j + 1)] < T[n - j]
        BY <4>1, <4>2
      <4> QED BY <4>3, <4>4, <4>5
    <3> QED BY <3>1
  <2>3. Nat \subseteq G
    <3> HIDE DEF G
    <3> QED BY <2>1, <2>2, NaturalInduction
  <2>4. ASSUME NEW k \in 0..n PROVE T[k] <= T[n]
    <3>1. n - k \in G /\ n - k <= n /\ n - (n - k) = k
      BY <1>1, <2>3
    <3> QED BY <3>1
  <2> QED BY <2>4
<1>7. T[n] - T[0] \in Nat \ {0}
  BY <1>1, <1>2, <1>5
<1> QED BY <1>1, <1>2, <1>3, <1>5, <1>6, <1>7 DEF n

(* The denominator and the divisions the schedule makes of it. *)
LEMMA DenNatural ==
  ASSUME NEW terms, Lent(terms)
  PROVE  /\ Den(terms.rate) \in Nat \ {0}
         /\ Den(terms.rate) = terms.rate.den * (100 * Growth(terms.rate))
         /\ Den(terms.rate) = 100 * (terms.rate.den * Growth(terms.rate))
         /\ Den(terms.rate) = Growth(terms.rate) * (100 * terms.rate.den)
<1> DEFINE d == terms.rate.den
           g == Growth(terms.rate)
<1>1. d \in Nat \ {0} /\ g \in Nat \ {0}
  BY SharesGrow DEF Lent
<1>2. Den(terms.rate) = (100 * d) * g
  BY DEF Den
<1> HIDE DEF d, g
<1>3. d * g \in Nat \ {0}
  BY <1>1, PositiveProduct
<1>4. (100 * d) * g = 100 * (d * g) /\ (100 * d) * g = d * (100 * g) /\ (100 * d) * g = g * (100 * d)
  BY <1>1
<1> QED BY <1>2, <1>3, <1>4 DEF d, g

(* A positive factor cancels. *)
LEMMA Cancel ==
  ASSUME NEW d \in Nat \ {0}, NEW x \in Int, NEW y \in Int, d * x = d * y
  PROVE  x = y
OBVIOUS

(* An amount is determined by what it is worth. *)
LEMMA SameUnits ==
  ASSUME NEW den \in Nat \ {0}, NEW x \in Amounts(den), NEW y \in Amounts(den),
         Units(x, den) = Units(y, den)
  PROVE  x = y
<1>1. /\ x.whole \in Int /\ x.rest \in 0..(den - 1) /\ x = [whole |-> x.whole, rest |-> x.rest]
      /\ y.whole \in Int /\ y.rest \in 0..(den - 1) /\ y = [whole |-> y.whole, rest |-> y.rest]
  BY DEF Amounts
<1>2. den * x.whole + x.rest = den * y.whole + y.rest
  BY <1>1 DEF Units
<1>3. x.whole = y.whole /\ x.rest = y.rest
  BY <1>1, <1>2, DivisionIsUnique
<1> QED BY <1>1, <1>3

(* A multiple of d whose whole units are multiples of d has a rest that is one. *)
LEMMA RestDivides ==
  ASSUME NEW den \in Nat \ {0}, NEW x \in Amounts(den), NEW d \in Int, NEW e \in Int,
         den = d * e, NEW m \in Int, Units(x, den) = d * m
  PROVE  Divides(d, den) /\ Divides(d, x.rest)
<1> DEFINE w == x.whole
           r == x.rest
<1>1. w \in Int /\ r \in Int /\ w * den + r = d * m
  BY AmountParts
<1> HIDE DEF w, r
<1>2. w * den = d * (w * e)
  BY <1>1
<1>3. r = d * m - d * (w * e)
  <2> DEFINE u == d * m
             v == d * (w * e)
  <2>1. u \in Int /\ v \in Int /\ v + r = u
    BY <1>1, <1>2
  <2> HIDE DEF u, v
  <2>2. r = u - v
    BY <1>1, <2>1
  <2> QED BY <2>2 DEF u, v
<1>4. d * m - d * (w * e) = d * (m - w * e) /\ m - w * e \in Int
  BY <1>1
<1>5. r = d * (m - w * e)
  BY <1>3, <1>4
<1> QED BY <1>4, <1>5 DEF r, Divides

(* An amount of whole cents. *)
LEMMA CentsUnits ==
  ASSUME NEW den \in Nat \ {0}, NEW c \in Int
  PROVE  /\ Cents(c) \in Amounts(den)
         /\ Units(Cents(c), den) = c * den
         /\ Cents(c).rest = 0
BY DEF Cents, Amounts, Units

(* The units of a share. *)
Factor(terms) == 100 * (terms.rate.num * terms.amount)

(* The quota, exactly. *)
LEMMA BaseUnits ==
  ASSUME NEW terms, Lent(terms)
  PROVE  /\ CuotaBase(terms) \in Amounts(Den(terms.rate))
         /\ Units(CuotaBase(terms), Den(terms.rate))
              = Factor(terms) * Share(terms.rate, Installments)
<1> DEFINE n == Installments
           p == terms.amount
           a == terms.rate.num
           d == terms.rate.den
           g == Growth(terms.rate)
           den == Den(terms.rate)
           D == Powers(terms.rate.den)
           s == Share(terms.rate, 0)
           t == Share(terms.rate, Installments)
           x == Times(Cents(p), a, d, den)
           y == Times(Cents(p), a * D[n - 1], g, den)
<1>1. /\ p \in Nat \ {0} /\ a \in Nat \ {0} /\ d \in Nat \ {0} /\ n \in Nat \ {0}
      /\ g \in Nat \ {0} /\ g = t - s /\ s \in Nat /\ t \in Nat
  BY InstallmentsAssumption, Shares, SharesGrow DEF Lent
<1>2. den \in Nat \ {0} /\ den = d * (100 * g) /\ den = g * (100 * d)
  BY DenNatural
<1>3. CuotaBase(terms) = Plus(x, y, den)
  BY <1>1 DEF CuotaBase
<1>4. D[n - 1] \in Nat /\ d * D[n - 1] = s
  <2>1. n \in 1..n /\ n - 1 \in 0..n
    BY <1>1
  <2> QED BY <1>1, <2>1, PowersEquation, Shares
<1> DEFINE b == D[n - 1]
<1> HIDE DEF n, p, a, d, g, den, D, s, t, b
<1> DEFINE c == Cents(p)
<1>0. /\ c \in Amounts(den) /\ Units(c, den) = p * den
      /\ Divides(d, c.rest) /\ Divides(g, c.rest)
      /\ Divides(d, den) /\ Divides(g, den)
  <2>1. p \in Int
    BY <1>1
  <2>2. c \in Amounts(den) /\ Units(c, den) = p * den /\ c.rest = 0
    BY <1>2, <2>1, CentsUnits
  <2>3. d * 0 = 0 /\ g * 0 = 0 /\ 0 \in Int /\ 100 * g \in Int /\ 100 * d \in Int
    BY <1>1
  <2>4. Divides(d, 0) /\ Divides(g, 0)
    BY <2>3 DEF Divides
  <2>5. Divides(d, den) /\ Divides(g, den)
    BY <1>2, <2>3 DEF Divides
  <2> QED BY <2>2, <2>4, <2>5
<1>5. x \in Amounts(den) /\ d * Units(x, den) = a * (p * den)
  <2>1. a \in Int /\ d \in Nat \ {0}
    BY <1>1
  <2>2. x = Times(c, a, d, den)
    OBVIOUS
  <2> HIDE DEF c, x
  <2>3. x \in Amounts(den) /\ d * Units(x, den) = a * Units(c, den)
    BY <1>0, <1>2, <2>1, <2>2, TimesUnits
  <2> QED BY <1>0, <2>3
<1>6. y \in Amounts(den) /\ g * Units(y, den) = (a * b) * (p * den)
  <2> DEFINE m == a * b
  <2>1. m \in Int /\ g \in Nat \ {0}
    BY <1>1, <1>4 DEF b
  <2>2. y = Times(c, m, g, den)
    BY DEF b
  <2> HIDE DEF c, y, m
  <2>3. y \in Amounts(den) /\ g * Units(y, den) = m * Units(c, den)
    BY <1>0, <1>2, <2>1, <2>2, TimesUnits
  <2> QED BY <1>0, <2>3 DEF m
<1> HIDE DEF x, y
<1>7. Units(x, den) \in Int /\ Units(y, den) \in Int /\ b \in Nat
  BY <1>2, <1>4, <1>5, <1>6, AmountParts DEF b
<1>8. Units(x, den) = (100 * (a * p)) * g
  <2>1. a * (p * (d * (100 * g))) = d * ((100 * (a * p)) * g)
    BY <1>1
  <2>2. d * Units(x, den) = d * ((100 * (a * p)) * g)
    BY <1>2, <1>5, <2>1
  <2>3. (100 * (a * p)) * g \in Int
    BY <1>1
  <2> QED BY <1>1, <1>7, <2>2, <2>3, Cancel
<1>9. Units(y, den) = (100 * (a * p)) * s
  <2>1. (a * b) * (p * (g * (100 * d))) = g * ((100 * (a * p)) * (d * b))
    BY <1>1, <1>7
  <2>2. g * Units(y, den) = g * ((100 * (a * p)) * s)
    BY <1>2, <1>4, <1>6, <2>1 DEF b
  <2>3. (100 * (a * p)) * s \in Int
    BY <1>1
  <2> QED BY <1>1, <1>7, <2>2, <2>3, Cancel
<1>10. Plus(x, y, den) \in Amounts(den) /\ Units(Plus(x, y, den), den) = Units(x, den) + Units(y, den)
  BY <1>2, <1>5, <1>6, PlusUnits
<1>11. (100 * (a * p)) * g + (100 * (a * p)) * s = (100 * (a * p)) * t
  <2>1. g + s = t
    BY <1>1
  <2>2. (100 * (a * p)) * (g + s) = (100 * (a * p)) * g + (100 * (a * p)) * s
    BY <1>1
  <2> QED BY <2>1, <2>2
<1> QED BY <1>3, <1>8, <1>9, <1>10, <1>11 DEF Factor, den, p, a, t

(* What is owed after k instalments, exactly. *)
Owed(terms, k) ==
  (100 * (terms.amount * terms.rate.den))
    * (Share(terms.rate, Installments) - Share(terms.rate, k))

(* The interest of an instalment, exactly. *)
LEMMA InterestUnits ==
  ASSUME NEW terms, Lent(terms), NEW k \in 1..Installments,
         NEW saldo \in Amounts(Den(terms.rate)),
         Units(saldo, Den(terms.rate)) = Owed(terms, k - 1)
  PROVE  /\ Interest(terms, saldo) \in Amounts(Den(terms.rate))
         /\ Units(Interest(terms, saldo), Den(terms.rate))
              = Factor(terms) * (Share(terms.rate, Installments) - Share(terms.rate, k - 1))
<1> DEFINE p == terms.amount
           a == terms.rate.num
           d == terms.rate.den
           g == Growth(terms.rate)
           den == Den(terms.rate)
           h == Share(terms.rate, Installments) - Share(terms.rate, k - 1)
           x == Times(saldo, a, d, den)
<1>1. /\ p \in Nat \ {0} /\ a \in Nat \ {0} /\ d \in Nat \ {0}
      /\ g \in Nat \ {0} /\ h \in Int
  <2>1. Installments \in 0..Installments /\ k - 1 \in 0..Installments
    BY InstallmentsAssumption
  <2> QED BY <2>1, Shares, SharesGrow DEF Lent
<1>2. den \in Nat \ {0} /\ den = d * (100 * g)
  BY DenNatural
<1>3. Interest(terms, saldo) = x
  BY DEF Interest
<1>4. Units(saldo, den) = (100 * (p * d)) * h
  BY DEF Owed
<1>5. saldo \in Amounts(den)
  OBVIOUS
<1> HIDE DEF p, a, d, g, den, h
<1>6. (100 * (p * d)) * h = d * ((100 * p) * h) /\ (100 * p) * h \in Int /\ 100 * g \in Int
  BY <1>1
<1>7. Divides(d, den) /\ Divides(d, saldo.rest)
  <2> DEFINE e == 100 * g
             m == (100 * p) * h
  <2>1. e \in Int /\ m \in Int /\ d \in Int /\ den = d * e /\ Units(saldo, den) = d * m
    BY <1>1, <1>2, <1>4, <1>6
  <2> HIDE DEF e, m
  <2> QED BY <1>2, <1>5, <2>1, RestDivides
<1>8. x \in Amounts(den) /\ d * Units(x, den) = a * Units(saldo, den)
  <2>1. a \in Int /\ d \in Nat \ {0}
    BY <1>1
  <2> QED BY <1>2, <1>5, <1>7, <2>1, TimesUnits
<1> HIDE DEF x
<1>9. Units(x, den) = (100 * (a * p)) * h
  <2>1. a * (d * ((100 * p) * h)) = d * ((100 * (a * p)) * h)
    BY <1>1
  <2>2. d * Units(x, den) = d * ((100 * (a * p)) * h)
    BY <1>4, <1>6, <1>8, <2>1
  <2>3. (100 * (a * p)) * h \in Int /\ Units(x, den) \in Int
    BY <1>1, <1>2, <1>8, AmountParts
  <2> QED BY <1>1, <2>2, <2>3, Cancel
<1> QED BY <1>3, <1>8, <1>9 DEF Factor, den, p, a, h

(* Taking an amount off a normalised one and adding it again gives it back. *)
LEMMA PlusMinus ==
  ASSUME NEW d \in Nat \ {0}, NEW b \in Amounts(d), NEW i \in Amounts(d)
  PROVE  Plus(Minus(b, i, d), i, d) = b
<1>1. Minus(b, i, d) \in Amounts(d) /\ Units(Minus(b, i, d), d) = Units(b, d) - Units(i, d)
  BY MinusUnits
<1>2. /\ Plus(Minus(b, i, d), i, d) \in Amounts(d)
      /\ Units(Plus(Minus(b, i, d), i, d), d) = Units(Minus(b, i, d), d) + Units(i, d)
  BY <1>1, PlusUnits
<1>3. Units(b, d) \in Int /\ Units(i, d) \in Int
  BY AmountParts
<1>4. Units(Plus(Minus(b, i, d), i, d), d) = Units(b, d)
  BY <1>1, <1>2, <1>3
<1> QED
  BY <1>2, <1>4, SameUnits

(* The VAT of an instalment, exactly. *)
LEMMA VatUnits ==
  ASSUME NEW terms, Lent(terms), NEW k \in 1..Installments,
         NEW saldo \in Amounts(Den(terms.rate)),
         Units(saldo, Den(terms.rate)) = Owed(terms, k - 1)
  PROVE  /\ Vat(terms, Interest(terms, saldo)) \in Amounts(Den(terms.rate))
         /\ 100 * Units(Vat(terms, Interest(terms, saldo)), Den(terms.rate))
              = VatPercent * Units(Interest(terms, saldo), Den(terms.rate))
<1> DEFINE p == terms.amount
           a == terms.rate.num
           d == terms.rate.den
           g == Growth(terms.rate)
           den == Den(terms.rate)
           h == Share(terms.rate, Installments) - Share(terms.rate, k - 1)
           x == Interest(terms, saldo)
           c == 100
           v == VatPercent
           m == (a * p) * h
           e == d * g
<1>1. /\ p \in Nat \ {0} /\ a \in Nat \ {0} /\ d \in Nat \ {0}
      /\ g \in Nat \ {0} /\ h \in Int
  <2>1. Installments \in 0..Installments /\ k - 1 \in 0..Installments
    BY InstallmentsAssumption
  <2> QED BY <2>1, Shares, SharesGrow DEF Lent
<1>2. den \in Nat \ {0} /\ den = c * e
  BY DenNatural
<1>3. x \in Amounts(den) /\ Units(x, den) = (100 * (a * p)) * h
  BY InterestUnits DEF Factor
<1>4. c \in Nat \ {0} /\ c \in Int /\ v \in Int /\ Vat(terms, x) = Times(x, v, c, den)
  BY DEF Vat, VatPercent
<1> HIDE DEF p, a, d, g, h, x, v, den
<1>5. (100 * (a * p)) * h = c * m /\ m \in Int /\ e \in Int
  BY <1>1
<1> HIDE DEF c, m, e
<1>6. Units(x, den) = c * m
  BY <1>3, <1>5
<1>7. Divides(c, den) /\ Divides(c, x.rest)
  BY <1>2, <1>3, <1>4, <1>5, <1>6, RestDivides
<1>8. Times(x, v, c, den) \in Amounts(den)
      /\ c * Units(Times(x, v, c, den), den) = v * Units(x, den)
  BY <1>2, <1>3, <1>4, <1>7, TimesUnits
<1> QED BY <1>4, <1>8 DEF x, den, c, v

(* What an instalment amortises and what is owed after it, exactly. *)
LEMMA AmortizationUnits ==
  ASSUME NEW terms, Lent(terms), NEW k \in 1..Installments,
         NEW saldo \in Amounts(Den(terms.rate)),
         Units(saldo, Den(terms.rate)) = Owed(terms, k - 1)
  PROVE  /\ Amortization(terms, k, saldo) \in Amounts(Den(terms.rate))
         /\ Units(Amortization(terms, k, saldo), Den(terms.rate))
              = Factor(terms) * Share(terms.rate, k - 1)
         /\ Minus(saldo, Amortization(terms, k, saldo), Den(terms.rate)) \in Amounts(Den(terms.rate))
         /\ Units(Minus(saldo, Amortization(terms, k, saldo), Den(terms.rate)), Den(terms.rate))
              = Owed(terms, k)
<1> DEFINE n == Installments
           p == terms.amount
           a == terms.rate.num
           d == terms.rate.den
           den == Den(terms.rate)
           s == Share(terms.rate, k - 1)
           u == Share(terms.rate, k)
           t == Share(terms.rate, Installments)
           x == Amortization(terms, k, saldo)
           i == Interest(terms, saldo)
           b == CuotaBase(terms)
<1>1. /\ n \in Nat \ {0} /\ p \in Nat \ {0} /\ a \in Nat \ {0} /\ d \in Nat \ {0}
      /\ s \in Nat \ {0} /\ t \in Nat \ {0} /\ u \in Nat \ {0}
      /\ d * u = (a + d) * s
      /\ k = n => u = t
  <2>1. Installments \in 0..Installments /\ k - 1 \in 0..Installments /\ k \in 0..Installments
    BY InstallmentsAssumption
  <2> QED BY <2>1, InstallmentsAssumption, Shares DEF Lent
<1>2. den \in Nat \ {0}
  BY DenNatural
<1>3. i \in Amounts(den) /\ Units(i, den) = (100 * (a * p)) * (t - s)
  BY InterestUnits DEF Factor
<1>4. b \in Amounts(den) /\ Units(b, den) = (100 * (a * p)) * t
  BY BaseUnits DEF Factor
<1>5. saldo \in Amounts(den) /\ Units(saldo, den) = (100 * (p * d)) * (t - s)
  BY DEF Owed
<1>6. x = IF k = n THEN saldo ELSE Minus(b, i, den)
  BY DEF Amortization
<1> HIDE DEF n, p, a, d, den, s, t, u, x, i, b
<1>7. (100 * (p * d)) * (t - s) - (100 * (a * p)) * s = (100 * (p * d)) * (t - u)
  <2> DEFINE f == 100 * p
  <2>0. f \in Int
    BY <1>1
  <2>1. /\ (100 * (p * d)) * (t - s) = f * (d * t) - f * (d * s)
        /\ (100 * (a * p)) * s = f * (a * s)
        /\ (100 * (p * d)) * (t - u) = f * (d * t) - f * (d * u)
    BY <1>1
  <2>2. f * (d * u) = f * (a * s) + f * (d * s)
    <3>1. d * u = a * s + d * s
      BY <1>1
    <3>2. f * (a * s + d * s) = f * (a * s) + f * (d * s)
      BY <1>1, <2>0
    <3> QED BY <3>1, <3>2
  <2> DEFINE ft == f * (d * t)
             fs == f * (d * s)
             fa == f * (a * s)
             fu == f * (d * u)
  <2>3. ft \in Int /\ fs \in Int /\ fa \in Int /\ fu \in Int /\ fu = fa + fs
    BY <1>1, <2>0, <2>2
  <2> HIDE DEF f, ft, fs, fa, fu
  <2>4. (ft - fs) - fa = ft - fu
    BY <2>3
  <2> QED BY <2>1, <2>4 DEF ft, fs, fa, fu
<1>8. x \in Amounts(den) /\ Units(x, den) = (100 * (a * p)) * s
  <2>1. CASE k = n
    <3>1. (100 * (p * d)) * (t - u) = 0
      BY <1>1, <2>1
    <3> DEFINE v == (100 * (p * d)) * (t - s)
               w == (100 * (a * p)) * s
    <3>2. v \in Int /\ w \in Int /\ v - w = 0
      BY <1>1, <1>7, <3>1
    <3> HIDE DEF v, w
    <3>3. v = w
      BY <3>2
    <3> QED BY <1>5, <1>6, <2>1, <3>3 DEF v, w
  <2>2. CASE k # n
    <3>1. x \in Amounts(den) /\ Units(x, den) = Units(b, den) - Units(i, den)
      BY <1>2, <1>3, <1>4, <1>6, <2>2, MinusUnits
    <3>2. (100 * (a * p)) * t - (100 * (a * p)) * (t - s) = (100 * (a * p)) * s
      BY <1>1
    <3> QED BY <1>3, <1>4, <3>1, <3>2
  <2> QED BY <2>1, <2>2
<1>9. Minus(saldo, x, den) \in Amounts(den)
      /\ Units(Minus(saldo, x, den), den) = Units(saldo, den) - Units(x, den)
  BY <1>2, <1>5, <1>8, MinusUnits
<1>10. Owed(terms, k) = (100 * (p * d)) * (t - u)
  BY DEF Owed, p, d, t, u
<1> QED BY <1>5, <1>7, <1>8, <1>9, <1>10 DEF Factor, den, s, a, p, x

(* The balances the schedule runs through, as its closed form gives them. *)
Balance(terms, k) == Carry(0, Owed(terms, k), Den(terms.rate))

(* A balance is the amount that is owed. *)
LEMMA BalanceUnits ==
  ASSUME NEW terms, Lent(terms), NEW k \in 0..Installments
  PROVE  /\ Balance(terms, k) \in Amounts(Den(terms.rate))
         /\ Units(Balance(terms, k), Den(terms.rate)) = Owed(terms, k)
         /\ Owed(terms, k) \in Int
<1> DEFINE o == Owed(terms, k)
           z == 0
<1>1. o \in Int /\ z \in Int
  <2>1. Installments \in 0..Installments
    BY InstallmentsAssumption
  <2>2. terms.amount \in Int /\ terms.rate.den \in Int
        /\ Share(terms.rate, Installments) \in Int /\ Share(terms.rate, k) \in Int
    BY <2>1, Shares DEF Lent
  <2> QED BY <2>2 DEF Owed
<1>2. Balance(terms, k) = Carry(z, o, Den(terms.rate))
  BY DEF Balance
<1>3. Den(terms.rate) \in Nat \ {0} /\ z * Den(terms.rate) + o = o
  BY <1>1, DenNatural
<1> HIDE DEF o, z
<1> QED BY <1>1, <1>2, <1>3, CarryUnits DEF o

(* The recursion that defines the balances has these as its solution, and no other. *)
LEMMA SaldosAreBalances ==
  ASSUME NEW terms, Lent(terms)
  PROVE  \A k \in 0..Installments : Saldos(terms)[k] = Balance(terms, k)
<1> DEFINE n == Installments
           den == Den(terms.rate)
           B == [k \in 0..n |-> Balance(terms, k)]
           Next1(k, saldo) == Minus(saldo, Amortization(terms, k, saldo), den)
           Eq(S) == S = [k \in 0..n |-> IF k = 0 THEN Cents(terms.amount)
                                        ELSE Next1(k, S[k - 1])]
<1>1. n \in Nat \ {0} /\ den \in Nat \ {0} /\ terms.amount \in Int
  BY InstallmentsAssumption, DenNatural DEF Lent
<1>2. Balance(terms, 0) = Cents(terms.amount)
  <2>1. Balance(terms, 0) \in Amounts(den) /\ Units(Balance(terms, 0), den) = Owed(terms, 0)
    BY <1>1, BalanceUnits
  <2>2. Cents(terms.amount) \in Amounts(den) /\ Units(Cents(terms.amount), den) = terms.amount * den
    BY <1>1, CentsUnits
  <2>3. Owed(terms, 0) = terms.amount * den
    <3> DEFINE p == terms.amount
               d == terms.rate.den
               g == Growth(terms.rate)
    <3>1. den = d * (100 * g) /\ Owed(terms, 0) = (100 * (p * d)) * g
      BY DenNatural, SharesGrow DEF Owed
    <3>2. p \in Int /\ d \in Int /\ g \in Int
      BY SharesGrow DEF Lent
    <3> HIDE DEF p, d, g
    <3>3. (100 * (p * d)) * g = p * (d * (100 * g))
      BY <3>2
    <3> QED BY <3>1, <3>3 DEF p
  <2> QED BY <1>1, <2>1, <2>2, <2>3, SameUnits
<1>3. ASSUME NEW k \in 1..n PROVE Next1(k, Balance(terms, k - 1)) = Balance(terms, k)
  <2>1. k - 1 \in 0..n /\ k \in 0..n
    BY <1>1
  <2>2. /\ Balance(terms, k - 1) \in Amounts(den)
        /\ Units(Balance(terms, k - 1), den) = Owed(terms, k - 1)
        /\ Balance(terms, k) \in Amounts(den)
        /\ Units(Balance(terms, k), den) = Owed(terms, k)
    BY <2>1, BalanceUnits
  <2>3. /\ Next1(k, Balance(terms, k - 1)) \in Amounts(den)
        /\ Units(Next1(k, Balance(terms, k - 1)), den) = Owed(terms, k)
    BY <2>2, AmortizationUnits
  <2> HIDE DEF Next1
  <2> QED BY <1>1, <2>2, <2>3, SameUnits
<1>4. Eq(B)
  <2>1. ASSUME NEW k \in 0..n
        PROVE  B[k] = IF k = 0 THEN Cents(terms.amount) ELSE Next1(k, B[k - 1])
    <3>1. CASE k = 0
      BY <1>2, <3>1
    <3>2. CASE k # 0
      <4>1. k \in 1..n /\ B[k - 1] = Balance(terms, k - 1) /\ B[k] = Balance(terms, k)
        BY <1>1, <3>2
      <4> HIDE DEF B, Next1
      <4> QED BY <1>3, <3>2, <4>1
    <3> QED BY <3>1, <3>2
  <2> HIDE DEF Next1
  <2> QED BY <2>1
<1>5. Eq(Saldos(terms))
  <2>1. Saldos(terms) = CHOOSE S : Eq(S)
    BY DEF Saldos
  <2> HIDE DEF Eq, B
  <2> QED BY <1>4, <2>1
<1> DEFINE S == Saldos(terms)
<1>6. S[0] = Cents(terms.amount) /\ \A k \in 1..n : S[k] = Next1(k, S[k - 1])
  <2> HIDE DEF Next1
  <2>1. 0 \in 0..n /\ \A k \in 1..n : k \in 0..n /\ k # 0
    BY <1>1
  <2> QED BY <1>5, <2>1
<1> HIDE DEF Next1, S, n, B, Eq
<1> DEFINE G == {k \in Nat : k <= n => S[k] = Balance(terms, k)}
<1>7. 0 \in G
  BY <1>2, <1>6
<1>8. ASSUME NEW k \in Nat, k \in G PROVE k + 1 \in G
  <2>1. ASSUME k + 1 <= n PROVE S[k + 1] = Balance(terms, k + 1)
    <3>1. k + 1 \in 1..n /\ (k + 1) - 1 = k /\ k <= n
      BY <1>1, <2>1
    <3>2. S[k] = Balance(terms, k)
      BY <1>8, <3>1
    <3>3. S[k + 1] = Next1(k + 1, S[k]) /\ Next1(k + 1, Balance(terms, k)) = Balance(terms, k + 1)
      BY <1>3, <1>6, <3>1
    <3> QED BY <3>2, <3>3
  <2> QED BY <2>1
<1>9. Nat \subseteq G
  <2> HIDE DEF G
  <2> QED BY <1>7, <1>8, NaturalInduction
<1> QED BY <1>1, <1>9 DEF S, n

(* What the parts of an instalment are worth, in units of 1/den. *)
AmortizationOf(terms, k) == Factor(terms) * Share(terms.rate, k - 1)
InterestOf(terms, k) ==
  Factor(terms) * (Share(terms.rate, Installments) - Share(terms.rate, k - 1))
VatOf(terms, k) ==
  Units(Vat(terms, Interest(terms, Saldos(terms)[k - 1])), Den(terms.rate))
GrossOf(terms, k) == AmortizationOf(terms, k) + InterestOf(terms, k) + VatOf(terms, k)

(* r is u / den, rounded. *)
Rounds(r, u, den) ==
  /\ r \in Int /\ u \in Int /\ den * r \in Int
  /\ 2 * (den * r) - 2 * u <= den
  /\ 2 * (den * r) - 2 * u > -den

(* Round2 rounds. *)
LEMMA Round2Rounds ==
  ASSUME NEW den \in Nat \ {0}, NEW x \in Amounts(den)
  PROVE  Rounds(Round2(x, den), Units(x, den), den)
BY RoundUnits, AmountParts DEF Rounds

(* Three parts rounded apart, and their sum: they differ by a cent at most. *)
LEMMA RoundedParts ==
  ASSUME NEW den \in Nat \ {0}, NEW a, NEW i, NEW v, NEW ra, NEW ri, NEW rv, NEW rg,
         Rounds(ra, a, den), Rounds(ri, i, den), Rounds(rv, v, den), Rounds(rg, a + i + v, den)
  PROVE  rg - (ra + ri + rv) \in -1..1
<1> DEFINE x == rg - (ra + ri + rv)
           da == den * ra
           di == den * ri
           dv == den * rv
           dg == den * rg
<1>1. /\ a \in Int /\ i \in Int /\ v \in Int /\ ra \in Int /\ ri \in Int /\ rv \in Int /\ rg \in Int
      /\ da \in Int /\ di \in Int /\ dv \in Int /\ dg \in Int
      /\ 2 * da - 2 * a <= den /\ 2 * da - 2 * a > -den
      /\ 2 * di - 2 * i <= den /\ 2 * di - 2 * i > -den
      /\ 2 * dv - 2 * v <= den /\ 2 * dv - 2 * v > -den
      /\ 2 * dg - 2 * (a + i + v) <= den /\ 2 * dg - 2 * (a + i + v) > -den
  BY DEF Rounds
<1>2. x \in Int /\ den * x = dg - (da + di + dv)
  BY <1>1
<1> HIDE DEF x, da, di, dv, dg
<1>3. 2 * (den * x) < 4 * den /\ 2 * (den * x) > -(4 * den)
  BY <1>1, <1>2
<1>4. ASSUME x >= 2 PROVE FALSE
  <2>1. den * x >= den * 2
    BY <1>2, <1>4
  <2> QED BY <1>2, <1>3, <2>1
<1>5. ASSUME x <= -2 PROVE FALSE
  <2>1. den * x <= den * (-2)
    BY <1>2, <1>5
  <2> QED BY <1>2, <1>3, <2>1
<1>6. x \in -1..1
  BY <1>2, <1>4, <1>5
<1> QED BY <1>6 DEF x

(* Rounding keeps the order. *)
LEMMA RoundsInOrder ==
  ASSUME NEW den \in Nat \ {0}, NEW u, NEW w, NEW r, NEW q,
         Rounds(r, u, den), Rounds(q, w, den), u <= w
  PROVE  r <= q
<1> DEFINE dr == den * r
           dq == den * q
<1>1. /\ r \in Int /\ q \in Int /\ u \in Int /\ w \in Int /\ dr \in Int /\ dq \in Int
      /\ 2 * dr - 2 * u <= den /\ 2 * dq - 2 * w > -den
      /\ den * (r - q) = dr - dq
  BY DEF Rounds
<1>2. ASSUME r - q >= 1 PROVE FALSE
  <2>1. den * (r - q) >= den
    BY <1>1, <1>2
  <2> HIDE DEF dr, dq
  <2> QED BY <1>1, <2>1
<1> QED BY <1>1, <1>2

(* The parts of an instalment before the last one is closed, exactly. *)
LEMMA ItemUnits ==
  ASSUME NEW terms, Lent(terms), NEW k \in Numbers
  PROVE  LET den  == Den(terms.rate)
             item == OfferedItem(terms, k, Saldos(terms)[k - 1])
             saldo == Saldos(terms)[k - 1]
         IN  /\ Rounds(item.amortization, AmortizationOf(terms, k), den)
             /\ Rounds(item.interest, InterestOf(terms, k), den)
             /\ Rounds(item.vat, VatOf(terms, k), den)
             /\ Rounds(item.gross, GrossOf(terms, k), den)
             /\ CuotaBase(terms) \in Amounts(den)
             /\ Interest(terms, saldo) \in Amounts(den)
             /\ Amortization(terms, k, saldo) \in Amounts(den)
             /\ Units(Amortization(terms, k, saldo), den) = AmortizationOf(terms, k)
<1> DEFINE den == Den(terms.rate)
           saldo == Saldos(terms)[k - 1]
           a == Amortization(terms, k, saldo)
           i == Interest(terms, saldo)
           v == Vat(terms, i)
           b == CuotaBase(terms)
           item == OfferedItem(terms, k, saldo)
<1>1. k \in 1..Installments /\ k - 1 \in 0..Installments /\ Installments \in 0..Installments
  BY InstallmentsAssumption DEF Numbers
<1>2. den \in Nat \ {0}
  BY DenNatural
<1>3. saldo \in Amounts(den) /\ Units(saldo, den) = Owed(terms, k - 1)
  BY <1>1, SaldosAreBalances, BalanceUnits
<1>4. a \in Amounts(den) /\ Units(a, den) = AmortizationOf(terms, k)
  <2> HIDE DEF saldo
  <2> QED BY <1>1, <1>3, AmortizationUnits DEF AmortizationOf
<1>5. i \in Amounts(den) /\ Units(i, den) = InterestOf(terms, k)
  <2> HIDE DEF saldo
  <2> QED BY <1>1, <1>3, InterestUnits DEF InterestOf
<1>6. v \in Amounts(den) /\ Units(v, den) = VatOf(terms, k)
  <2>1. v \in Amounts(den)
    <3> HIDE DEF saldo
    <3> QED BY <1>1, <1>3, VatUnits
  <2> QED BY <2>1 DEF VatOf
<1>7. b \in Amounts(den) /\ Units(b, den) = Factor(terms) * Share(terms.rate, Installments)
  BY BaseUnits
<1>8. /\ item.amortization = Round2(a, den)
      /\ item.interest = Round2(i, den)
      /\ item.vat = Round2(v, den)
      /\ item.gross = Round2(Plus(b, v, den), den)
  BY DEF OfferedItem
<1>9. Units(b, den) = AmortizationOf(terms, k) + InterestOf(terms, k)
  <2> DEFINE f == Factor(terms)
             t == Share(terms.rate, Installments)
             s == Share(terms.rate, k - 1)
  <2>1. f \in Int /\ t \in Int /\ s \in Int
    BY <1>1, Shares DEF Lent, Factor
  <2> HIDE DEF f, t, s
  <2>2. f * t = f * s + f * (t - s)
    BY <2>1
  <2> QED BY <1>7, <2>2 DEF AmortizationOf, InterestOf, f, t, s
<1> HIDE DEF den, saldo, a, i, v, b, item
<1>10. Plus(b, v, den) \in Amounts(den) /\ Units(Plus(b, v, den), den) = GrossOf(terms, k)
  <2>1. Plus(b, v, den) \in Amounts(den) /\ Units(Plus(b, v, den), den) = Units(b, den) + Units(v, den)
    BY <1>2, <1>6, <1>7, PlusUnits
  <2> QED BY <1>6, <1>9, <2>1 DEF GrossOf
<1>11. Rounds(item.amortization, AmortizationOf(terms, k), den)
  BY <1>2, <1>4, <1>8, Round2Rounds
<1>12. Rounds(item.interest, InterestOf(terms, k), den)
  BY <1>2, <1>5, <1>8, Round2Rounds
<1>13. Rounds(item.vat, VatOf(terms, k), den)
  BY <1>2, <1>6, <1>8, Round2Rounds
<1>14. Rounds(item.gross, GrossOf(terms, k), den)
  BY <1>2, <1>10, <1>8, Round2Rounds
<1> QED BY <1>4, <1>5, <1>7, <1>11, <1>12, <1>13, <1>14 DEF den, item, saldo, a, i, b

(* The first instalment amortises the least and, with its VAT, is the largest. *)
LEMMA UnitsInOrder ==
  ASSUME NEW terms, Lent(terms), NEW k \in Numbers
  PROVE  /\ AmortizationOf(terms, 1) \in Int /\ AmortizationOf(terms, k) \in Int
         /\ AmortizationOf(terms, 1) <= AmortizationOf(terms, k)
         /\ GrossOf(terms, 1) \in Int /\ GrossOf(terms, k) \in Int
         /\ GrossOf(terms, k) <= GrossOf(terms, 1)
<1> DEFINE f == Factor(terms)
           t == Share(terms.rate, Installments)
           s == Share(terms.rate, k - 1)
           r == Share(terms.rate, 1 - 1)
           v == VatOf(terms, k)
           w == VatOf(terms, 1)
<1>1. k \in 1..Installments /\ 1 \in 1..Installments /\ 1 \in Numbers
      /\ k - 1 \in 0..Installments /\ 1 - 1 \in 0..Installments /\ Installments \in 0..Installments
  BY InstallmentsAssumption DEF Numbers
<1>2. f \in Nat \ {0} /\ t \in Int /\ s \in Int /\ r \in Int /\ r <= s
  <2>1. terms.rate.num * terms.amount \in Nat \ {0}
    BY PositiveProduct DEF Lent
  <2>2. f \in Nat \ {0}
    BY <2>1 DEF Factor
  <2> QED BY <1>1, <2>2, Shares, SharesGrow
<1>3. v \in Int /\ 100 * v = 21 * (f * (t - s))
  <2>1. \A j \in 1..Installments :
          /\ Saldos(terms)[j - 1] \in Amounts(Den(terms.rate))
          /\ Units(Saldos(terms)[j - 1], Den(terms.rate)) = Owed(terms, j - 1)
    BY InstallmentsAssumption, SaldosAreBalances, BalanceUnits
  <2> QED BY <1>1, <2>1, DenNatural, VatUnits, InterestUnits, AmountParts DEF VatOf, VatPercent
<1>4. w \in Int /\ 100 * w = 21 * (f * (t - r))
  <2>1. \A j \in 1..Installments :
          /\ Saldos(terms)[j - 1] \in Amounts(Den(terms.rate))
          /\ Units(Saldos(terms)[j - 1], Den(terms.rate)) = Owed(terms, j - 1)
    BY InstallmentsAssumption, SaldosAreBalances, BalanceUnits
  <2> QED BY <1>1, <2>1, DenNatural, VatUnits, InterestUnits, AmountParts DEF VatOf, VatPercent
<1>5. /\ AmortizationOf(terms, k) = f * s /\ AmortizationOf(terms, 1) = f * r
      /\ GrossOf(terms, k) = f * s + f * (t - s) + v
      /\ GrossOf(terms, 1) = f * r + f * (t - r) + w
  BY DEF AmortizationOf, InterestOf, GrossOf
<1> HIDE DEF f, t, s, r, v, w
<1>6. f * s + f * (t - s) = f * t /\ f * r + f * (t - r) = f * t /\ f * r <= f * s
      /\ f * s \in Int /\ f * r \in Int /\ f * t \in Int
  BY <1>2
<1>7. f * (t - s) <= f * (t - r) /\ f * (t - s) \in Int /\ f * (t - r) \in Int
  BY <1>2
<1>8. v <= w
  BY <1>3, <1>4, <1>7
<1> QED BY <1>3, <1>4, <1>5, <1>6, <1>8

(* The balance falls by what is amortised, from the amount lent to nothing. *)
LEMMA Telescopes ==
  ASSUME NEW terms, Lent(terms)
  PROVE  /\ Owed(terms, 0) = terms.amount * Den(terms.rate)
         /\ \A k \in Numbers :
              /\ Owed(terms, k) = Owed(terms, k - 1) - AmortizationOf(terms, k)
              /\ Owed(terms, k) \in Int /\ Owed(terms, k - 1) \in Int
         /\ Owed(terms, Installments) = 0
<1>1. Den(terms.rate) \in Nat \ {0}
  BY DenNatural
<1>2. Owed(terms, 0) = terms.amount * Den(terms.rate)
  <2> DEFINE p == terms.amount
             d == terms.rate.den
             g == Growth(terms.rate)
  <2>1. Den(terms.rate) = d * (100 * g) /\ Owed(terms, 0) = (100 * (p * d)) * g
    BY DenNatural, SharesGrow DEF Owed
  <2>2. p \in Int /\ d \in Int /\ g \in Int
    BY SharesGrow DEF Lent
  <2> HIDE DEF p, d, g
  <2>3. (100 * (p * d)) * g = p * (d * (100 * g))
    BY <2>2
  <2> QED BY <2>1, <2>3 DEF p
<1>3. ASSUME NEW k \in Numbers
      PROVE  /\ Owed(terms, k) = Owed(terms, k - 1) - AmortizationOf(terms, k)
             /\ Owed(terms, k) \in Int /\ Owed(terms, k - 1) \in Int
  <2> DEFINE den == Den(terms.rate)
             saldo == Balance(terms, k - 1)
             a == Amortization(terms, k, saldo)
  <2>1. k \in 1..Installments /\ k - 1 \in 0..Installments /\ k \in 0..Installments
    BY InstallmentsAssumption DEF Numbers
  <2>2. /\ saldo \in Amounts(den) /\ Units(saldo, den) = Owed(terms, k - 1)
        /\ Owed(terms, k) \in Int /\ Owed(terms, k - 1) \in Int
    BY <2>1, BalanceUnits
  <2>3. /\ a \in Amounts(den) /\ Units(a, den) = AmortizationOf(terms, k)
        /\ Units(Minus(saldo, a, den), den) = Owed(terms, k)
    <3> HIDE DEF saldo
    <3> QED BY <2>1, <2>2, AmortizationUnits DEF AmortizationOf
  <2>4. Units(Minus(saldo, a, den), den) = Units(saldo, den) - Units(a, den)
    <3> HIDE DEF den, saldo, a
    <3> QED BY <1>1, <2>2, <2>3, MinusUnits DEF den
  <2> QED BY <2>2, <2>3, <2>4
<1>4. Owed(terms, Installments) = 0
  <2>1. Share(terms.rate, Installments) \in Int /\ 100 * (terms.amount * terms.rate.den) \in Int
    BY InstallmentsAssumption, Shares DEF Lent
  <2> QED BY <2>1 DEF Owed
<1> QED BY <1>2, <1>3, <1>4

(* Rounding every part by itself leaves at most half a cent for each of them. *)
LEMMA SumOfRounded ==
  ASSUME NEW terms, Lent(terms), NEW f,
         \A k \in Numbers : Rounds(f[k], AmortizationOf(terms, k), Den(terms.rate)),
         NEW k \in 0..Installments
  PROVE  /\ SumOn(f, 1..k) \in Int
         /\ LET den  == Den(terms.rate)
                rest == 2 * (den * (terms.amount - SumOn(f, 1..k))) - 2 * Owed(terms, k)
            IN  -(k * den) <= rest /\ rest <= k * den
<1> DEFINE den == Den(terms.rate)
           n == Installments
           Rest(j) == 2 * (den * (terms.amount - SumOn(f, 1..j))) - 2 * Owed(terms, j)
           G == {j \in Nat : j <= n =>
                   SumOn(f, 1..j) \in Int /\ -(j * den) <= Rest(j) /\ Rest(j) <= j * den}
<1>1. den \in Nat \ {0} /\ n \in Nat \ {0} /\ terms.amount \in Int
  BY DenNatural, InstallmentsAssumption DEF Lent
<1>2. 0 \in G
  <2>1. 1..0 = {} /\ SumOn(f, {}) = 0
    BY SumEmpty
  <2>2. Owed(terms, 0) = terms.amount * den
    BY Telescopes
  <2>3. SumOn(f, 1..0) = 0
    BY <2>1
  <2> DEFINE p == terms.amount
  <2>4. Rest(0) = 2 * (den * (p - 0)) - 2 * (p * den)
    BY <2>2, <2>3
  <2>5. 2 * (den * (p - 0)) - 2 * (p * den) = 0 /\ 0 * den = 0
    <3> HIDE DEF den, p
    <3> QED BY <1>1 DEF p
  <2> HIDE DEF den, Rest
  <2> QED BY <1>1, <2>3, <2>4, <2>5
<1>3. ASSUME NEW j \in Nat, j \in G PROVE j + 1 \in G
  <2> SUFFICES ASSUME j + 1 <= n
               PROVE  SumOn(f, 1..(j + 1)) \in Int /\ -((j + 1) * den) <= Rest(j + 1)
                      /\ Rest(j + 1) <= (j + 1) * den
    OBVIOUS
  <2> DEFINE x == f[j + 1]
             a == AmortizationOf(terms, j + 1)
             sj == SumOn(f, 1..j)
             o == Owed(terms, j)
             p == terms.amount
  <2>1. j <= n /\ j + 1 \in Numbers /\ (j + 1) - 1 = j
    BY <1>1 DEF Numbers
  <2>2. sj \in Int /\ -(j * den) <= Rest(j) /\ Rest(j) <= j * den
    BY <1>3, <2>1
  <2>3. Rounds(x, a, den)
    BY <2>1
  <2>4. Owed(terms, j + 1) = o - a /\ o \in Int
    BY <2>1, Telescopes
  <2>5. SumOn(f, 1..(j + 1)) = x + sj
    <3>1. \A i \in 1..(j + 1) : f[i] \in Int
      <4>1. ASSUME NEW i \in 1..(j + 1) PROVE f[i] \in Int
        <5>1. i \in Numbers
          BY <1>1 DEF Numbers
        <5> QED BY <5>1 DEF Rounds
      <4> QED BY <4>1
    <3> QED BY <3>1, SumNext
  <2>6. Rest(j) = 2 * (den * (p - sj)) - 2 * o
        /\ Rest(j + 1) = 2 * (den * (p - (x + sj))) - 2 * (o - a)
    BY <2>4, <2>5
  <2> DEFINE dx == den * x
             dr == den * (p - sj)
             dj == j * den
  <2>7. /\ x \in Int /\ a \in Int /\ dx \in Int /\ 2 * dx - 2 * a <= den /\ 2 * dx - 2 * a > -den
    BY <2>3 DEF Rounds
  <2>8. den * (p - (x + sj)) = dr - dx /\ dr \in Int /\ dj \in Int /\ (j + 1) * den = dj + den
    <3> DEFINE y == p - sj
    <3>1. p \in Int /\ den \in Int /\ j \in Int
      BY <1>1
    <3> HIDE DEF den, p, sj, x
    <3>2. y \in Int /\ x \in Int /\ p - (x + sj) = y - x
      BY <2>2, <2>7, <3>1
    <3>3. (j + 1) * den = j * den + den /\ j * den \in Int
      BY <3>1
    <3> HIDE DEF y
    <3>4. den * (y - x) = den * y - den * x /\ den * y \in Int
      BY <3>1, <3>2
    <3> QED BY <3>2, <3>3, <3>4 DEF y
  <2>9. x + sj \in Int
    BY <2>2, <2>7
  <2> HIDE DEF den, Rest, x, a, sj, o, p, dx, dr, dj
  <2>10. Rest(j) = 2 * dr - 2 * o /\ Rest(j + 1) = 2 * (dr - dx) - 2 * (o - a)
    BY <2>6, <2>8 DEF dr
  <2>11. -dj <= Rest(j) /\ Rest(j) <= dj
    BY <2>2 DEF dj
  <2>12. -(dj + den) <= Rest(j + 1) /\ Rest(j + 1) <= dj + den
    BY <1>1, <2>4, <2>7, <2>8, <2>10, <2>11
  <2> QED BY <2>5, <2>8, <2>9, <2>12
<1>4. Nat \subseteq G
  <2> HIDE DEF G
  <2> QED BY <1>2, <1>3, NaturalInduction
<1>5. k \in G /\ k <= n
  BY <1>1, <1>4
<1> QED BY <1>5


(* Two numbers are as far apart as their differences say. *)
LEMMA DistanceBound ==
  ASSUME NEW a \in Int, NEW b \in Int, NEW m \in Int, a - b <= m, b - a <= m
  PROVE  Distance(a, b) <= m
<1> DEFINE S == {a - b, b - a}
           x == CHOOSE i \in S : \A j \in S : i >= j
<1>1. \E i \in S : \A j \in S : i >= j
  BY a - b \in Int, b - a \in Int
<1>2. x \in S
  BY <1>1
<1>3. Distance(a, b) = x
  BY DEF Distance, Max
<1> QED BY <1>2, <1>3

(* The instalments before the schedule is closed. *)
RawItem(terms, k) == OfferedItem(terms, k, Saldos(terms)[k - 1])
RawAmortization(terms) == [k \in Numbers |-> RawItem(terms, k).amortization]
LastAmortization(terms) ==
  terms.amount - SumOn(RawAmortization(terms), Numbers \ {Installments})

(* Closing the schedule changes the last instalment only. *)
LEMMA ClosedItems ==
  ASSUME NEW terms, NEW k \in Numbers
  PROVE  LET item == OfferedSchedule(terms)[k]
             raw  == RawItem(terms, k)
         IN  /\ k # Installments => item = raw
             /\ item.interest = raw.interest /\ item.vat = raw.vat
             /\ k = Installments =>
                  /\ item.amortization = LastAmortization(terms)
                  /\ item.gross = LastAmortization(terms) + raw.interest + raw.vat
<1> DEFINE raw == [i \in Numbers |-> OfferedItem(terms, i, Saldos(terms)[i - 1])]
           a == terms.amount
             - SumOn([i \in Numbers |-> raw[i].amortization], Numbers \ {Installments})
           last == [amortization |-> a, interest |-> raw[Installments].interest,
                    vat |-> raw[Installments].vat,
                    gross |-> a + raw[Installments].interest + raw[Installments].vat]
<1>1. OfferedSchedule(terms) = [raw EXCEPT ![Installments] = last]
  BY DEF OfferedSchedule, OfferedOn, CloseSchedule
<1>2. \A i \in Numbers : raw[i] = RawItem(terms, i)
  BY DEF RawItem
<1>3. a = LastAmortization(terms)
  <2>1. [i \in Numbers |-> raw[i].amortization] = RawAmortization(terms)
    BY <1>2 DEF RawAmortization
  <2> QED BY <2>1 DEF LastAmortization
<1>4. Installments \in Numbers
  BY InstallmentsAssumption DEF Numbers
<1> HIDE DEF a
<1>5. CASE k = Installments
  <2>1. OfferedSchedule(terms)[k] = last
    BY <1>1, <1>4, <1>5
  <2>2. raw[Installments] = RawItem(terms, k)
    BY <1>2, <1>4, <1>5
  <2> HIDE DEF raw
  <2> QED BY <1>3, <1>5, <2>1, <2>2
<1>6. CASE k # Installments
  <2>1. OfferedSchedule(terms)[k] = raw[k]
    BY <1>1, <1>6
  <2> QED BY <1>2, <1>6, <2>1
<1> QED BY <1>5, <1>6

(* What the parts of the instalments are, to the cent. *)
LEMMA ItemParts ==
  ASSUME NEW terms, Lent(terms), NEW k \in Numbers
  PROVE  LET item == OfferedSchedule(terms)[k]
             den  == Den(terms.rate)
         IN  /\ item.amortization \in Int /\ item.interest \in Int /\ item.vat \in Int
             /\ item.gross \in Int
             /\ Rounds(item.interest, InterestOf(terms, k), den)
             /\ Rounds(item.vat, VatOf(terms, k), den)
             /\ k # Installments =>
                  /\ Rounds(item.amortization, AmortizationOf(terms, k), den)
                  /\ Rounds(item.gross, GrossOf(terms, k), den)
             /\ k = Installments =>
                  /\ item.gross = item.amortization + item.interest + item.vat
                  /\ LET rest == 2 * (den * item.amortization) - 2 * AmortizationOf(terms, k)
                     IN  -((Installments - 1) * den) <= rest /\ rest <= (Installments - 1) * den
<1> DEFINE item == OfferedSchedule(terms)[k]
           raw == RawItem(terms, k)
           den == Den(terms.rate)
           n == Installments
           a == LastAmortization(terms)
<1>1. \A i \in Numbers :
        /\ Rounds(RawItem(terms, i).amortization, AmortizationOf(terms, i), den)
        /\ Rounds(RawItem(terms, i).interest, InterestOf(terms, i), den)
        /\ Rounds(RawItem(terms, i).vat, VatOf(terms, i), den)
        /\ Rounds(RawItem(terms, i).gross, GrossOf(terms, i), den)
  BY ItemUnits DEF RawItem
<1>2. /\ k # n => item = raw
      /\ item.interest = raw.interest /\ item.vat = raw.vat
      /\ k = n => item.amortization = a /\ item.gross = a + raw.interest + raw.vat
  BY ClosedItems
<1>3. n \in Nat \ {0} /\ den \in Nat \ {0} /\ n \in Numbers /\ terms.amount \in Int
      /\ n - 1 \in 0..n /\ Numbers \ {n} = 1..(n - 1)
  BY InstallmentsAssumption, DenNatural DEF Numbers, Lent
<1>4. /\ a \in Int
      /\ -((n - 1) * den) <= 2 * (den * a) - 2 * AmortizationOf(terms, n)
      /\ 2 * (den * a) - 2 * AmortizationOf(terms, n) <= (n - 1) * den
  <2> DEFINE f == RawAmortization(terms)
             s == SumOn(f, 1..(n - 1))
             m == n - 1
  <2>1. \A i \in Numbers : Rounds(f[i], AmortizationOf(terms, i), den)
    BY <1>1 DEF RawAmortization
  <2>2. m \in 0..n
    BY <1>3
  <2>3. /\ SumOn(f, 1..m) \in Int
        /\ LET rest == 2 * (den * (terms.amount - SumOn(f, 1..m))) - 2 * Owed(terms, m)
           IN  -(m * den) <= rest /\ rest <= m * den
    <3> HIDE DEF f, m
    <3> QED BY <2>1, <2>2, SumOfRounded
  <2>4. a = terms.amount - SumOn(f, 1..m)
    BY <1>3 DEF LastAmortization
  <2>5. Owed(terms, m) = AmortizationOf(terms, n)
    <3>1. /\ Owed(terms, n) = Owed(terms, n - 1) - AmortizationOf(terms, n)
          /\ Owed(terms, n) = 0
          /\ Owed(terms, n - 1) \in Int
      BY <1>3, Telescopes
    <3>2. AmortizationOf(terms, n) \in Int
      BY <1>3, UnitsInOrder
    <3> QED BY <3>1, <3>2
  <2>6. a \in Int
    BY <1>3, <2>3, <2>4
  <2> HIDE DEF a, f
  <2> QED BY <2>3, <2>4, <2>5, <2>6
<1> HIDE DEF item, raw, den, a
<1>5. /\ raw.amortization \in Int /\ raw.interest \in Int /\ raw.vat \in Int /\ raw.gross \in Int
  BY <1>1 DEF Rounds, raw
<1>6. item.interest \in Int /\ item.vat \in Int /\ item.amortization \in Int /\ item.gross \in Int
  <2>1. CASE k = n
    BY <1>2, <1>4, <1>5, <2>1
  <2>2. CASE k # n
    BY <1>2, <1>5, <2>2
  <2> QED BY <2>1, <2>2
<1>7. Rounds(item.interest, InterestOf(terms, k), den) /\ Rounds(item.vat, VatOf(terms, k), den)
  BY <1>1, <1>2 DEF raw
<1>8. ASSUME k # n PROVE /\ Rounds(item.amortization, AmortizationOf(terms, k), den)
                         /\ Rounds(item.gross, GrossOf(terms, k), den)
  BY <1>1, <1>2, <1>8 DEF raw
<1>9. ASSUME k = n
      PROVE  /\ item.gross = item.amortization + item.interest + item.vat
             /\ LET rest == 2 * (den * item.amortization) - 2 * AmortizationOf(terms, k)
                IN  -((n - 1) * den) <= rest /\ rest <= (n - 1) * den
  BY <1>2, <1>4, <1>9
<1> QED BY <1>6, <1>7, <1>8, <1>9 DEF item, den

(* An instalment is within a cent of its parts, whichever it is. *)
LEMMA GrossOfParts ==
  ASSUME NEW terms, Lent(terms), NEW k \in Numbers
  PROVE  LET item == OfferedSchedule(terms)[k]
         IN  /\ item.gross - (item.amortization + item.interest + item.vat) \in -1..1
             /\ k = Installments =>
                  item.gross - (item.amortization + item.interest + item.vat) = 0
<1> DEFINE item == OfferedSchedule(terms)[k]
           den == Den(terms.rate)
<1>1. CASE k = Installments
  <2>1. /\ item.gross = item.amortization + item.interest + item.vat
        /\ item.amortization \in Int /\ item.interest \in Int /\ item.vat \in Int
    BY <1>1, ItemParts
  <2> HIDE DEF item
  <2>2. item.gross - (item.amortization + item.interest + item.vat) = 0
    BY <2>1
  <2> QED BY <2>2 DEF item
<1>2. CASE k # Installments
  <2>1. /\ Rounds(item.amortization, AmortizationOf(terms, k), den)
        /\ Rounds(item.interest, InterestOf(terms, k), den)
        /\ Rounds(item.vat, VatOf(terms, k), den)
        /\ Rounds(item.gross, GrossOf(terms, k), den)
    BY <1>2, ItemParts
  <2>2. den \in Nat \ {0}
    BY DenNatural
  <2> HIDE DEF item, den
  <2>3. item.gross - (item.amortization + item.interest + item.vat) \in -1..1
    BY <2>1, <2>2, RoundedParts DEF GrossOf
  <2> QED BY <1>2, <2>3 DEF item
<1> QED BY <1>1, <1>2

(* No instalment is above the first by more than the rounding of the others. *)
LEMMA NoInstalmentIsAboveTheFirst ==
  ASSUME NEW terms, Lent(terms), NEW k \in Numbers
  PROVE  OfferedSchedule(terms)[k].gross <= OfferedSchedule(terms)[1].gross + Installments
<1> DEFINE n == Installments
           den == Den(terms.rate)
           g == OfferedSchedule(terms)[1].gross
           h == OfferedSchedule(terms)[k].gross
<1>1. n \in Nat \ {0} /\ den \in Nat \ {0} /\ 1 \in Numbers
  BY InstallmentsAssumption, DenNatural DEF Numbers
<1>2. g \in Int /\ h \in Int
  BY <1>1, ItemParts
<1>3. CASE k = 1
  BY <1>1, <1>2, <1>3
<1>4. CASE k # 1 /\ k # n
  <2>1. 1 # n
    BY <1>4 DEF Numbers
  <2>2. Rounds(h, GrossOf(terms, k), den) /\ Rounds(g, GrossOf(terms, 1), den)
    BY <1>1, <1>4, <2>1, ItemParts
  <2>3. GrossOf(terms, k) <= GrossOf(terms, 1)
    BY UnitsInOrder
  <2> HIDE DEF g, h, den
  <2>4. h <= g
    BY <1>1, <2>2, <2>3, RoundsInOrder
  <2> QED BY <1>1, <1>2, <2>4 DEF g, h
<1>5. CASE k # 1 /\ k = n
  <2> DEFINE item == OfferedSchedule(terms)[k]
             a == AmortizationOf(terms, k)
             i == InterestOf(terms, k)
             v == VatOf(terms, k)
             da == den * item.amortization
             di == den * item.interest
             dv == den * item.vat
             dg == den * g
             m == (n - 1) * den
             w == GrossOf(terms, 1)
  <2>1. Rounds(g, w, den)
    BY <1>1, <1>5, ItemParts
  <2>2. /\ Rounds(item.interest, i, den) /\ Rounds(item.vat, v, den)
        /\ item.amortization \in Int
        /\ h = item.amortization + item.interest + item.vat
        /\ 2 * da - 2 * a <= m
    BY <1>5, ItemParts
  <2>3. a + i + v <= w /\ a \in Int
    BY UnitsInOrder DEF GrossOf
  <2> HIDE DEF item, a, i, v, w, g, h, den
  <2>4. /\ item.interest \in Int /\ item.vat \in Int /\ i \in Int /\ v \in Int /\ w \in Int
        /\ di \in Int /\ dv \in Int /\ dg \in Int /\ da \in Int /\ m \in Int
        /\ 2 * di - 2 * i <= den /\ 2 * dv - 2 * v <= den /\ 2 * dg - 2 * w > -den
    BY <1>1, <2>1, <2>2 DEF Rounds
  <2>5. den * (h - g) = da + di + dv - dg /\ m = den * n - den /\ den * n \in Int
    <3>1. h - g = item.amortization + item.interest + item.vat - g
      BY <1>2, <2>2, <2>4
    <3>2. den * (item.amortization + item.interest + item.vat - g) = da + di + dv - dg
      BY <1>1, <1>2, <2>2, <2>4
    <3>3. m = den * n - den /\ den * n \in Int
      BY <1>1
    <3> QED BY <3>1, <3>2, <3>3
  <2> DEFINE x == h - g
             dn == den * n
             dx == den * x
  <2> HIDE DEF da, di, dv, dg, m
  <2>6. x \in Int /\ dx = da + di + dv - dg /\ m = dn - den /\ dn \in Int
    BY <1>2, <2>5
  <2> HIDE DEF x, dn, dx
  <2>7. 2 * dx < dn + 2 * den
    BY <1>1, <2>2, <2>3, <2>4, <2>6
  <2>8. ASSUME x >= n + 1 PROVE FALSE
    <3>1. den * x >= den * (n + 1)
      BY <1>1, <2>6, <2>8
    <3>2. den * (n + 1) = dn + den /\ dn >= den
      BY <1>1 DEF dn
    <3> QED BY <1>1, <2>6, <2>7, <3>1, <3>2 DEF dx
  <2>9. x <= n
    BY <1>1, <2>6, <2>8
  <2>10. h <= g + n
    BY <1>1, <1>2, <2>9 DEF x
  <2> QED BY <2>10 DEF g, h
<1> QED BY <1>3, <1>4, <1>5

(* Every instalment amortises something. *)
LEMMA EveryInstalmentAmortises ==
  ASSUME NEW terms, Lent(terms), NEW k \in Numbers, Amortises(terms)
  PROVE  OfferedSchedule(terms)[k].amortization > 0
<1> DEFINE n == Installments
           den == Den(terms.rate)
           x == OfferedSchedule(terms)[k].amortization
           a == AmortizationOf(terms, k)
           o == AmortizationOf(terms, 1)
           first == Amortization(terms, 1, Cents(terms.amount))
           dx == den * x
           dn == den * n
           m == (n - 1) * den
<1>1. n \in Nat \ {0} /\ den \in Nat \ {0} /\ 1 \in Numbers
  BY InstallmentsAssumption, DenNatural DEF Numbers
<1>2. o >= dn
  <2>1. Cents(terms.amount) = Saldos(terms)[0]
    <3>1. 0 \in 0..n
      BY <1>1
    <3>2. Saldos(terms)[0] = Balance(terms, 0) /\ Balance(terms, 0) \in Amounts(den)
          /\ Units(Balance(terms, 0), den) = Owed(terms, 0)
      BY <3>1, SaldosAreBalances, BalanceUnits
    <3>3. terms.amount \in Int
      BY DEF Lent
    <3>4. Cents(terms.amount) \in Amounts(den)
          /\ Units(Cents(terms.amount), den) = terms.amount * den
      <4> HIDE DEF den
      <4> QED BY <1>1, <3>3, CentsUnits
    <3>5. Owed(terms, 0) = terms.amount * den
      BY Telescopes
    <3> HIDE DEF den
    <3> QED BY <1>1, <3>2, <3>4, <3>5, SameUnits
  <2>2. first \in Amounts(den) /\ Units(first, den) = o
    <3>1. first = Amortization(terms, 1, Saldos(terms)[1 - 1])
      BY <2>1
    <3> QED BY <1>1, <3>1, ItemUnits
  <2>3. first.whole >= n
    BY DEF Amortises
  <2> HIDE DEF first, den, o, n
  <2>4. /\ first.whole \in Int /\ first.rest \in Int /\ first.rest >= 0
        /\ o = first.whole * den + first.rest
    BY <1>1, <2>2, AmountParts
  <2> DEFINE w == first.whole
  <2>5. w * den >= den * n /\ w * den \in Int /\ den * n \in Int
    BY <1>1, <2>3, <2>4
  <2> QED BY <2>4, <2>5
<1>3. /\ x \in Int
      /\ k # n => Rounds(x, a, den)
      /\ k = n => 2 * dx - 2 * a >= -m
      /\ o <= a /\ o \in Int /\ a \in Int
  BY ItemParts, UnitsInOrder
<1> HIDE DEF x, a, o, den, n
<1>4. dx \in Int /\ dn \in Int /\ m = dn - den /\ m >= 0 /\ dn >= den
  BY <1>1, <1>3
<1>5. dx > 0
  <2>1. CASE k # n
    <3>1. 2 * dx - 2 * a > -den
      BY <1>3, <2>1 DEF Rounds
    <3> HIDE DEF dx, dn, m
    <3> QED BY <1>1, <1>2, <1>3, <1>4, <3>1
  <2>2. CASE k = n
    <3>1. 2 * dx - 2 * a >= -m
      BY <1>3, <2>2
    <3> HIDE DEF dx, dn, m
    <3> QED BY <1>1, <1>2, <1>3, <1>4, <3>1
  <2> QED BY <2>1, <2>2
<1>6. x > 0
  <2>1. ASSUME x <= 0 PROVE FALSE
    <3>1. den * x <= 0
      BY <1>1, <1>3, <2>1
    <3> QED BY <1>4, <1>5, <3>1
  <2> QED BY <1>3, <2>1
<1> QED BY <1>6 DEF x

(* The capital is amortised exactly. *)
LEMMA CapitalIsAmortised ==
  ASSUME NEW terms, Lent(terms)
  PROVE  SumOf(OfferedSchedule(terms), "amortization") = terms.amount
<1> DEFINE n == Installments
           s == OfferedSchedule(terms)
           f == [i \in Numbers |-> s[i]["amortization"]]
           r == RawAmortization(terms)
<1>1. n \in Numbers /\ IsFiniteSet(Numbers) /\ terms.amount \in Int
  <2> DEFINE o == 1
  <2>1. o \in Int /\ n \in Int /\ Numbers = o..n
    BY InstallmentsAssumption DEF Numbers
  <2>2. IsFiniteSet(Numbers)
    <3> HIDE DEF o, n
    <3> QED BY <2>1, FS_Interval
  <2> QED BY <2>2, InstallmentsAssumption DEF Numbers, Lent
<1>2. \A i \in Numbers : f[i] = s[i].amortization /\ f[i] \in Int
  BY ItemParts
<1>3. ASSUME NEW i \in Numbers \ {n} PROVE r[i] = f[i] /\ f[i] \in Int
  BY <1>2, ClosedItems DEF RawAmortization
<1>4. s[n].amortization = terms.amount - SumOn(r, Numbers \ {n})
  BY <1>1, ClosedItems DEF LastAmortization
<1> HIDE DEF f, r, n
<1>5. SumOn(f, Numbers) = f[n] + SumOn(f, Numbers \ {n})
  BY <1>1, <1>2, SumElement
<1>6. SumOn(f, Numbers \ {n}) = SumOn(r, Numbers \ {n}) /\ SumOn(f, Numbers \ {n}) \in Int
  <2> DEFINE T == Numbers \ {n}
  <2>1. IsFiniteSet(T) /\ \A i \in T : f[i] \in Int /\ f[i] = r[i]
    BY <1>1, <1>3, FS_Subset
  <2> HIDE DEF T
  <2>2. SumOn(f, T) = SumOn(r, T) /\ SumOn(f, T) \in Int
    BY <2>1, SumCongruence, SumElement
  <2> QED BY <2>2 DEF T
<1>7. SumOn(f, Numbers) = terms.amount
  BY <1>1, <1>2, <1>4, <1>5, <1>6
<1> QED BY <1>7 DEF SumOf, f

(* The totals are those of the instalments, a cent apart for each but the last. *)
LEMMA TotalsAddUp ==
  ASSUME NEW terms, Lent(terms)
  PROVE  LET s == OfferedSchedule(terms)
             x == SumOf(s, "gross")
                    - (terms.amount + SumOf(s, "interest") + SumOf(s, "vat"))
         IN  /\ SumOf(s, "gross") \in Int /\ SumOf(s, "interest") \in Int
             /\ SumOf(s, "vat") \in Int
             /\ -(Installments - 1) <= x /\ x <= Installments - 1
<1> DEFINE n == Installments
           s == OfferedSchedule(terms)
           fa == [i \in Numbers |-> s[i]["amortization"]]
           fi == [i \in Numbers |-> s[i]["interest"]]
           fv == [i \in Numbers |-> s[i]["vat"]]
           fg == [i \in Numbers |-> s[i]["gross"]]
           fe == [i \in Numbers |-> s[i].gross - (s[i].amortization + s[i].interest + s[i].vat)]
           f2 == [i \in Numbers |-> fa[i] + fi[i]]
           f3 == [i \in Numbers |-> f2[i] + fv[i]]
<1>1. n \in Numbers /\ IsFiniteSet(Numbers) /\ n \in Nat \ {0} /\ Numbers = 1..n
  <2> DEFINE o == 1
  <2>1. o \in Int /\ n \in Int /\ Numbers = o..n
    BY InstallmentsAssumption DEF Numbers
  <2>2. IsFiniteSet(Numbers)
    <3> HIDE DEF o, n
    <3> QED BY <2>1, FS_Interval
  <2> QED BY <2>2, InstallmentsAssumption DEF Numbers
<1>2. ASSUME NEW i \in Numbers
      PROVE  /\ fa[i] \in Int /\ fi[i] \in Int /\ fv[i] \in Int /\ fg[i] \in Int
             /\ f2[i] = fa[i] + fi[i] /\ f2[i] \in Int
             /\ f3[i] = f2[i] + fv[i] /\ f3[i] \in Int
             /\ fe[i] \in -1..1 /\ fg[i] = f3[i] + fe[i]
             /\ i = n => fe[i] = 0
  <2> DEFINE a == s[i].amortization
             j == s[i].interest
             v == s[i].vat
             g == s[i].gross
  <2>1. a \in Int /\ j \in Int /\ v \in Int /\ g \in Int
    BY ItemParts
  <2>2. g - (a + j + v) \in -1..1 /\ (i = n => g - (a + j + v) = 0)
    BY GrossOfParts
  <2>3. fa[i] = a /\ fi[i] = j /\ fv[i] = v /\ fg[i] = g /\ fe[i] = g - (a + j + v)
        /\ f2[i] = fa[i] + fi[i] /\ f3[i] = f2[i] + fv[i]
    OBVIOUS
  <2> HIDE DEF a, j, v, g, fa, fi, fv, fg, fe, f2, f3, n
  <2> QED BY <2>1, <2>2, <2>3
<1>3. SumOn(fa, Numbers) = terms.amount
  BY CapitalIsAmortised DEF SumOf
<1> HIDE DEF fa, fi, fv, fg, fe, f2, f3, n, s
<1>4. /\ SumOn(fi, Numbers) \in Int /\ SumOn(fv, Numbers) \in Int /\ SumOn(fe, Numbers) \in Int
      /\ SumOn(fa, Numbers) \in Int
  <2>1. ASSUME NEW f, \A i \in Numbers : f[i] \in Int PROVE SumOn(f, Numbers) \in Int
    BY <1>1, <2>1, SumElement
  <2>2. /\ \A i \in Numbers : fa[i] \in Int
        /\ \A i \in Numbers : fi[i] \in Int
        /\ \A i \in Numbers : fv[i] \in Int
        /\ \A i \in Numbers : fe[i] \in Int
    BY <1>2
  <2> QED BY <2>1, <2>2
<1>5. SumOn(f2, Numbers) = SumOn(fa, Numbers) + SumOn(fi, Numbers)
  <2>1. \A i \in Numbers : fa[i] \in Int /\ fi[i] \in Int /\ f2[i] = fa[i] + fi[i]
    BY <1>2
  <2> QED
    BY <1>1, <2>1, SumPlus
<1>6. SumOn(f3, Numbers) = SumOn(f2, Numbers) + SumOn(fv, Numbers)
  <2>1. \A i \in Numbers : f2[i] \in Int /\ fv[i] \in Int /\ f3[i] = f2[i] + fv[i]
    BY <1>2
  <2> QED
    BY <1>1, <2>1, SumPlus
<1>7. SumOn(fg, Numbers) = SumOn(f3, Numbers) + SumOn(fe, Numbers)
  <2>1. \A i \in Numbers : f3[i] \in Int /\ fe[i] \in Int /\ fg[i] = f3[i] + fe[i]
    BY <1>2
  <2> QED BY <1>1, <2>1, SumPlus
<1>8. -(n - 1) <= SumOn(fe, Numbers) /\ SumOn(fe, Numbers) <= n - 1
  <2> DEFINE m == n - 1
  <2>1. m \in Nat /\ Numbers \ {n} = 1..m /\ \A i \in 1..m : fe[i] \in -1..1
    BY <1>1, <1>2
  <2>2. SumOn(fe, Numbers) = fe[n] + SumOn(fe, Numbers \ {n})
    <3>1. \A i \in Numbers : fe[i] \in Int
      BY <1>2
    <3> QED BY <1>1, <3>1, SumElement
  <2>3. fe[n] = 0
    BY <1>1, <1>2
  <2>4. SumOn(fe, 1..m) \in Int /\ -m <= SumOn(fe, 1..m) /\ SumOn(fe, 1..m) <= m
    <3>1. m \in 0..m
      BY <2>1
    <3> HIDE DEF m
    <3> QED BY <2>1, <3>1, SumOfUnits
  <2>5. SumOn(fe, Numbers) = SumOn(fe, 1..m)
    <3>1. SumOn(fe, Numbers \ {n}) = SumOn(fe, 1..m)
      BY <2>1
    <3> DEFINE x == SumOn(fe, Numbers \ {n})
               y == SumOn(fe, 1..m)
               z == SumOn(fe, Numbers)
    <3>2. x = y /\ y \in Int /\ z = fe[n] + x /\ fe[n] = 0
      BY <2>2, <2>3, <2>4, <3>1
    <3> HIDE DEF x, y, z
    <3>3. z = y
      BY <3>2
    <3> QED BY <3>3 DEF z, y
  <2> QED BY <2>4, <2>5
<1>9. /\ SumOf(s, "gross") = SumOn(fg, Numbers) /\ SumOf(s, "interest") = SumOn(fi, Numbers)
      /\ SumOf(s, "vat") = SumOn(fv, Numbers)
  BY DEF SumOf, fg, fi, fv
<1> DEFINE sg == SumOn(fg, Numbers)
           si == SumOn(fi, Numbers)
           sv == SumOn(fv, Numbers)
           se == SumOn(fe, Numbers)
           p == terms.amount
<1>10. /\ p \in Int /\ si \in Int /\ sv \in Int /\ se \in Int
       /\ sg = ((p + si) + sv) + se
       /\ -(n - 1) <= se /\ se <= n - 1
  BY <1>3, <1>4, <1>5, <1>6, <1>7, <1>8 DEF Lent
<1> HIDE DEF sg, si, sv, se, p
<1>11. sg \in Int /\ -(n - 1) <= sg - (p + si + sv) /\ sg - (p + si + sv) <= n - 1
  BY <1>1, <1>10
<1> QED BY <1>9, <1>10, <1>11 DEF sg, si, sv, p, s, n

(* The quote of any terms adds up. *)
THEOREM QuoteAddsUp ==
  ASSUME NEW terms, Lent(terms)
  PROVE  AddsUp(Quote(terms), terms)
<1> DEFINE s == OfferedSchedule(terms)
           n == Installments
<1>1. n \in Nat \ {0} /\ 1 \in Numbers
  BY InstallmentsAssumption DEF Numbers
<1>2. /\ Quote(terms).schedule = s
      /\ Quote(terms).payment_amount = s[1].gross
      /\ Quote(terms).total_interest = SumOf(s, "interest")
      /\ Quote(terms).total_vat = SumOf(s, "vat")
      /\ Quote(terms).total_payable = SumOf(s, "gross")
  BY DEF Quote
<1>3. ASSUME NEW i \in Numbers
      PROVE  Distance(s[i].gross, s[i].amortization + s[i].interest + s[i].vat) <= 1
  <2> DEFINE g == s[i].gross
             t == s[i].amortization + s[i].interest + s[i].vat
             o == 1
  <2>1. g \in Int /\ t \in Int /\ g - t \in -1..1
    BY ItemParts, GrossOfParts
  <2> HIDE DEF g, t
  <2>2. g - t <= o /\ t - g <= o /\ o \in Int
    BY <2>1
  <2>3. Distance(g, t) <= o
    <3> HIDE DEF o
    <3> QED BY <2>1, <2>2, DistanceBound
  <2> QED BY <2>3 DEF g, t
<1>4. Distance(SumOf(s, "gross"), terms.amount + SumOf(s, "interest") + SumOf(s, "vat")) <= n - 1
  <2> DEFINE g == SumOf(s, "gross")
             i == SumOf(s, "interest")
             v == SumOf(s, "vat")
             p == terms.amount
             m == n - 1
             t == p + i + v
  <2>1. g \in Int /\ i \in Int /\ v \in Int /\ -m <= g - (p + i + v) /\ g - (p + i + v) <= m
    BY TotalsAddUp
  <2>2. m \in Int /\ p \in Int
    BY <1>1 DEF Lent
  <2> HIDE DEF g, i, v, p, m
  <2>3. t \in Int /\ g - t <= m /\ t - g <= m
    BY <2>1, <2>2
  <2>4. Distance(g, t) <= m
    <3> HIDE DEF t
    <3> QED BY <2>1, <2>2, <2>3, DistanceBound
  <2> QED BY <2>4 DEF g, i, v, p, m
<1> QED
  BY <1>2, <1>3, <1>4, CapitalIsAmortised, EveryInstalmentAmortises, NoInstalmentIsAboveTheFirst
     DEF AddsUp

(* Both services make the same instalments, to the cent, of the same terms:   *)
(* the offer's gross is the quota and its VAT, the loan's the sum of its      *)
(* parts, and the last instalment's gross is computed anew in both.           *)
THEOREM SameSchedule ==
  ASSUME NEW terms, Den(terms.rate) \in Nat \ {0},
         CuotaBase(terms) \in Amounts(Den(terms.rate)),
         NEW saldos,
         \A i \in Numbers : Interest(terms, saldos[i - 1]) \in Amounts(Den(terms.rate))
  PROVE  OfferedOn(terms, saldos) = ChargedOn(terms, saldos)
<1> DEFINE den == Den(terms.rate)
           offered == [i \in Numbers |-> OfferedItem(terms, i, saldos[i - 1])]
           charged == [i \in Numbers |-> ChargedItem(terms, i, saldos[i - 1])]
<1>1. Installments \in Numbers
  BY InstallmentsAssumption DEF Numbers
<1>2. ASSUME NEW i \in Numbers
      PROVE  /\ offered[i].amortization = charged[i].amortization
             /\ offered[i].interest = charged[i].interest
             /\ offered[i].vat = charged[i].vat
  BY DEF OfferedItem, ChargedItem
<1>3. ASSUME NEW i \in Numbers \ {Installments}
      PROVE  offered[i] = charged[i]
  <2> DEFINE interest == Interest(terms, saldos[i - 1])
  <2>1. Plus(Amortization(terms, i, saldos[i - 1]), interest, den) = CuotaBase(terms)
    <3>1. Amortization(terms, i, saldos[i - 1]) = Minus(CuotaBase(terms), interest, den)
      BY DEF Amortization
    <3>2. interest \in Amounts(den)
      OBVIOUS
    <3> HIDE DEF interest
    <3> QED BY <3>1, <3>2, PlusMinus
  <2> QED
    BY <2>1 DEF OfferedItem, ChargedItem
<1>4. CloseSchedule(terms, offered) = CloseSchedule(terms, charged)
  <2>1. [i \in Numbers |-> offered[i].amortization] = [i \in Numbers |-> charged[i].amortization]
    BY <1>2
  <2> DEFINE a == terms.amount
               - SumOn([i \in Numbers |-> offered[i].amortization], Numbers \ {Installments})
             Last(s) == [amortization |-> a, interest |-> s[Installments].interest,
                         vat |-> s[Installments].vat,
                         gross |-> a + s[Installments].interest + s[Installments].vat]
  <2>2. CloseSchedule(terms, offered) = [offered EXCEPT ![Installments] = Last(offered)]
    BY DEF CloseSchedule
  <2>3. CloseSchedule(terms, charged) = [charged EXCEPT ![Installments] = Last(charged)]
    BY <2>1 DEF CloseSchedule
  <2>4. Last(offered) = Last(charged)
    BY <1>1, <1>2
  <2>5. DOMAIN offered = Numbers /\ DOMAIN charged = Numbers
    OBVIOUS
  <2>6. \A i \in Numbers : i # Installments => offered[i] = charged[i]
    BY <1>3
  <2> HIDE DEF offered, charged, Last
  <2>7. [offered EXCEPT ![Installments] = Last(charged)]
          = [charged EXCEPT ![Installments] = Last(charged)]
    BY <2>5, <2>6
  <2> QED
    BY <2>2, <2>3, <2>4, <2>7
<1> QED
  BY <1>4 DEF OfferedOn, ChargedOn

(* The two schedules of any terms are the same. *)
LEMMA SameOnTerms ==
  ASSUME NEW terms \in Terms
  PROVE  OfferedSchedule(terms) = ChargedSchedule(terms)
<1>1. Lent(terms)
  BY CreditAssumption DEF Lent
<1>2. /\ Den(terms.rate) \in Nat \ {0}
      /\ CuotaBase(terms) \in Amounts(Den(terms.rate))
      /\ \A i \in Numbers :
           Interest(terms, Saldos(terms)[i - 1]) \in Amounts(Den(terms.rate))
  BY <1>1, DenNatural, BaseUnits, ItemUnits
<1> QED
  BY <1>2, SameSchedule DEF OfferedSchedule, ChargedSchedule

(* A disbursed loan is charged what the offer its signed contract named had   *)
(* quoted, instalment by instalment and in total, for any number of offers,   *)
(* terms and instalments.                                                     *)
THEOREM OfferIsCharged == Spec => []OfferedIsCharged
<1>1. ASSUME Inv PROVE OfferedIsCharged
  <2>1. loan.offer # 0 => offers[loan.offer].status = "ACCEPTED"
    BY <1>1 DEF Inv, Accepted
  <2>2. ASSUME loan.disbursed
        PROVE  /\ loan.cuotas = offers[loan.offer].quote.schedule
               /\ SumOf(loan.cuotas, "gross") = offers[loan.offer].quote.total_payable
    <3>1. /\ loan.cuotas = ChargedSchedule(offers[loan.offer].terms)
          /\ offers[loan.offer].quote = Quote(offers[loan.offer].terms)
      BY <1>1, <2>2 DEF Inv, ChargedOnItsTerms
    <3>2. offers[loan.offer] \in OfferSet
      BY <1>1, <2>2 DEF Inv, Accepted, ChargedOnItsTerms
    <3>3. loan.cuotas = OfferedSchedule(offers[loan.offer].terms)
      BY <3>1, <3>2, SameOnTerms DEF OfferSet
    <3> QED
      BY <3>1, <3>3 DEF Quote
  <2> QED
    BY <2>1, <2>2 DEF OfferedIsCharged
<1> QED
  BY <1>1, Invariance, PTL

(* The quotes of the case's offers add up. *)
LEMMA OfferedIsAddedUp ==
  ASSUME Inv PROVE ScheduleAddsUp
<1> SUFFICES ASSUME NEW v \in DOMAIN offers PROVE AddsUp(offers[v].quote, offers[v].terms)
  BY DEF ScheduleAddsUp
<1>1. v \in 1..Len(offers) /\ offers[v] \in OfferSet
  BY DEF Inv
<1>2. offers[v].quote = Quote(offers[v].terms) /\ offers[v].terms \in Terms
  BY <1>1 DEF Inv, QuotedOnItsTerms, OfferSet
<1>3. Lent(offers[v].terms)
  BY <1>2, CreditAssumption DEF Lent
<1> QED
  BY <1>2, <1>3, QuoteAddsUp

(* Every quote of the case adds up, for any terms above 0 and any number of   *)
(* instalments (offer-engine.service.ts, buildFrenchSchedule).                *)
THEOREM OffersAddUp == Spec => []ScheduleAddsUp
BY OfferedIsAddedUp, Invariance, PTL

(* The recursion that runs down the balance ends at nothing owed: the quota   *)
(* is the one that pays the loan in exactly that many instalments.            *)
THEOREM NothingIsLeftOwed ==
  ASSUME NEW terms, Lent(terms)
  PROVE  Saldos(terms)[Installments] = Cents(0)
<1> DEFINE den == Den(terms.rate)
           z == 0
<1>1. den \in Nat \ {0} /\ z \in Int /\ z * den = z
  BY DenNatural
<1>2. Cents(z) \in Amounts(den) /\ Units(Cents(z), den) = z * den
  <2> HIDE DEF den, z
  <2> QED BY <1>1, CentsUnits
<1>3. Installments \in 0..Installments
  BY InstallmentsAssumption
<1>4. /\ Balance(terms, Installments) \in Amounts(den)
      /\ Units(Balance(terms, Installments), den) = z
      /\ Saldos(terms)[Installments] = Balance(terms, Installments)
  BY <1>3, BalanceUnits, SaldosAreBalances, Telescopes
<1> HIDE DEF den, z
<1>5. Balance(terms, Installments) = Cents(z)
  BY <1>1, <1>2, <1>4, SameUnits
<1> QED
  BY <1>4, <1>5 DEF z

(* What collections assumes of an instalment (Cobranzas' CobranzasAssumption). *)
Collectable(item) ==
  /\ item.amortization \in Nat \ {0}
  /\ item.interest \in Nat /\ item.vat \in Nat /\ item.gross \in Nat
  /\ item.gross - (item.amortization + item.interest + item.vat) \in -1..1

(* What is worth at least nothing is not rounded below it. *)
LEMMA RoundsToNatural ==
  ASSUME NEW den \in Nat \ {0}, NEW u \in Nat, NEW r, Rounds(r, u, den)
  PROVE  r \in Nat
<1>1. r \in Int /\ den * r \in Int /\ 2 * (den * r) > -den
  BY DEF Rounds
<1>2. ASSUME r <= -1 PROVE FALSE
  <2>1. den * r <= -den
    BY <1>1, <1>2
  <2> QED BY <1>1, <2>1
<1> QED BY <1>1, <1>2

(* Interest and VAT are never negative. *)
LEMMA PartsAreNatural ==
  ASSUME NEW terms, Lent(terms), NEW k \in Numbers
  PROVE  InterestOf(terms, k) \in Nat /\ VatOf(terms, k) \in Nat
<1> DEFINE f == Factor(terms)
           t == Share(terms.rate, Installments)
           s == Share(terms.rate, k - 1)
           v == VatOf(terms, k)
           i == InterestOf(terms, k)
<1>1. k \in 1..Installments /\ k - 1 \in 0..Installments /\ Installments \in 0..Installments
  BY InstallmentsAssumption DEF Numbers
<1>2. f \in Nat /\ t \in Nat /\ s \in Nat /\ s <= t
  <2>1. f \in Nat
    <3>1. terms.rate.num * terms.amount \in Nat \ {0}
      BY PositiveProduct DEF Lent
    <3> QED BY <3>1 DEF Factor
  <2> QED BY <1>1, <2>1, Shares, SharesGrow
<1>3. i \in Nat
  <2>1. i = f * (t - s)
    BY DEF InterestOf
  <2> HIDE DEF f, t, s, i
  <2>2. t - s \in Nat
    BY <1>2
  <2> QED BY <1>2, <2>1, <2>2
<1>4. v \in Int /\ 100 * v = 21 * i
  <2>1. /\ Saldos(terms)[k - 1] \in Amounts(Den(terms.rate))
        /\ Units(Saldos(terms)[k - 1], Den(terms.rate)) = Owed(terms, k - 1)
    BY <1>1, SaldosAreBalances, BalanceUnits
  <2> QED
    BY <1>1, <2>1, DenNatural, VatUnits, InterestUnits, AmountParts
       DEF VatOf, InterestOf, VatPercent
<1> HIDE DEF v, i
<1>5. v \in Nat
  BY <1>3, <1>4
<1> QED BY <1>3, <1>5 DEF v, i

(* The instalments of an offer are what collections assumes. *)
LEMMA OfferedIsCollectable ==
  ASSUME NEW terms, Lent(terms), Amortises(terms), NEW k \in Numbers
  PROVE  Collectable(OfferedSchedule(terms)[k])
<1> DEFINE item == OfferedSchedule(terms)[k]
           den == Den(terms.rate)
<1>1. den \in Nat \ {0}
  BY DenNatural
<1>2. /\ item.amortization \in Int /\ item.interest \in Int /\ item.vat \in Int
      /\ item.gross \in Int
      /\ Rounds(item.interest, InterestOf(terms, k), den)
      /\ Rounds(item.vat, VatOf(terms, k), den)
  BY ItemParts
<1>3. item.amortization > 0
  BY EveryInstalmentAmortises
<1>4. item.gross - (item.amortization + item.interest + item.vat) \in -1..1
  BY GrossOfParts
<1> HIDE DEF item, den
<1>5. item.interest \in Nat /\ item.vat \in Nat
  BY <1>1, <1>2, PartsAreNatural, RoundsToNatural
<1>6. item.gross \in Nat
  BY <1>2, <1>3, <1>4, <1>5
<1> QED
  BY <1>2, <1>3, <1>4, <1>5, <1>6 DEF Collectable, item

(* A disbursed loan's instalments are what collections takes for granted:     *)
(* a positive capital, and a total within a cent of its parts (the rows that  *)
(* generarSchedule inserts and imputarPago reads).                            *)
LoanIsCollectable ==
  loan.disbursed /\ Amortises(offers[loan.offer].terms) =>
    \A k \in Numbers : Collectable(loan.cuotas[k])

(* Every disbursed loan is one collections can work on. *)
THEOREM LoansAreCollectable == Spec => []LoanIsCollectable
<1>1. ASSUME Inv, loan.disbursed, Amortises(offers[loan.offer].terms), NEW k \in Numbers
      PROVE  Collectable(loan.cuotas[k])
  <2> DEFINE terms == offers[loan.offer].terms
  <2>1. loan.cuotas = ChargedSchedule(terms) /\ offers[loan.offer] \in OfferSet
    BY <1>1 DEF Inv, Accepted, ChargedOnItsTerms
  <2>2. terms \in Terms
    BY <2>1 DEF OfferSet
  <2>3. Lent(terms)
    BY <2>2, CreditAssumption DEF Lent
  <2>4. loan.cuotas = OfferedSchedule(terms)
    BY <2>1, <2>2, SameOnTerms
  <2> QED
    BY <1>1, <2>3, <2>4, OfferedIsCollectable
<1>2. Inv => LoanIsCollectable
  BY <1>1 DEF LoanIsCollectable
<1> QED
  BY <1>2, Invariance, PTL

----------------------------------------------------------------------------
(* The score falls with what is worse of its numbers. *)

(* What the score reads of the latest month, and of the months before. *)
LatestNumbers ==
  [entidades_count : Nat, max_situacion : Nat, total_monto : Nat, max_dias_atraso : Nat,
   flags : SUBSET (HardFlags \union SoftFlags), avg_situacion : Nat, share_sit_2plus : Nat,
   share_sit_3plus : Nat, avg_dias : Nat, largest_share : Nat]

HistoricalNumbers ==
  [worst : Nat, months2plus : Nat, months3plus : Nat, sinceBad : Nat,
   debts : {<<>>} \union [1..3 -> Nat], down : Nat, up : Nat]

(* m says nothing better than l of the same debts. *)
WorseNumbers(l, m) ==
  /\ m.entidades_count = l.entidades_count
  /\ m.total_monto = l.total_monto
  /\ m.largest_share = l.largest_share
  /\ l.flags \subseteq m.flags
  /\ l.max_situacion <= m.max_situacion
  /\ l.max_dias_atraso <= m.max_dias_atraso
  /\ l.avg_situacion <= m.avg_situacion
  /\ l.share_sit_2plus <= m.share_sit_2plus
  /\ l.share_sit_3plus <= m.share_sit_3plus
  /\ l.avg_dias <= m.avg_dias

(* g says nothing better than h of the months before. *)
WorsePast(h, g) ==
  /\ h.worst <= g.worst
  /\ h.months2plus <= g.months2plus
  /\ h.months3plus <= g.months3plus
  /\ h.sinceBad < MonthsLooked => g.sinceBad <= h.sinceBad
  /\ g.down <= h.down
  /\ h.up <= g.up
  /\ h.debts = <<>> <=> g.debts = <<>>
  /\ h.debts # <<>> => /\ h.debts[1] <= g.debts[1]
                       /\ h.debts[2] = g.debts[2]
                       /\ h.debts[3] = g.debts[3]

(* A value kept within two bounds. *)
LEMMA ClampIs ==
  ASSUME NEW x \in Int, NEW low \in Int, NEW high \in Int, low <= high
  PROVE  Clamp(x, low, high) = IF x <= low THEN low ELSE IF x >= high THEN high ELSE x
<1> DEFINE y == IF x <= high THEN x ELSE high
           z == IF y <= low THEN low ELSE y
<1>1. Min({x, high}) = y
  <2>1. y \in {x, high} /\ y <= x /\ y <= high /\ {x, high} \subseteq Int
    OBVIOUS
  <2> HIDE DEF y
  <2> QED BY <2>1, MinIs
<1>2. y \in Int
  OBVIOUS
<1> HIDE DEF y
<1>3. Max({low, y}) = z
  <2>1. z \in {low, y} /\ low <= z /\ y <= z /\ {low, y} \subseteq Int
    BY <1>2
  <2> HIDE DEF z
  <2> QED BY <2>1, MaxIs
<1> QED
  BY <1>1, <1>3 DEF Clamp, y, z

(* The norms grow with what they measure. *)
LEMMA NormsGrow ==
  ASSUME NEW x \in Nat, NEW y \in Nat, x <= y
  PROVE  /\ NormSituation(x) \in Nat /\ NormSituation(y) \in Nat
         /\ NormSituation(x) <= NormSituation(y)
         /\ NormDays(x) \in Nat /\ NormDays(y) \in Nat /\ NormDays(x) <= NormDays(y)
<1>1. NormSituation(x) \in Nat /\ NormSituation(y) \in Nat /\ NormSituation(x) <= NormSituation(y)
  <2> DEFINE a == Clamp(x, Unit, 5 * Unit)
             b == Clamp(y, Unit, 5 * Unit)
  <2>1. a \in Int /\ b \in Int /\ 10000 <= a /\ a <= b
    BY ClampIs DEF Unit
  <2> HIDE DEF a, b
  <2>2. (a - 10000) \div 4 \in Nat /\ (b - 10000) \div 4 \in Nat
        /\ (a - 10000) \div 4 <= (b - 10000) \div 4
    BY <2>1
  <2> QED BY <2>2 DEF NormSituation, Unit, a, b
<1>2. NormDays(x) \in Nat /\ NormDays(y) \in Nat /\ NormDays(x) <= NormDays(y)
  <2> DEFINE a == Clamp(x, 0, 180 * Unit)
             b == Clamp(y, 0, 180 * Unit)
  <2>1. a \in Int /\ b \in Int /\ 0 <= a /\ a <= b
    BY ClampIs DEF Unit
  <2> HIDE DEF a, b
  <2>2. a \div 180 \in Nat /\ b \div 180 \in Nat /\ a \div 180 <= b \div 180
    BY <2>1
  <2> QED BY <2>2 DEF NormDays, a, b
<1> QED
  BY <1>1, <1>2

(* The parts of the risk grow with what is worse: the situation of the debts, *)
LEMMA ActualGrows ==
  ASSUME NEW l \in LatestNumbers, NEW m \in LatestNumbers, WorseNumbers(l, m)
  PROVE  RActual(l) \in Int /\ RActual(m) \in Int /\ RActual(l) <= RActual(m)
<1> DEFINE a == NormSituation(l.max_situacion * Unit)
           b == NormSituation(m.max_situacion * Unit)
           c == NormSituation(l.avg_situacion)
           d == NormSituation(m.avg_situacion)
<1>1. a \in Nat /\ b \in Nat /\ a <= b
  <2> DEFINE x == l.max_situacion * Unit
             y == m.max_situacion * Unit
  <2>1. x \in Nat /\ y \in Nat /\ x <= y
    BY DEF LatestNumbers, WorseNumbers, Unit
  <2> HIDE DEF x, y
  <2>2. NormSituation(x) \in Nat /\ NormSituation(y) \in Nat /\ NormSituation(x) <= NormSituation(y)
    BY <2>1, NormsGrow
  <2> QED BY <2>2 DEF x, y
<1>2. c \in Nat /\ d \in Nat /\ c <= d
  <2>1. l.avg_situacion \in Nat /\ m.avg_situacion \in Nat /\ l.avg_situacion <= m.avg_situacion
    BY DEF LatestNumbers, WorseNumbers
  <2> QED BY <2>1, NormsGrow
<1> DEFINE e == l.share_sit_2plus
           f == m.share_sit_2plus
           g == l.share_sit_3plus
           h == m.share_sit_3plus
<1>3. e \in Nat /\ f \in Nat /\ g \in Nat /\ h \in Nat /\ e <= f /\ g <= h
  BY DEF LatestNumbers, WorseNumbers
<1>4. RActual(l) = (45 * a + 35 * c + 10 * e + 10 * g) \div 100
      /\ RActual(m) = (45 * b + 35 * d + 10 * f + 10 * h) \div 100
  BY DEF RActual
<1> HIDE DEF a, b, c, d, e, f, g, h
<1> QED BY <1>1, <1>2, <1>3, <1>4

(* the days they are late, *)
LEMMA MoraGrows ==
  ASSUME NEW l \in LatestNumbers, NEW m \in LatestNumbers, WorseNumbers(l, m)
  PROVE  RMora(l) \in Int /\ RMora(m) \in Int /\ RMora(l) <= RMora(m)
<1> DEFINE a == NormDays(l.max_dias_atraso * Unit)
           b == NormDays(m.max_dias_atraso * Unit)
           c == NormDays(l.avg_dias)
           d == NormDays(m.avg_dias)
<1>1. a \in Nat /\ b \in Nat /\ a <= b
  <2> DEFINE x == l.max_dias_atraso * Unit
             y == m.max_dias_atraso * Unit
  <2>1. x \in Nat /\ y \in Nat /\ x <= y
    BY DEF LatestNumbers, WorseNumbers, Unit
  <2> HIDE DEF x, y
  <2>2. NormDays(x) \in Nat /\ NormDays(y) \in Nat /\ NormDays(x) <= NormDays(y)
    BY <2>1, NormsGrow
  <2> QED BY <2>2 DEF x, y
<1>2. c \in Nat /\ d \in Nat /\ c <= d
  <2>1. l.avg_dias \in Nat /\ m.avg_dias \in Nat /\ l.avg_dias <= m.avg_dias
    BY DEF LatestNumbers, WorseNumbers
  <2> QED BY <2>1, NormsGrow
<1>3. RMora(l) = (6 * a + 4 * c) \div 10 /\ RMora(m) = (6 * b + 4 * d) \div 10
  BY DEF RMora
<1> HIDE DEF a, b, c, d
<1> QED BY <1>1, <1>2, <1>3

(* the flags on them, *)
LEMMA FlagsGrow ==
  ASSUME NEW l \in LatestNumbers, NEW m \in LatestNumbers, WorseNumbers(l, m)
  PROVE  RFlags(l) \in Int /\ RFlags(m) \in Int /\ RFlags(l) <= RFlags(m)
<1> DEFINE P(fs) == {0} \union {FlagPoints(f) : f \in fs \intersect SoftFlags}
           Q == {0, 7500, 4500, 1500}
<1>1. IsFiniteSet(Q)
  <2> DEFINE A == {0}
             B == A \union {7500}
             C == B \union {4500}
             D == C \union {1500}
  <2>1. Q = D
    OBVIOUS
  <2>2. IsFiniteSet(A)
    BY FS_Singleton
  <2>3. IsFiniteSet(B)
    <3> HIDE DEF A
    <3> QED BY <2>2, FS_AddElement
  <2>4. IsFiniteSet(C)
    <3> HIDE DEF B
    <3> QED BY <2>3, FS_AddElement
  <2>5. IsFiniteSet(D)
    <3> HIDE DEF C
    <3> QED BY <2>4, FS_AddElement
  <2> QED BY <2>1, <2>5
<1>2. \A fs : P(fs) \subseteq Q
  BY DEF FlagPoints, SoftFlags
<1>3. l.flags \subseteq m.flags
  BY DEF WorseNumbers
<1> DEFINE S == P(l.flags)
           T == P(m.flags)
<1>4. S \in SUBSET Q /\ T \in SUBSET Q /\ S # {} /\ S \subseteq T
  BY <1>2, <1>3
<1>5. RFlags(l) = Max(S) /\ RFlags(m) = Max(T)
  BY DEF RFlags
<1>6. Q \subseteq Int
  OBVIOUS
<1> HIDE DEF S, T, Q
<1>7. IsFiniteSet(S) /\ IsFiniteSet(T)
  BY <1>1, <1>4, FS_Subset
<1>8. S \subseteq Int /\ T \subseteq Int /\ \A x \in S : \E y \in T : x <= y
  BY <1>4, <1>6
<1>9. Max(S) \in Int /\ Max(T) \in Int /\ Max(S) <= Max(T)
  BY <1>4, <1>7, <1>8, MaxOrder
<1> QED BY <1>5, <1>9

(* and the months before; *)
LEMMA HistoryGrows ==
  ASSUME NEW h \in HistoricalNumbers, NEW g \in HistoricalNumbers, WorsePast(h, g)
  PROVE  RHistory(h) \in Int /\ RHistory(g) \in Int /\ RHistory(h) <= RHistory(g)
<1> DEFINE a == NormSituation(h.worst * Unit)
           b == NormSituation(g.worst * Unit)
           c == h.months2plus + h.months3plus
           d == g.months2plus + g.months3plus
           s == Min({h.sinceBad, MonthsLooked})
           t == Min({g.sinceBad, MonthsLooked})
<1>1. a \in Nat /\ b \in Nat /\ a <= b
  <2> DEFINE x == h.worst * Unit
             y == g.worst * Unit
  <2>1. x \in Nat /\ y \in Nat /\ x <= y
    BY DEF HistoricalNumbers, WorsePast, Unit
  <2> HIDE DEF x, y
  <2>2. NormSituation(x) \in Nat /\ NormSituation(y) \in Nat /\ NormSituation(x) <= NormSituation(y)
    BY <2>1, NormsGrow
  <2> QED BY <2>2 DEF x, y
<1>2. c \in Nat /\ d \in Nat /\ c <= d
  BY DEF HistoricalNumbers, WorsePast
<1>3. s \in Nat /\ t \in Nat /\ t <= s
  <2> DEFINE x == h.sinceBad
             y == g.sinceBad
  <2>1. x \in Nat /\ y \in Nat /\ (x < 24 => y <= x)
    BY DEF HistoricalNumbers, WorsePast, MonthsLooked
  <2>2. \A z \in Nat : Min({z, MonthsLooked}) = IF z <= 24 THEN z ELSE 24
    <3> SUFFICES ASSUME NEW z \in Nat
                 PROVE Min({z, MonthsLooked}) = IF z <= 24 THEN z ELSE 24
      OBVIOUS
    <3> DEFINE w == IF z <= 24 THEN z ELSE 24
    <3>1. w \in {z, 24} /\ w <= z /\ w <= 24 /\ {z, 24} \subseteq Int
      OBVIOUS
    <3> HIDE DEF w
    <3>2. Min({z, 24}) = w
      BY <3>1, MinIs
    <3> QED BY <3>2 DEF w, MonthsLooked
  <2> HIDE DEF x, y
  <2>3. Min({x, MonthsLooked}) = (IF x <= 24 THEN x ELSE 24)
        /\ Min({y, MonthsLooked}) = (IF y <= 24 THEN y ELSE 24)
    BY <2>1, <2>2
  <2> DEFINE sx == Min({x, MonthsLooked})
             sy == Min({y, MonthsLooked})
  <2>4. sx = (IF x <= 24 THEN x ELSE 24) /\ sy = (IF y <= 24 THEN y ELSE 24)
    BY <2>3
  <2> HIDE DEF sx, sy
  <2>5. sx \in Nat /\ sy \in Nat /\ sy <= sx
    BY <2>1, <2>4
  <2> QED BY <2>5 DEF sx, sy, x, y
<1>4. /\ RHistory(h) = (30 * a + (25 * c * 10000) \div 24 + (20 * (24 - s) * 10000) \div 24) \div 100
      /\ RHistory(g) = (30 * b + (25 * d * 10000) \div 24 + (20 * (24 - t) * 10000) \div 24) \div 100
  BY DEF RHistory, MonthsLooked, Unit
<1> HIDE DEF a, b, c, d, s, t
<1>5. /\ (25 * c * 10000) \div 24 \in Int /\ (25 * d * 10000) \div 24 \in Int
      /\ (25 * c * 10000) \div 24 <= (25 * d * 10000) \div 24
  BY <1>2
<1>6. /\ (20 * (24 - s) * 10000) \div 24 \in Int /\ (20 * (24 - t) * 10000) \div 24 \in Int
      /\ (20 * (24 - s) * 10000) \div 24 <= (20 * (24 - t) * 10000) \div 24
  BY <1>3
<1> QED
  <2> DEFINE u == (25 * c * 10000) \div 24
             v == (25 * d * 10000) \div 24
             x == (20 * (24 - s) * 10000) \div 24
             y == (20 * (24 - t) * 10000) \div 24
  <2>1. u \in Int /\ v \in Int /\ u <= v /\ x \in Int /\ y \in Int /\ x <= y
    BY <1>5, <1>6
  <2>2. RHistory(h) = (30 * a + u + x) \div 100 /\ RHistory(g) = (30 * b + v + y) \div 100
    BY <1>4
  <2> HIDE DEF u, v, x, y
  <2> QED BY <1>1, <2>1, <2>2

(* how much is owed to how many is not worse, nor better. *)
LEMMA StructureSame ==
  ASSUME NEW l \in LatestNumbers, NEW m \in LatestNumbers, WorseNumbers(l, m)
  PROVE  /\ RStructure(l) \in Int /\ RStructure(m) = RStructure(l)
         /\ NormDebtLoad(l.total_monto) \in Int
         /\ NormDebtLoad(m.total_monto) = NormDebtLoad(l.total_monto)
<1>1. /\ l.entidades_count \in Nat /\ l.largest_share \in Nat /\ l.total_monto \in Nat
      /\ m.entidades_count = l.entidades_count /\ m.largest_share = l.largest_share
      /\ m.total_monto = l.total_monto
  BY DEF LatestNumbers, WorseNumbers
<1>2. NormEntities(l.entidades_count) \in Int
  <2> DEFINE n == l.entidades_count
             c == Clamp(n, 0, 8)
  <2>1. c \in Int
    BY <1>1, ClampIs
  <2> HIDE DEF c
  <2>2. (c * 10000) \div 8 \in Int
    BY <2>1
  <2> QED BY <2>2 DEF NormEntities, Unit, c
<1>3. RStructure(l) \in Int
  <2> DEFINE n == NormEntities(l.entidades_count)
             s == l.largest_share
  <2>1. n \in Int /\ s \in Int
    BY <1>1, <1>2
  <2>2. RStructure(l) = (6 * n + 4 * s) \div 10
    BY DEF RStructure
  <2> HIDE DEF n, s
  <2> QED BY <2>1, <2>2
<1>4. NormDebtLoad(l.total_monto) \in Int
  <2> DEFINE n == l.total_monto
  <2>1. n \in Nat
    BY <1>1
  <2> HIDE DEF n
  <2>2. NormDebtLoad(n) \in Int
    <3>1. CASE n <= MinDebt \/ n >= MaxDebt
      BY <2>1, <3>1 DEF NormDebtLoad, Unit
    <3>2. CASE ~ (n <= MinDebt) /\ ~ (n >= MaxDebt)
      <4>1. n \in MinDebt..MaxDebt
        BY <2>1, <3>2, DebtCurveAssumption
      <4> DEFINE v == DebtCurve[n]
                 U == 0..Unit
      <4>2. DebtCurve \in [MinDebt..MaxDebt -> U]
        BY DebtCurveAssumption
      <4>3. U \subseteq Int
        BY DEF Unit
      <4>4. NormDebtLoad(n) = v
        BY <3>2 DEF NormDebtLoad
      <4> HIDE DEF U
      <4>5. v \in U
        BY <4>1, <4>2
      <4> HIDE DEF v
      <4> QED BY <4>3, <4>4, <4>5
    <3> QED BY <3>1, <3>2
  <2> QED BY <2>2 DEF n
<1> QED
  BY <1>1, <1>3, <1>4 DEF RStructure

(* So the total risk grows. *)
LEMMA TotalGrows ==
  ASSUME NEW l \in LatestNumbers, NEW m \in LatestNumbers, WorseNumbers(l, m),
         NEW h \in HistoricalNumbers, NEW g \in HistoricalNumbers, WorsePast(h, g)
  PROVE  RTotal(l, h) \in Int /\ RTotal(m, g) \in Int /\ RTotal(l, h) <= RTotal(m, g)
<1> DEFINE a1 == RActual(l)
           a2 == RActual(m)
           b1 == RMora(l)
           b2 == RMora(m)
           c1 == RFlags(l)
           c2 == RFlags(m)
           d1 == RHistory(h)
           d2 == RHistory(g)
           e == RStructure(l)
           f == NormDebtLoad(l.total_monto)
<1>1. a1 \in Int /\ a2 \in Int /\ a1 <= a2
  BY ActualGrows
<1>2. b1 \in Int /\ b2 \in Int /\ b1 <= b2
  BY MoraGrows
<1>3. c1 \in Int /\ c2 \in Int /\ c1 <= c2
  BY FlagsGrow
<1>4. d1 \in Int /\ d2 \in Int /\ d1 <= d2
  BY HistoryGrows
<1>5. e \in Int /\ f \in Int /\ RStructure(m) = e /\ NormDebtLoad(m.total_monto) = f
  BY StructureSame
<1>6. /\ RTotal(l, h) = 250 * a1 + 150 * b1 + 120 * c1 + 200 * d1 + 95 * e + 185 * f
      /\ RTotal(m, g) = 250 * a2 + 150 * b2 + 120 * c2 + 200 * d2 + 95 * e + 185 * f
  BY <1>5 DEF RTotal
<1> HIDE DEF a1, a2, b1, b2, c1, c2, d1, d2, e, f
<1> QED BY <1>1, <1>2, <1>3, <1>4, <1>5, <1>6

(* The first of three steps that is reached. *)
LEMMA LeastOfThree ==
  ASSUME NEW S \in SUBSET (1..3)
  PROVE  /\ 1 \in S => Min(S) = 1
         /\ 1 \notin S /\ 2 \in S => Min(S) = 2
         /\ 1 \notin S /\ 2 \notin S /\ 3 \in S => Min(S) = 3
<1>1. S \subseteq Int /\ \A x \in S : x = 1 \/ x = 2 \/ x = 3
  OBVIOUS
<1>2. ASSUME 1 \in S PROVE Min(S) = 1
  <2>1. \A y \in S : 1 <= y
    BY <1>1
  <2> QED BY <1>1, <1>2, <2>1, MinIs
<1>3. ASSUME 1 \notin S, 2 \in S PROVE Min(S) = 2
  <2>1. \A y \in S : 2 <= y
    BY <1>1, <1>3
  <2> QED BY <1>1, <1>3, <2>1, MinIs
<1>4. ASSUME 1 \notin S, 2 \notin S, 3 \in S PROVE Min(S) = 3
  <2>1. \A y \in S : 3 <= y
    BY <1>1, <1>4
  <2> QED BY <1>1, <1>4, <2>1, MinIs
<1> QED BY <1>2, <1>3, <1>4

(* The points of the two changes the score looks at. *)
SixMonths(c, d) ==
  ChangePoints(c, d, <<<<25, 15>>, <<10, 10>>, <<5, 5>>>>,
               <<<<25, -15>>, <<10, -10>>, <<5, -5>>>>, -15)

ThreeMonths(c, d) ==
  ChangePoints(c, d, <<<<15, 5>>, <<5, 3>>>>, <<<<15, -8>>, <<5, -4>>>>, -8)

(* The points for the change of the debt in six months, *)
LEMMA SixMonthsIs ==
  ASSUME NEW c \in Nat, NEW d \in Nat
  PROVE  SixMonths(c, d) =
           IF d = 0 THEN (IF c >= 5 THEN -15 ELSE 0)
           ELSE IF (c - d) * 100 <= -25 * d THEN 15
           ELSE IF (c - d) * 100 <= -10 * d THEN 10
           ELSE IF (c - d) * 100 <= -5 * d THEN 5
           ELSE IF (c - d) * 100 >= 25 * d THEN -15
           ELSE IF (c - d) * 100 >= 10 * d THEN -10
           ELSE IF (c - d) * 100 >= 5 * d THEN -5
           ELSE 0
<1> DEFINE F == <<<<25, 15>>, <<10, 10>>, <<5, 5>>>>
           R == <<<<25, -15>>, <<10, -10>>, <<5, -5>>>>
           x == (c - d) * 100
           fell == {j \in DOMAIN F : x <= -F[j][1] * d}
           rose == {j \in DOMAIN R : x >= R[j][1] * d}
<1>1. x \in Int
  OBVIOUS
<1>2. /\ DOMAIN F = 1..3 /\ F[1][1] = 25 /\ F[2][1] = 10 /\ F[3][1] = 5
      /\ F[1][2] = 15 /\ F[2][2] = 10 /\ F[3][2] = 5
      /\ DOMAIN R = 1..3 /\ R[1][1] = 25 /\ R[2][1] = 10 /\ R[3][1] = 5
      /\ R[1][2] = -15 /\ R[2][2] = -10 /\ R[3][2] = -5
  OBVIOUS
<1>3. SixMonths(c, d) = IF d = 0 THEN (IF c >= 5 THEN -15 ELSE 0)
        ELSE IF fell # {} THEN F[Min(fell)][2]
        ELSE IF rose # {} THEN R[Min(rose)][2]
        ELSE 0
  BY DEF SixMonths, ChangePoints, RelevantDebt
<1> HIDE DEF F, R, x
<1>4. /\ fell \in SUBSET (1..3) /\ rose \in SUBSET (1..3)
      /\ 1 \in fell <=> x <= -25 * d
      /\ 2 \in fell <=> x <= -10 * d
      /\ 3 \in fell <=> x <= -5 * d
      /\ 1 \in rose <=> x >= 25 * d
      /\ 2 \in rose <=> x >= 10 * d
      /\ 3 \in rose <=> x >= 5 * d
  BY <1>2
<1> HIDE DEF fell, rose
<1>5. /\ 1 \in fell => Min(fell) = 1
      /\ 1 \notin fell /\ 2 \in fell => Min(fell) = 2
      /\ 1 \notin fell /\ 2 \notin fell /\ 3 \in fell => Min(fell) = 3
  BY <1>4, LeastOfThree
<1>6. /\ 1 \in rose => Min(rose) = 1
      /\ 1 \notin rose /\ 2 \in rose => Min(rose) = 2
      /\ 1 \notin rose /\ 2 \notin rose /\ 3 \in rose => Min(rose) = 3
  BY <1>4, LeastOfThree
<1>7. /\ fell = {} <=> 1 \notin fell /\ 2 \notin fell /\ 3 \notin fell
      /\ rose = {} <=> 1 \notin rose /\ 2 \notin rose /\ 3 \notin rose
  <2>1. \A S \in SUBSET (1..3) : S = {} <=> 1 \notin S /\ 2 \notin S /\ 3 \notin S
    OBVIOUS
  <2> QED BY <1>4, <2>1
<1>8. SixMonths(c, d) =
           IF d = 0 THEN (IF c >= 5 THEN -15 ELSE 0)
           ELSE IF x <= -25 * d THEN 15
           ELSE IF x <= -10 * d THEN 10
           ELSE IF x <= -5 * d THEN 5
           ELSE IF x >= 25 * d THEN -15
           ELSE IF x >= 10 * d THEN -10
           ELSE IF x >= 5 * d THEN -5
           ELSE 0
  <2> DEFINE f == F[Min(fell)][2]
             r == R[Min(rose)][2]
  <2>1. /\ x <= -25 * d => f = 15
        /\ ~ (x <= -25 * d) /\ x <= -10 * d => f = 10
        /\ ~ (x <= -25 * d) /\ ~ (x <= -10 * d) /\ x <= -5 * d => f = 5
    BY <1>2, <1>4, <1>5
  <2>2. /\ x >= 25 * d => r = -15
        /\ ~ (x >= 25 * d) /\ x >= 10 * d => r = -10
        /\ ~ (x >= 25 * d) /\ ~ (x >= 10 * d) /\ x >= 5 * d => r = -5
    BY <1>2, <1>4, <1>6
  <2>3. /\ fell = {} <=> ~ (x <= -25 * d) /\ ~ (x <= -10 * d) /\ ~ (x <= -5 * d)
        /\ rose = {} <=> ~ (x >= 25 * d) /\ ~ (x >= 10 * d) /\ ~ (x >= 5 * d)
    BY <1>4, <1>7
  <2>4. SixMonths(c, d) = IF d = 0 THEN (IF c >= 5 THEN -15 ELSE 0)
          ELSE IF fell # {} THEN f ELSE IF rose # {} THEN r ELSE 0
    BY <1>3
  <2> HIDE DEF f, r
  <2> QED BY <2>1, <2>2, <2>3, <2>4
<1> QED BY <1>8 DEF x

(* and in three. *)
LEMMA ThreeMonthsIs ==
  ASSUME NEW c \in Nat, NEW d \in Nat
  PROVE  ThreeMonths(c, d) =
           IF d = 0 THEN (IF c >= 5 THEN -8 ELSE 0)
           ELSE IF (c - d) * 100 <= -15 * d THEN 5
           ELSE IF (c - d) * 100 <= -5 * d THEN 3
           ELSE IF (c - d) * 100 >= 15 * d THEN -8
           ELSE IF (c - d) * 100 >= 5 * d THEN -4
           ELSE 0
<1> DEFINE F == <<<<15, 5>>, <<5, 3>>>>
           R == <<<<15, -8>>, <<5, -4>>>>
           x == (c - d) * 100
           fell == {j \in DOMAIN F : x <= -F[j][1] * d}
           rose == {j \in DOMAIN R : x >= R[j][1] * d}
<1>1. x \in Int
  OBVIOUS
<1>2. /\ DOMAIN F = 1..2 /\ F[1][1] = 15 /\ F[2][1] = 5 /\ F[1][2] = 5 /\ F[2][2] = 3
      /\ DOMAIN R = 1..2 /\ R[1][1] = 15 /\ R[2][1] = 5 /\ R[1][2] = -8 /\ R[2][2] = -4
  OBVIOUS
<1>3. ThreeMonths(c, d) = IF d = 0 THEN (IF c >= 5 THEN -8 ELSE 0)
        ELSE IF fell # {} THEN F[Min(fell)][2]
        ELSE IF rose # {} THEN R[Min(rose)][2]
        ELSE 0
  BY DEF ThreeMonths, ChangePoints, RelevantDebt
<1> HIDE DEF F, R, x
<1>4. /\ fell \in SUBSET (1..2) /\ rose \in SUBSET (1..2)
      /\ 1 \in fell <=> x <= -15 * d
      /\ 2 \in fell <=> x <= -5 * d
      /\ 1 \in rose <=> x >= 15 * d
      /\ 2 \in rose <=> x >= 5 * d
  BY <1>2
<1> HIDE DEF fell, rose
<1>5. /\ 1 \in fell => Min(fell) = 1
      /\ 1 \notin fell /\ 2 \in fell => Min(fell) = 2
  <2>1. fell \in SUBSET (1..3)
    BY <1>4
  <2> QED BY <2>1, LeastOfThree
<1>6. /\ 1 \in rose => Min(rose) = 1
      /\ 1 \notin rose /\ 2 \in rose => Min(rose) = 2
  <2>1. rose \in SUBSET (1..3)
    BY <1>4
  <2> QED BY <2>1, LeastOfThree
<1>7. /\ fell = {} <=> 1 \notin fell /\ 2 \notin fell
      /\ rose = {} <=> 1 \notin rose /\ 2 \notin rose
  <2>1. \A S \in SUBSET (1..2) : S = {} <=> 1 \notin S /\ 2 \notin S
    OBVIOUS
  <2> QED BY <1>4, <2>1
<1>8. ThreeMonths(c, d) =
           IF d = 0 THEN (IF c >= 5 THEN -8 ELSE 0)
           ELSE IF x <= -15 * d THEN 5
           ELSE IF x <= -5 * d THEN 3
           ELSE IF x >= 15 * d THEN -8
           ELSE IF x >= 5 * d THEN -4
           ELSE 0
  <2> DEFINE f == F[Min(fell)][2]
             r == R[Min(rose)][2]
  <2>1. /\ x <= -15 * d => f = 5
        /\ ~ (x <= -15 * d) /\ x <= -5 * d => f = 3
    BY <1>2, <1>4, <1>5
  <2>2. /\ x >= 15 * d => r = -8
        /\ ~ (x >= 15 * d) /\ x >= 5 * d => r = -4
    BY <1>2, <1>4, <1>6
  <2>3. /\ fell = {} <=> ~ (x <= -15 * d) /\ ~ (x <= -5 * d)
        /\ rose = {} <=> ~ (x >= 15 * d) /\ ~ (x >= 5 * d)
    BY <1>4, <1>7
  <2>4. ThreeMonths(c, d) = IF d = 0 THEN (IF c >= 5 THEN -8 ELSE 0)
          ELSE IF fell # {} THEN f ELSE IF rose # {} THEN r ELSE 0
    BY <1>3
  <2> HIDE DEF f, r
  <2> QED BY <2>1, <2>2, <2>3, <2>4
<1> QED BY <1>8 DEF x

(* A debt that has grown more earns no more points. *)
LEMMA PointsFall ==
  ASSUME NEW c \in Nat, NEW e \in Nat, c <= e, NEW d \in Nat
  PROVE  /\ SixMonths(c, d) \in Int /\ SixMonths(e, d) \in Int
         /\ SixMonths(e, d) <= SixMonths(c, d)
         /\ ThreeMonths(c, d) \in Int /\ ThreeMonths(e, d) \in Int
         /\ ThreeMonths(e, d) <= ThreeMonths(c, d)
<1> DEFINE x == (c - d) * 100
           y == (e - d) * 100
<1>1. x \in Int /\ y \in Int /\ x <= y
  OBVIOUS
<1>2. /\ SixMonths(c, d) \in Int /\ SixMonths(e, d) \in Int
      /\ SixMonths(e, d) <= SixMonths(c, d)
  <2> DEFINE p == SixMonths(c, d)
             q == SixMonths(e, d)
  <2>1. p = IF d = 0 THEN (IF c >= 5 THEN -15 ELSE 0)
           ELSE IF x <= -25 * d THEN 15
           ELSE IF x <= -10 * d THEN 10
           ELSE IF x <= -5 * d THEN 5
           ELSE IF x >= 25 * d THEN -15
           ELSE IF x >= 10 * d THEN -10
           ELSE IF x >= 5 * d THEN -5
           ELSE 0
    BY SixMonthsIs
  <2>2. q = IF d = 0 THEN (IF e >= 5 THEN -15 ELSE 0)
           ELSE IF y <= -25 * d THEN 15
           ELSE IF y <= -10 * d THEN 10
           ELSE IF y <= -5 * d THEN 5
           ELSE IF y >= 25 * d THEN -15
           ELSE IF y >= 10 * d THEN -10
           ELSE IF y >= 5 * d THEN -5
           ELSE 0
    BY SixMonthsIs
  <2> HIDE DEF p, q, x, y
  <2>3. p \in Int /\ q \in Int /\ q <= p
    BY <1>1, <2>1, <2>2
  <2> QED BY <2>3 DEF p, q
<1>3. /\ ThreeMonths(c, d) \in Int /\ ThreeMonths(e, d) \in Int
      /\ ThreeMonths(e, d) <= ThreeMonths(c, d)
  <2> DEFINE p == ThreeMonths(c, d)
             q == ThreeMonths(e, d)
  <2>1. p = IF d = 0 THEN (IF c >= 5 THEN -8 ELSE 0)
           ELSE IF x <= -15 * d THEN 5
           ELSE IF x <= -5 * d THEN 3
           ELSE IF x >= 15 * d THEN -8
           ELSE IF x >= 5 * d THEN -4
           ELSE 0
    BY ThreeMonthsIs
  <2>2. q = IF d = 0 THEN (IF e >= 5 THEN -8 ELSE 0)
           ELSE IF y <= -15 * d THEN 5
           ELSE IF y <= -5 * d THEN 3
           ELSE IF y >= 15 * d THEN -8
           ELSE IF y >= 5 * d THEN -4
           ELSE 0
    BY ThreeMonthsIs
  <2> HIDE DEF p, q, x, y
  <2>3. p \in Int /\ q \in Int /\ q <= p
    BY <1>1, <2>1, <2>2
  <2> QED BY <2>3 DEF p, q
<1> QED BY <1>2, <1>3

Consistency(h) == IF h.down >= 5 THEN 4 ELSE IF h.down >= 4 THEN 2
                  ELSE IF h.up >= 5 THEN -4 ELSE IF h.up >= 4 THEN -2 ELSE 0

(* The adjustment for the trend is no larger when the debt has grown. *)
LEMMA TrendFalls ==
  ASSUME NEW h \in HistoricalNumbers, NEW g \in HistoricalNumbers, WorsePast(h, g)

  PROVE  /\ TrendAdjustmentPoints(h) \in Int /\ TrendAdjustmentPoints(g) \in Int
         /\ TrendAdjustmentPoints(g) <= TrendAdjustmentPoints(h)
<1> DEFINE s == SixMonths(h.debts[1], h.debts[3])
           t == ThreeMonths(h.debts[1], h.debts[2])
           a == Consistency(h)
           u == SixMonths(g.debts[1], g.debts[3])
           v == ThreeMonths(g.debts[1], g.debts[2])
           b == Consistency(g)
<1>1. /\ TrendAdjustmentPoints(h) = IF h.debts = <<>> THEN 0 ELSE Clamp(s + t + a, -20, 20)
      /\ TrendAdjustmentPoints(g) = IF g.debts = <<>> THEN 0 ELSE Clamp(u + v + b, -20, 20)
  BY DEF TrendAdjustmentPoints, SixMonths, ThreeMonths, Consistency
<1>2. a \in Int /\ b \in Int /\ b <= a
  <2>1. /\ h.down \in Nat /\ h.up \in Nat /\ g.down \in Nat /\ g.up \in Nat
        /\ g.down <= h.down /\ h.up <= g.up
    BY DEF HistoricalNumbers, WorsePast
  <2> DEFINE hd == h.down
             hu == h.up
             gd == g.down
             gu == g.up
  <2>2. /\ a = IF hd >= 5 THEN 4 ELSE IF hd >= 4 THEN 2 ELSE IF hu >= 5 THEN -4
               ELSE IF hu >= 4 THEN -2 ELSE 0
        /\ b = IF gd >= 5 THEN 4 ELSE IF gd >= 4 THEN 2 ELSE IF gu >= 5 THEN -4
               ELSE IF gu >= 4 THEN -2 ELSE 0
    BY <2>1 DEF Consistency
  <2>3. /\ hd \in Nat /\ hu \in Nat /\ gd \in Nat /\ gu \in Nat /\ gd <= hd /\ hu <= gu
    BY <2>1
  <2> HIDE DEF a, b, hd, hu, gd, gu
  <2> QED BY <2>2, <2>3
<1>3. h.debts = <<>> <=> g.debts = <<>>
  BY DEF WorsePast
<1>4. CASE h.debts = <<>>
  BY <1>1, <1>3, <1>4
<1>5. CASE h.debts # <<>>
  <2>1. /\ h.debts \in [1..3 -> Nat] /\ g.debts \in [1..3 -> Nat]
        /\ h.debts[1] <= g.debts[1] /\ h.debts[2] = g.debts[2] /\ h.debts[3] = g.debts[3]
    BY <1>3, <1>5 DEF WorsePast, HistoricalNumbers
  <2> DEFINE c == h.debts[1]
             e == g.debts[1]
             d3 == h.debts[2]
             d6 == h.debts[3]
  <2>2. c \in Nat /\ e \in Nat /\ c <= e /\ d3 \in Nat /\ d6 \in Nat
    BY <2>1
  <2>3. s = SixMonths(c, d6) /\ u = SixMonths(e, d6) /\ t = ThreeMonths(c, d3)
        /\ v = ThreeMonths(e, d3)
    BY <2>1
  <2> HIDE DEF c, e, d3, d6, s, t, u, v
  <2>4. s \in Int /\ u \in Int /\ u <= s
    BY <2>2, <2>3, PointsFall
  <2>5. t \in Int /\ v \in Int /\ v <= t
    BY <2>2, <2>3, PointsFall
  <2> DEFINE x == s + t + a
             y == u + v + b
  <2> HIDE DEF a, b
  <2>6. x \in Int /\ y \in Int /\ y <= x
    BY <1>2, <2>4, <2>5
  <2>7. TrendAdjustmentPoints(h) = Clamp(x, -20, 20)
        /\ TrendAdjustmentPoints(g) = Clamp(y, -20, 20)
    BY <1>1, <1>3, <1>5
  <2> HIDE DEF x, y
  <2>8. /\ Clamp(x, -20, 20) = IF x <= -20 THEN -20 ELSE IF x >= 20 THEN 20 ELSE x
        /\ Clamp(y, -20, 20) = IF y <= -20 THEN -20 ELSE IF y >= 20 THEN 20 ELSE y
    BY <2>6, ClampIs
  <2> QED BY <2>6, <2>7, <2>8
<1> QED BY <1>4, <1>5

(* The score of worse numbers is no better. *)
LEMMA ScoreFalls ==
  ASSUME NEW l \in LatestNumbers, NEW m \in LatestNumbers, WorseNumbers(l, m),
         NEW h \in HistoricalNumbers, NEW g \in HistoricalNumbers, WorsePast(h, g)
  PROVE  ComputeZcoreBcraV1(m, g) <= ComputeZcoreBcraV1(l, h)
<1> DEFINE r == RTotal(l, h)
           t == RTotal(m, g)
           a == TrendAdjustmentPoints(h)
           b == TrendAdjustmentPoints(g)
           x == (1000 * Unit - r + Unit \div 2) \div Unit
           y == (1000 * Unit - t + Unit \div 2) \div Unit
           p == Clamp(x + a, 0, 1000)
           q == Clamp(y + b, 0, 1000)
<1>1. r \in Int /\ t \in Int /\ r <= t
  BY TotalGrows
<1>2. a \in Int /\ b \in Int /\ b <= a
  BY TrendFalls
<1>3. x \in Int /\ y \in Int /\ y <= x
  <2> HIDE DEF r, t
  <2> QED BY <1>1 DEF Unit
<1>4. p \in 0..1000 /\ q \in 0..1000 /\ q <= p
  <2> DEFINE u == x + a
             v == y + b
  <2> HIDE DEF a, b, x, y
  <2>1. u \in Int /\ v \in Int /\ v <= u
    BY <1>2, <1>3
  <2> HIDE DEF u, v
  <2>2. /\ Clamp(u, 0, 1000) = IF u <= 0 THEN 0 ELSE IF u >= 1000 THEN 1000 ELSE u
        /\ Clamp(v, 0, 1000) = IF v <= 0 THEN 0 ELSE IF v >= 1000 THEN 1000 ELSE v
    BY <2>1, ClampIs
  <2>3. /\ Clamp(u, 0, 1000) \in 0..1000 /\ Clamp(v, 0, 1000) \in 0..1000
        /\ Clamp(v, 0, 1000) <= Clamp(u, 0, 1000)
    BY <2>1, <2>2
  <2> QED BY <2>3 DEF u, v
<1>5. HardReject(l) => HardReject(m)
  <2>1. l.max_situacion \in Nat /\ m.max_situacion \in Nat /\ l.max_situacion <= m.max_situacion
        /\ l.flags \subseteq m.flags
    BY DEF LatestNumbers, WorseNumbers
  <2> QED BY <2>1 DEF HardReject
<1>6. /\ ComputeZcoreBcraV1(l, h) = IF HardReject(l) THEN 0 ELSE p
      /\ ComputeZcoreBcraV1(m, g) = IF HardReject(m) THEN 0 ELSE q
  BY DEF ComputeZcoreBcraV1
<1> HIDE DEF p, q
<1> QED BY <1>4, <1>5, <1>6

----------------------------------------------------------------------------
(* Worse debts make worse numbers of the latest month. *)

(* A debt of the latest month. *)
Debt == [situacion : Nat, monto : Nat, dias : Nat, flags : SUBSET (HardFlags \union SoftFlags)]

(* fs are the debts of es, each in no better a state. *)
WorseDebts(es, fs) ==
  /\ Len(es) = Len(fs)
  /\ \A i \in DOMAIN es :
       /\ fs[i].monto = es[i].monto
       /\ es[i].situacion <= fs[i].situacion
       /\ es[i].dias <= fs[i].dias
       /\ es[i].flags \subseteq fs[i].flags

(* The largest of a function's values on D, at least 0. *)
Top(f, D) == Max({0} \union {f[i] : i \in D})

(* The largest of larger values. *)
LEMMA LargestOrder ==
  ASSUME NEW D, IsFiniteSet(D), NEW f, NEW g,
         \A i \in D : f[i] \in Nat /\ g[i] \in Nat /\ f[i] <= g[i]
  PROVE  Top(f, D) \in Nat /\ Top(g, D) \in Nat /\ Top(f, D) <= Top(g, D)
<1> DEFINE z == 0
           A == {f[i] : i \in D}
           B == {g[i] : i \in D}
           S == {z} \union A
           T == {z} \union B
<1>1. IsFiniteSet(A) /\ IsFiniteSet(B)
  BY ImageFinite
<1>2. IsFiniteSet(S) /\ IsFiniteSet(T)
  <2> HIDE DEF A, B, z
  <2>1. IsFiniteSet({z})
    BY FS_Singleton
  <2> QED BY <1>1, <2>1, FS_Union
<1>3. S \subseteq Nat /\ T \subseteq Nat /\ z \in S /\ z \in T /\ \A x \in S : \E y \in T : x <= y
  OBVIOUS
<1> HIDE DEF S, T
<1>4. S \subseteq Int /\ T \subseteq Int /\ S # {} /\ T # {}
  BY <1>3
<1>5. Max(S) \in Int /\ Max(T) \in Int /\ Max(S) <= Max(T)
  BY <1>2, <1>3, <1>4, MaxOrder
<1>6. Max(S) \in S /\ Max(T) \in T
  BY <1>2, <1>4, MaxOf
<1>7. Max(S) \in Nat /\ Max(T) \in Nat
  BY <1>3, <1>6
<1> QED BY <1>5, <1>7 DEF S, T, z, Top

(* The share of a larger part is larger. *)
LEMMA QuotientGrows ==
  ASSUME NEW a \in Nat, NEW b \in Nat, a <= b, NEW d \in Nat \ {0}
  PROVE  a \div d \in Nat /\ b \div d \in Nat /\ a \div d <= b \div d
<1> DEFINE q == a \div d
           r == a % d
           s == b \div d
           t == b % d
<1>1. q \in Int /\ r \in 0..(d - 1) /\ a = (d * q) + r
  BY Division
<1>2. s \in Int /\ t \in 0..(d - 1) /\ b = (d * s) + t
  BY Division
<1> HIDE DEF q, r, s, t
<1>3. q >= 0 /\ s >= 0
  <2>1. \A z \in Int : z <= -1 => d * z <= -d
    OBVIOUS
  <2> QED BY <1>1, <1>2, <2>1
<1>4. ASSUME s <= q - 1 PROVE FALSE
  <2>1. d * s <= d * (q - 1)
    BY <1>1, <1>2, <1>4
  <2>2. d * (q - 1) = d * q - d
    BY <1>1
  <2> DEFINE ds == d * s
             dq == d * q
  <2>3. ds \in Int /\ dq \in Int /\ ds <= dq - d
    BY <1>1, <1>2, <2>1, <2>2
  <2> HIDE DEF ds, dq
  <2>4. a = dq + r /\ b = ds + t
    BY <1>1, <1>2 DEF ds, dq
  <2> QED BY <1>1, <1>2, <2>3, <2>4
<1>5. q \in Nat /\ s \in Nat /\ q <= s
  BY <1>1, <1>2, <1>3, <1>4
<1> QED BY <1>5 DEF q, s

(* The share of a total that a larger part has. *)
LEMMA SharesOrder ==
  ASSUME NEW a \in Nat, NEW b \in Nat, a <= b, NEW total \in Nat
  PROVE  LET s == (a * Unit) \div Max({total, 1})
             t == (b * Unit) \div Max({total, 1})
         IN  s \in Nat /\ t \in Nat /\ s <= t
<1> DEFINE d == IF total >= 1 THEN total ELSE 1
           x == a * Unit
           y == b * Unit
<1>1. Max({total, 1}) = d
  <2>1. d \in {total, 1} /\ total <= d /\ 1 <= d /\ {total, 1} \subseteq Int
    OBVIOUS
  <2> HIDE DEF d
  <2> QED BY <2>1, MaxIs
<1>2. d \in Nat \ {0} /\ x \in Nat /\ y \in Nat /\ x <= y
  BY DEF Unit
<1> HIDE DEF d, x, y
<1>3. x \div d \in Nat /\ y \div d \in Nat /\ x \div d <= y \div d
  BY <1>2, QuotientGrows
<1> QED BY <1>1, <1>3 DEF x, y

(* What is added up and what is largest of two lists of debts. *)
LEMMA DebtsOrder ==
  ASSUME NEW es \in Seq(Debt), NEW fs \in Seq(Debt), WorseDebts(es, fs)
  PROVE  /\ SumOver(es, LAMBDA e : e.monto) \in Nat
         /\ SumOver(fs, LAMBDA e : e.monto) = SumOver(es, LAMBDA e : e.monto)
         /\ SumOver(es, LAMBDA e : e.situacion * e.monto) \in Nat
         /\ SumOver(fs, LAMBDA e : e.situacion * e.monto) \in Nat
         /\ SumOver(es, LAMBDA e : e.situacion * e.monto)
              <= SumOver(fs, LAMBDA e : e.situacion * e.monto)
         /\ SumOver(es, LAMBDA e : e.dias * e.monto) \in Nat
         /\ SumOver(fs, LAMBDA e : e.dias * e.monto) \in Nat
         /\ SumOver(es, LAMBDA e : e.dias * e.monto)
              <= SumOver(fs, LAMBDA e : e.dias * e.monto)
<1> DEFINE D == DOMAIN es
           M == [i \in D |-> es[i].monto]
           N == [i \in D |-> fs[i].monto]
           A == [i \in D |-> es[i].situacion * es[i].monto]
           B == [i \in D |-> fs[i].situacion * fs[i].monto]
           P == [i \in D |-> es[i].dias * es[i].monto]
           Q == [i \in D |-> fs[i].dias * fs[i].monto]
<1>1. DOMAIN fs = D /\ IsFiniteSet(D)
  BY SeqFinite DEF WorseDebts
<1>2. ASSUME NEW i \in D
      PROVE  /\ M[i] \in Nat /\ N[i] = M[i]
             /\ A[i] \in Nat /\ B[i] \in Nat /\ A[i] <= B[i]
             /\ P[i] \in Nat /\ Q[i] \in Nat /\ P[i] <= Q[i]
  <2> DEFINE s == es[i].situacion
             t == fs[i].situacion
             d == es[i].dias
             e == fs[i].dias
             m == es[i].monto
  <2>1. es[i] \in Debt /\ fs[i] \in Debt
    BY <1>1
  <2>2. s \in Nat /\ t \in Nat /\ s <= t /\ d \in Nat /\ e \in Nat /\ d <= e /\ m \in Nat
        /\ fs[i].monto = m
    BY <2>1 DEF WorseDebts, Debt
  <2>3. M[i] = m /\ N[i] = m /\ A[i] = s * m /\ B[i] = t * m /\ P[i] = d * m /\ Q[i] = e * m
    BY <2>2
  <2> HIDE DEF s, t, d, e, m, M, N, A, B, P, Q
  <2>4. s * m \in Nat /\ t * m \in Nat /\ s * m <= t * m
    BY <2>2, ProductGrows
  <2>5. d * m \in Nat /\ e * m \in Nat /\ d * m <= e * m
    BY <2>2, ProductGrows
  <2> QED BY <2>2, <2>3, <2>4, <2>5
<1>3. /\ SumOver(es, LAMBDA e : e.monto) = SumOn(M, D)
      /\ SumOver(es, LAMBDA e : e.situacion * e.monto) = SumOn(A, D)
      /\ SumOver(es, LAMBDA e : e.dias * e.monto) = SumOn(P, D)
  BY DEF SumOver
<1>4. /\ SumOver(fs, LAMBDA e : e.monto) = SumOn(N, D)
      /\ SumOver(fs, LAMBDA e : e.situacion * e.monto) = SumOn(B, D)
      /\ SumOver(fs, LAMBDA e : e.dias * e.monto) = SumOn(Q, D)
  BY <1>1 DEF SumOver
<1> HIDE DEF D, M, N, A, B, P, Q
<1>5. SumOn(M, D) \in Nat /\ SumOn(N, D) = SumOn(M, D)
  <2>1. \A i \in D : M[i] \in Nat
    BY <1>2
  <2>2. \A i \in D : N[i] \in Int /\ N[i] = M[i]
    BY <1>2
  <2> QED BY <1>1, <2>1, <2>2, SumNatural, SumCongruence
<1>6. SumOn(A, D) \in Nat /\ SumOn(B, D) \in Nat /\ SumOn(A, D) <= SumOn(B, D)
  BY <1>1, <1>2, SumOrder
<1>7. SumOn(P, D) \in Nat /\ SumOn(Q, D) \in Nat /\ SumOn(P, D) <= SumOn(Q, D)
  BY <1>1, <1>2, SumOrder
<1> QED BY <1>3, <1>4, <1>5, <1>6, <1>7

(* What is owed in a situation of at least 2, or of at least 3. *)
LEMMA BadDebtsOrder ==
  ASSUME NEW es \in Seq(Debt), NEW fs \in Seq(Debt), WorseDebts(es, fs)
  PROVE  /\ SumOver(es, LAMBDA e : IF e.situacion >= 2 THEN e.monto ELSE 0) \in Nat
         /\ SumOver(fs, LAMBDA e : IF e.situacion >= 2 THEN e.monto ELSE 0) \in Nat
         /\ SumOver(es, LAMBDA e : IF e.situacion >= 2 THEN e.monto ELSE 0)
              <= SumOver(fs, LAMBDA e : IF e.situacion >= 2 THEN e.monto ELSE 0)
         /\ SumOver(es, LAMBDA e : IF e.situacion >= 3 THEN e.monto ELSE 0) \in Nat
         /\ SumOver(fs, LAMBDA e : IF e.situacion >= 3 THEN e.monto ELSE 0) \in Nat
         /\ SumOver(es, LAMBDA e : IF e.situacion >= 3 THEN e.monto ELSE 0)
              <= SumOver(fs, LAMBDA e : IF e.situacion >= 3 THEN e.monto ELSE 0)
<1> DEFINE D == DOMAIN es
           A == [i \in D |-> IF es[i].situacion >= 2 THEN es[i].monto ELSE 0]
           B == [i \in D |-> IF fs[i].situacion >= 2 THEN fs[i].monto ELSE 0]
           P == [i \in D |-> IF es[i].situacion >= 3 THEN es[i].monto ELSE 0]
           Q == [i \in D |-> IF fs[i].situacion >= 3 THEN fs[i].monto ELSE 0]
<1>1. DOMAIN fs = D /\ IsFiniteSet(D)
  BY SeqFinite DEF WorseDebts
<1>2. ASSUME NEW i \in D
      PROVE  /\ A[i] \in Nat /\ B[i] \in Nat /\ A[i] <= B[i]
             /\ P[i] \in Nat /\ Q[i] \in Nat /\ P[i] <= Q[i]
  <2> DEFINE s == es[i].situacion
             t == fs[i].situacion
             m == es[i].monto
  <2>1. es[i] \in Debt /\ fs[i] \in Debt
    BY <1>1
  <2>2. s \in Nat /\ t \in Nat /\ s <= t /\ m \in Nat /\ fs[i].monto = m
    BY <2>1 DEF WorseDebts, Debt
  <2>3. /\ A[i] = (IF s >= 2 THEN m ELSE 0) /\ B[i] = (IF t >= 2 THEN m ELSE 0)
        /\ P[i] = (IF s >= 3 THEN m ELSE 0) /\ Q[i] = (IF t >= 3 THEN m ELSE 0)
    BY <2>2
  <2> HIDE DEF s, t, m, A, B, P, Q
  <2> QED BY <2>2, <2>3
<1>3. /\ SumOver(es, LAMBDA e : IF e.situacion >= 2 THEN e.monto ELSE 0) = SumOn(A, D)
      /\ SumOver(es, LAMBDA e : IF e.situacion >= 3 THEN e.monto ELSE 0) = SumOn(P, D)
  BY DEF SumOver
<1>4. /\ SumOver(fs, LAMBDA e : IF e.situacion >= 2 THEN e.monto ELSE 0) = SumOn(B, D)
      /\ SumOver(fs, LAMBDA e : IF e.situacion >= 3 THEN e.monto ELSE 0) = SumOn(Q, D)
  BY <1>1 DEF SumOver
<1> HIDE DEF D, A, B, P, Q
<1>5. SumOn(A, D) \in Nat /\ SumOn(B, D) \in Nat /\ SumOn(A, D) <= SumOn(B, D)
  BY <1>1, <1>2, SumOrder
<1>6. SumOn(P, D) \in Nat /\ SumOn(Q, D) \in Nat /\ SumOn(P, D) <= SumOn(Q, D)
  BY <1>1, <1>2, SumOrder
<1> QED BY <1>3, <1>4, <1>5, <1>6

(* The worst situation, the longest delay and the largest debt. *)
LEMMA WorstDebtOrder ==
  ASSUME NEW es \in Seq(Debt), NEW fs \in Seq(Debt), WorseDebts(es, fs)
  PROVE  /\ Largest(es, LAMBDA e : e.situacion) \in Nat
         /\ Largest(fs, LAMBDA e : e.situacion) \in Nat
         /\ Largest(es, LAMBDA e : e.situacion) <= Largest(fs, LAMBDA e : e.situacion)
         /\ Largest(es, LAMBDA e : e.dias) \in Nat
         /\ Largest(fs, LAMBDA e : e.dias) \in Nat
         /\ Largest(es, LAMBDA e : e.dias) <= Largest(fs, LAMBDA e : e.dias)
         /\ Largest(es, LAMBDA e : e.monto) \in Nat
         /\ Largest(fs, LAMBDA e : e.monto) = Largest(es, LAMBDA e : e.monto)
<1> DEFINE D == DOMAIN es
           A == [i \in D |-> es[i].situacion]
           B == [i \in D |-> fs[i].situacion]
           P == [i \in D |-> es[i].dias]
           Q == [i \in D |-> fs[i].dias]
           M == [i \in D |-> es[i].monto]
<1>1. DOMAIN fs = D /\ IsFiniteSet(D)
  BY SeqFinite DEF WorseDebts
<1>2. ASSUME NEW i \in D
      PROVE  /\ A[i] \in Nat /\ B[i] \in Nat /\ A[i] <= B[i]
             /\ P[i] \in Nat /\ Q[i] \in Nat /\ P[i] <= Q[i]
             /\ M[i] \in Nat /\ fs[i].monto = M[i]
  <2>1. es[i] \in Debt /\ fs[i] \in Debt
    BY <1>1
  <2> QED BY <2>1 DEF WorseDebts, Debt
<1>3. /\ Largest(es, LAMBDA e : e.situacion) = Top(A, D)
      /\ Largest(es, LAMBDA e : e.dias) = Top(P, D)
      /\ Largest(es, LAMBDA e : e.monto) = Top(M, D)
  <2>1. /\ {es[i].situacion : i \in D} = {A[i] : i \in D}
        /\ {es[i].dias : i \in D} = {P[i] : i \in D}
        /\ {es[i].monto : i \in D} = {M[i] : i \in D}
    OBVIOUS
  <2> QED BY <2>1 DEF Largest, Top
<1>4. /\ Largest(fs, LAMBDA e : e.situacion) = Top(B, D)
      /\ Largest(fs, LAMBDA e : e.dias) = Top(Q, D)
      /\ Largest(fs, LAMBDA e : e.monto) = Top(M, D)
  <2>1. /\ {fs[i].situacion : i \in DOMAIN fs} = {B[i] : i \in D}
        /\ {fs[i].dias : i \in DOMAIN fs} = {Q[i] : i \in D}
    BY <1>1
  <2>2. {fs[i].monto : i \in DOMAIN fs} = {M[i] : i \in D}
    BY <1>1, <1>2
  <2> QED BY <2>1, <2>2 DEF Largest, Top
<1> HIDE DEF D, A, B, P, Q, M
<1>5. Top(A, D) \in Nat /\ Top(B, D) \in Nat /\ Top(A, D) <= Top(B, D)
  BY <1>1, <1>2, LargestOrder
<1>6. Top(P, D) \in Nat /\ Top(Q, D) \in Nat /\ Top(P, D) <= Top(Q, D)
  BY <1>1, <1>2, LargestOrder
<1>7. Top(M, D) \in Nat
  <2>1. \A i \in D : M[i] \in Nat /\ M[i] <= M[i]
    BY <1>2
  <2> QED BY <1>1, <2>1, LargestOrder
<1> QED BY <1>3, <1>4, <1>5, <1>6, <1>7

(* What the score reads of a latest month with worse debts is worse. *)
LEMMA LatestOrder ==
  ASSUME NEW latest, NEW later, Entidades(latest) \in Seq(Debt), Entidades(later) \in Seq(Debt),
         WorseDebts(Entidades(latest), Entidades(later))
  PROVE  /\ NormalizeLatest(latest) \in LatestNumbers
         /\ NormalizeLatest(later) \in LatestNumbers
         /\ WorseNumbers(NormalizeLatest(latest), NormalizeLatest(later))
<1> DEFINE es == Entidades(latest)
           fs == Entidades(later)
           n == SumOver(es, LAMBDA e : e.monto)
           PartOf(amount) == (amount * Unit) \div Max({n, 1})
           a == SumOver(es, LAMBDA e : e.situacion * e.monto)
           b == SumOver(fs, LAMBDA e : e.situacion * e.monto)
           c == SumOver(es, LAMBDA e : e.dias * e.monto)
           d == SumOver(fs, LAMBDA e : e.dias * e.monto)
           p == SumOver(es, LAMBDA e : IF e.situacion >= 2 THEN e.monto ELSE 0)
           q == SumOver(fs, LAMBDA e : IF e.situacion >= 2 THEN e.monto ELSE 0)
           r == SumOver(es, LAMBDA e : IF e.situacion >= 3 THEN e.monto ELSE 0)
           s == SumOver(fs, LAMBDA e : IF e.situacion >= 3 THEN e.monto ELSE 0)
           m == Largest(es, LAMBDA e : e.monto)
           A == Largest(es, LAMBDA e : e.situacion)
           B == Largest(fs, LAMBDA e : e.situacion)
           C == Largest(es, LAMBDA e : e.dias)
           E == Largest(fs, LAMBDA e : e.dias)
           F == UNION {es[i].flags : i \in DOMAIN es}
           G == UNION {fs[i].flags : i \in DOMAIN fs}
<1>1. /\ n \in Nat /\ SumOver(fs, LAMBDA e : e.monto) = n
      /\ a \in Nat /\ b \in Nat /\ a <= b /\ c \in Nat /\ d \in Nat /\ c <= d
  BY DebtsOrder
<1>2. p \in Nat /\ q \in Nat /\ p <= q /\ r \in Nat /\ s \in Nat /\ r <= s
  BY BadDebtsOrder
<1>3. /\ A \in Nat /\ B \in Nat /\ A <= B /\ C \in Nat /\ E \in Nat /\ C <= E
      /\ m \in Nat /\ Largest(fs, LAMBDA e : e.monto) = m
  BY WorstDebtOrder
<1>4. Len(es) \in Nat /\ Len(fs) = Len(es) /\ DOMAIN fs = DOMAIN es
  BY DEF WorseDebts
<1>5. F \in SUBSET (HardFlags \union SoftFlags) /\ G \in SUBSET (HardFlags \union SoftFlags)
      /\ F \subseteq G
  <2>1. \A i \in DOMAIN es : es[i] \in Debt /\ fs[i] \in Debt /\ es[i].flags \subseteq fs[i].flags
    BY <1>4 DEF WorseDebts
  <2>2. \A i \in DOMAIN es : /\ es[i].flags \subseteq fs[i].flags
                             /\ es[i].flags \subseteq HardFlags \union SoftFlags
                             /\ fs[i].flags \subseteq HardFlags \union SoftFlags
    BY <2>1 DEF Debt
  <2> HIDE DEF es, fs
  <2> QED BY <1>4, <2>2
<1>6. NormalizeLatest(latest) =
        [entidades_count |-> Len(es), max_situacion |-> A, total_monto |-> n,
         max_dias_atraso |-> C, flags |-> F, avg_situacion |-> PartOf(a),
         share_sit_2plus |-> PartOf(p), share_sit_3plus |-> PartOf(r), avg_dias |-> PartOf(c),
         largest_share |-> PartOf(m)]
  BY DEF NormalizeLatest
<1>7. NormalizeLatest(later) =
        [entidades_count |-> Len(es), max_situacion |-> B, total_monto |-> n,
         max_dias_atraso |-> E, flags |-> G, avg_situacion |-> PartOf(b),
         share_sit_2plus |-> PartOf(q), share_sit_3plus |-> PartOf(s), avg_dias |-> PartOf(d),
         largest_share |-> PartOf(m)]
  BY <1>1, <1>3, <1>4 DEF NormalizeLatest
<1> HIDE DEF es, fs, n, a, b, c, d, p, q, r, s, m, A, B, C, E, F, G
<1>8. /\ PartOf(a) \in Nat /\ PartOf(b) \in Nat /\ PartOf(a) <= PartOf(b)
      /\ PartOf(c) \in Nat /\ PartOf(d) \in Nat /\ PartOf(c) <= PartOf(d)
      /\ PartOf(p) \in Nat /\ PartOf(q) \in Nat /\ PartOf(p) <= PartOf(q)
      /\ PartOf(r) \in Nat /\ PartOf(s) \in Nat /\ PartOf(r) <= PartOf(s)
      /\ PartOf(m) \in Nat
  <2>1. \A x, y \in Nat : x <= y => PartOf(x) \in Nat /\ PartOf(y) \in Nat /\ PartOf(x) <= PartOf(y)
    BY <1>1, SharesOrder
  <2> HIDE DEF PartOf
  <2>2. m <= m
    BY <1>3
  <2> QED BY <1>1, <1>2, <1>3, <2>1, <2>2
<1> HIDE DEF PartOf
<1>9. NormalizeLatest(latest) \in LatestNumbers /\ NormalizeLatest(later) \in LatestNumbers
  <2> DEFINE k == Len(es)
             Sa == PartOf(a)
             Sb == PartOf(b)
             Sc == PartOf(c)
             Sd == PartOf(d)
             Sp == PartOf(p)
             Sq == PartOf(q)
             Sr == PartOf(r)
             Ss == PartOf(s)
             Sm == PartOf(m)
             FF == SUBSET (HardFlags \union SoftFlags)
  <2>1. /\ Sa \in Nat /\ Sb \in Nat /\ Sc \in Nat /\ Sd \in Nat /\ Sp \in Nat /\ Sq \in Nat
        /\ Sr \in Nat /\ Ss \in Nat /\ Sm \in Nat /\ k \in Nat /\ n \in Nat
        /\ F \in FF /\ G \in FF
    BY <1>1, <1>4, <1>5, <1>8
  <2>2. NormalizeLatest(latest) =
          [entidades_count |-> k, max_situacion |-> A, total_monto |-> n,
           max_dias_atraso |-> C, flags |-> F, avg_situacion |-> Sa,
           share_sit_2plus |-> Sp, share_sit_3plus |-> Sr, avg_dias |-> Sc,
           largest_share |-> Sm]
    BY <1>6
  <2>3. NormalizeLatest(later) =
          [entidades_count |-> k, max_situacion |-> B, total_monto |-> n,
           max_dias_atraso |-> E, flags |-> G, avg_situacion |-> Sb,
           share_sit_2plus |-> Sq, share_sit_3plus |-> Ss, avg_dias |-> Sd,
           largest_share |-> Sm]
    BY <1>7
  <2>4. LatestNumbers =
          [entidades_count : Nat, max_situacion : Nat, total_monto : Nat, max_dias_atraso : Nat,
           flags : FF, avg_situacion : Nat, share_sit_2plus : Nat,
           share_sit_3plus : Nat, avg_dias : Nat, largest_share : Nat]
    BY DEF LatestNumbers
  <2> HIDE DEF k, Sa, Sb, Sc, Sd, Sp, Sq, Sr, Ss, Sm, FF
  <2>5. NormalizeLatest(latest) \in LatestNumbers
    BY <1>3, <2>1, <2>2, <2>4
  <2>6. NormalizeLatest(later) \in LatestNumbers
    BY <1>3, <2>1, <2>3, <2>4
  <2> QED BY <2>5, <2>6
<1> QED BY <1>1, <1>3, <1>4, <1>5, <1>6, <1>7, <1>8, <1>9 DEF WorseNumbers

----------------------------------------------------------------------------
(* Worse months make worse numbers of the months before. *)

(* A month before. *)
Month == [periodo : Nat, entidades : Seq([situacion : Nat, monto : Nat])]

(* b are the months of a: none of them better, and the debt has only grown in *)
(* the last.                                                                  *)
WorseMonths(a, b) ==
  /\ Len(b) = Len(a)
  /\ \A i \in DOMAIN a :
       /\ PeriodWorst(a[i]) <= PeriodWorst(b[i])
       /\ DebtTotal(a[i]) <= DebtTotal(b[i])
       /\ i < Len(a) => DebtTotal(b[i]) = DebtTotal(a[i])

(* The worst situation of a month and what was owed in it are naturals. *)
LEMMA MonthNumbers ==
  ASSUME NEW m \in Month
  PROVE  PeriodWorst(m) \in Nat /\ DebtTotal(m) \in Nat
<1> DEFINE es == m.entidades
           D == DOMAIN es
           A == [i \in D |-> es[i].situacion]
           M == [i \in D |-> es[i].monto]
<1>1. es \in Seq([situacion : Nat, monto : Nat])
  BY DEF Month
<1>2. IsFiniteSet(D)
  BY <1>1, SeqFinite
<1>3. \A i \in D : A[i] \in Nat /\ M[i] \in Nat /\ A[i] <= A[i]
  <2>1. \A i \in D : es[i] \in [situacion : Nat, monto : Nat]
    <3> DEFINE V == [situacion : Nat, monto : Nat]
    <3>1. es \in Seq(V)
      BY <1>1
    <3> HIDE DEF es, V
    <3>2. \A i \in DOMAIN es : es[i] \in V
      BY <3>1
    <3> QED BY <3>2 DEF V
  <2> QED BY <2>1
<1>4. PeriodWorst(m) = Top(A, D)
  <2>1. {es[i].situacion : i \in D} = {A[i] : i \in D}
    OBVIOUS
  <2> QED BY <2>1 DEF PeriodWorst, Largest, Top
<1>5. DebtTotal(m) = SumOn(M, D)
  BY DEF DebtTotal, SumOver
<1> HIDE DEF A, M, D
<1>6. Top(A, D) \in Nat
  BY <1>2, <1>3, LargestOrder
<1>7. SumOn(M, D) \in Nat
  BY <1>2, <1>3, SumNatural
<1> QED BY <1>4, <1>5, <1>6, <1>7

(* More months in a row. *)
LEMMA LongestOrder ==
  ASSUME NEW n \in Int, NEW S, NEW T, S \subseteq T, T \subseteq 1..n
  PROVE  Max({0} \union S) \in Nat /\ Max({0} \union T) \in Nat
         /\ Max({0} \union S) <= Max({0} \union T)
<1> DEFINE o == 1
           z == 0
           A == {z} \union S
           B == {z} \union T
<1>1. IsFiniteSet(S) /\ IsFiniteSet(T)
  <2>1. o \in Int /\ T \subseteq o..n
    OBVIOUS
  <2> HIDE DEF o
  <2>2. IsFiniteSet(o..n)
    BY <2>1, FS_Interval
  <2>3. IsFiniteSet(T)
    BY <2>1, <2>2, FS_Subset
  <2> QED BY <2>3, FS_Subset
<1>2. IsFiniteSet(A) /\ IsFiniteSet(B)
  <2> HIDE DEF z
  <2>1. IsFiniteSet({z})
    BY FS_Singleton
  <2> QED BY <1>1, <2>1, FS_Union
<1>3. A \subseteq Nat /\ B \subseteq Nat /\ A # {} /\ B # {}
  OBVIOUS
<1>4. \A x \in A : \E y \in B : x <= y
  BY <1>3
<1> HIDE DEF A, B
<1>5. A \subseteq Int /\ B \subseteq Int
  BY <1>3
<1>6. Max(A) \in A /\ Max(B) \in B
  BY <1>2, <1>3, <1>5, MaxOf
<1>7. Max(A) <= Max(B)
  BY <1>2, <1>3, <1>4, <1>5, MaxOrder
<1>8. Max(A) \in Nat /\ Max(B) \in Nat
  BY <1>3, <1>6
<1> QED BY <1>7, <1>8 DEF A, B, z

(* The months in which the debt fell, and rose. *)
Fell(a) == MonthsInARow(a, LAMBDA before, after : after < before)

Rose(a) == MonthsInARow(a, LAMBDA before, after : after > before)

(* Worse months have the debt rising for longer, and falling for less long. *)
LEMMA RowsOrder ==
  ASSUME NEW a \in Seq(Month), NEW b \in Seq(Month), WorseMonths(a, b)
  PROVE  /\ Rose(a) \in Nat /\ Rose(b) \in Nat /\ Rose(a) <= Rose(b)
         /\ Fell(a) \in Nat /\ Fell(b) \in Nat /\ Fell(b) <= Fell(a)
<1> DEFINE last == Len(a)
           N == Min({6, last - 1})
           Up(c) == {n \in 1..N : \A k \in 1..n : DebtTotal(c[last - k + 1]) > DebtTotal(c[last - k])}
           Down(c) == {n \in 1..N : \A k \in 1..n : DebtTotal(c[last - k + 1]) < DebtTotal(c[last - k])}
<1>1. last \in Nat /\ Len(b) = last /\ DOMAIN a = 1..last /\ DOMAIN b = 1..last
  BY DEF WorseMonths
<1>2. N \in Int /\ N <= last - 1
  <2> DEFINE six == 6
             x == last - 1
  <2>1. six \in Int /\ x \in Int
    BY <1>1
  <2> HIDE DEF six, x
  <2>2. Min({six, x}) = IF six <= x THEN six ELSE x
    BY <2>1, MinPair
  <2>3. Min({six, x}) \in Int /\ Min({six, x}) <= x
    BY <2>1, <2>2
  <2> QED BY <2>3 DEF six, x
<1>3. \A i \in 1..last : /\ DebtTotal(a[i]) \in Nat /\ DebtTotal(b[i]) \in Nat
                         /\ DebtTotal(a[i]) <= DebtTotal(b[i])
                         /\ i < last => DebtTotal(b[i]) = DebtTotal(a[i])
  <2>1. \A i \in 1..last : a[i] \in Month /\ b[i] \in Month
    BY <1>1
  <2> QED BY <1>1, <2>1, MonthNumbers DEF WorseMonths
<1>4. /\ Rose(a) = Max({0} \union Up(a)) /\ Rose(b) = Max({0} \union Up(b))
      /\ Fell(a) = Max({0} \union Down(a)) /\ Fell(b) = Max({0} \union Down(b))
  BY <1>1 DEF Rose, Fell, MonthsInARow
<1> HIDE DEF last, N
<1>5. ASSUME NEW n \in 1..N, NEW k \in 1..n
      PROVE  /\ DebtTotal(a[last - k + 1]) \in Nat
             /\ DebtTotal(b[last - k + 1]) \in Nat
             /\ DebtTotal(a[last - k]) \in Nat
             /\ DebtTotal(a[last - k + 1]) <= DebtTotal(b[last - k + 1])
             /\ DebtTotal(b[last - k]) = DebtTotal(a[last - k])
  <2> DEFINE i == last - k + 1
             j == last - k
  <2>1. i \in 1..last /\ j \in 1..last /\ j < last
    BY <1>1, <1>2
  <2> HIDE DEF i, j
  <2>2. /\ DebtTotal(a[i]) \in Nat /\ DebtTotal(b[i]) \in Nat /\ DebtTotal(a[j]) \in Nat
        /\ DebtTotal(a[i]) <= DebtTotal(b[i]) /\ DebtTotal(b[j]) = DebtTotal(a[j])
    BY <1>3, <2>1
  <2> QED BY <2>2 DEF i, j
<1>6. Up(a) \subseteq Up(b) /\ Down(b) \subseteq Down(a)
  <2>1. ASSUME NEW n \in Up(a) PROVE n \in Up(b)
    <3>1. \A k \in 1..n : DebtTotal(b[last - k + 1]) > DebtTotal(b[last - k])
      <4> SUFFICES ASSUME NEW k \in 1..n
                   PROVE  DebtTotal(b[last - k + 1]) > DebtTotal(b[last - k])
        OBVIOUS
      <4>1. DebtTotal(a[last - k + 1]) > DebtTotal(a[last - k])
        OBVIOUS
      <4> QED BY <1>5, <4>1
    <3> QED BY <3>1
  <2>2. ASSUME NEW n \in Down(b) PROVE n \in Down(a)
    <3>1. \A k \in 1..n : DebtTotal(a[last - k + 1]) < DebtTotal(a[last - k])
      <4> SUFFICES ASSUME NEW k \in 1..n
                   PROVE  DebtTotal(a[last - k + 1]) < DebtTotal(a[last - k])
        OBVIOUS
      <4>1. DebtTotal(b[last - k + 1]) < DebtTotal(b[last - k])
        OBVIOUS
      <4> QED BY <1>5, <4>1
    <3> QED BY <3>1
  <2> QED BY <2>1, <2>2
<1>7. \A c : Up(c) \subseteq 1..N /\ Down(c) \subseteq 1..N
  OBVIOUS
<1> HIDE DEF Up, Down
<1>8. Rose(a) \in Nat /\ Rose(b) \in Nat /\ Rose(a) <= Rose(b)
  BY <1>2, <1>4, <1>6, <1>7, LongestOrder
<1>9. Fell(a) \in Nat /\ Fell(b) \in Nat /\ Fell(b) <= Fell(a)
  BY <1>2, <1>4, <1>6, <1>7, LongestOrder
<1> QED BY <1>8, <1>9

(* The months in a situation of s or worse. *)
BadMonths(a, s) == {i \in 1..Len(a) : PeriodWorst(a[i]) >= s}

(* Worse months are bad where the others are, at least. *)
LEMMA BadMonthsOrder ==
  ASSUME NEW a \in Seq(Month), NEW b \in Seq(Month), WorseMonths(a, b), NEW s \in Nat
  PROVE  /\ BadMonths(a, s) \subseteq BadMonths(b, s)
         /\ BadMonths(b, s) \subseteq 1..Len(a)
         /\ IsFiniteSet(BadMonths(a, s)) /\ IsFiniteSet(BadMonths(b, s))
         /\ Cardinality(BadMonths(a, s)) \in Nat /\ Cardinality(BadMonths(b, s)) \in Nat
         /\ Cardinality(BadMonths(a, s)) <= Cardinality(BadMonths(b, s))
<1> DEFINE n == Len(a)
           A == BadMonths(a, s)
           B == BadMonths(b, s)
           D == DOMAIN a
<1>1. n \in Nat /\ Len(b) = n /\ D = 1..n /\ DOMAIN b = 1..n
  BY DEF WorseMonths
<1>2. A \subseteq B /\ B \subseteq D
  <2>1. \A i \in D : a[i] \in Month /\ b[i] \in Month
    BY <1>1
  <2>2. \A i \in D : /\ PeriodWorst(a[i]) \in Nat /\ PeriodWorst(b[i]) \in Nat
                     /\ PeriodWorst(a[i]) <= PeriodWorst(b[i])
    BY <2>1, MonthNumbers DEF WorseMonths
  <2> HIDE DEF n, D
  <2> QED BY <1>1, <2>2 DEF BadMonths, n
<1>3. IsFiniteSet(D)
  BY SeqFinite
<1> HIDE DEF n, A, B, D
<1>4. IsFiniteSet(B)
  BY <1>2, <1>3, FS_Subset
<1>5. IsFiniteSet(A) /\ Cardinality(A) <= Cardinality(B)
  BY <1>2, <1>4, FS_Subset
<1>6. Cardinality(A) \in Nat /\ Cardinality(B) \in Nat
  BY <1>4, <1>5, FS_CardinalityType
<1> QED BY <1>1, <1>2, <1>4, <1>5, <1>6 DEF n, A, B

(* How long ago the last bad month was. *)
SinceBad(a) == IF BadMonths(a, 2) = {} THEN MonthsLooked ELSE Len(a) - Max(BadMonths(a, 2))

(* The last bad one of worse months is not longer ago. *)
LEMMA SinceBadOrder ==
  ASSUME NEW a \in Seq(Month), NEW b \in Seq(Month), WorseMonths(a, b)
  PROVE  /\ SinceBad(a) \in Nat /\ SinceBad(b) \in Nat
         /\ SinceBad(a) < MonthsLooked => SinceBad(b) <= SinceBad(a)
<1> DEFINE n == Len(a)
           A == BadMonths(a, 2)
           B == BadMonths(b, 2)
<1>1. /\ A \subseteq B /\ B \subseteq 1..n /\ IsFiniteSet(A) /\ IsFiniteSet(B)
  BY BadMonthsOrder
<1>2. n \in Nat /\ Len(b) = n
  BY DEF WorseMonths
<1>3. /\ SinceBad(a) = (IF A = {} THEN 24 ELSE n - Max(A))
      /\ SinceBad(b) = (IF B = {} THEN 24 ELSE n - Max(B))
  BY <1>2 DEF SinceBad, MonthsLooked
<1> HIDE DEF n, A, B
<1>4. A \subseteq Int /\ B \subseteq Int
  BY <1>1
<1>5. A # {} => Max(A) \in 1..n
  BY <1>1, <1>4, MaxOf
<1>6. B # {} => Max(B) \in 1..n
  BY <1>1, <1>4, MaxOf
<1>7. A # {} => Max(A) <= Max(B) /\ B # {}
  <2>1. \A x \in A : \E y \in B : x <= y
    BY <1>1, <1>4
  <2> QED BY <1>1, <1>4, <2>1, MaxOrder
<1> DEFINE p == Max(A)
           q == Max(B)
<1> HIDE DEF p, q
<1>8. /\ A # {} => p \in 1..n /\ p <= q /\ B # {}
      /\ B # {} => q \in 1..n
  BY <1>5, <1>6, <1>7 DEF p, q
<1>9. /\ SinceBad(a) = (IF A = {} THEN 24 ELSE n - p)
      /\ SinceBad(b) = (IF B = {} THEN 24 ELSE n - q)
  BY <1>3 DEF p, q
<1> QED BY <1>2, <1>8, <1>9 DEF MonthsLooked

(* The worst month. *)
LEMMA WorstMonthOrder ==
  ASSUME NEW a \in Seq(Month), NEW b \in Seq(Month), WorseMonths(a, b)
  PROVE  LET v == Max({0} \union {PeriodWorst(a[i]) : i \in 1..Len(a)})
             w == Max({0} \union {PeriodWorst(b[i]) : i \in 1..Len(b)})
         IN  v \in Nat /\ w \in Nat /\ v <= w
<1> DEFINE D == DOMAIN a
           A == [i \in D |-> PeriodWorst(a[i])]
           B == [i \in D |-> PeriodWorst(b[i])]
<1>1. D = 1..Len(a) /\ D = 1..Len(b) /\ D = DOMAIN b
  BY DEF WorseMonths
<1>2. \A i \in D : A[i] \in Nat /\ B[i] \in Nat /\ A[i] <= B[i]
  <2>1. \A i \in D : a[i] \in Month /\ b[i] \in Month
    BY <1>1
  <2> QED BY <2>1, MonthNumbers DEF WorseMonths
<1>3. IsFiniteSet(D)
  BY SeqFinite
<1>4. /\ Max({0} \union {PeriodWorst(a[i]) : i \in 1..Len(a)}) = Top(A, D)
      /\ Max({0} \union {PeriodWorst(b[i]) : i \in 1..Len(b)}) = Top(B, D)
  <2>1. {PeriodWorst(a[i]) : i \in 1..Len(a)} = {A[i] : i \in D}
    BY <1>1
  <2>2. {PeriodWorst(b[i]) : i \in 1..Len(b)} = {B[i] : i \in D}
    BY <1>1
  <2> QED BY <2>1, <2>2 DEF Top
<1> HIDE DEF D, A, B
<1>5. Top(A, D) \in Nat /\ Top(B, D) \in Nat /\ Top(A, D) <= Top(B, D)
  BY <1>2, <1>3, LargestOrder
<1> QED BY <1>4, <1>5

(* The worst situation of the months, and the debts the trend compares. *)
Worst(a) == Max({0} \union {PeriodWorst(a[i]) : i \in 1..Len(a)})

Debts(a) == IF Len(a) < 7 THEN <<>> ELSE [j \in 1..3 |-> DebtTotal(a[Len(a) - 3 * (j - 1)])]

(* The three debts compared: only the current one may differ. *)
LEMMA ThreeDebtsOrder ==
  ASSUME NEW a \in Seq(Month), NEW b \in Seq(Month), WorseMonths(a, b)
  PROVE  /\ Debts(a) \in {<<>>} \union [1..3 -> Nat]
         /\ Debts(b) \in {<<>>} \union [1..3 -> Nat]
         /\ Debts(a) = <<>> <=> Debts(b) = <<>>
         /\ Debts(a) # <<>> => /\ Debts(a)[1] <= Debts(b)[1]
                               /\ Debts(a)[2] = Debts(b)[2]
                               /\ Debts(a)[3] = Debts(b)[3]
<1> DEFINE last == Len(a)
           c(j) == DebtTotal(a[last - 3 * (j - 1)])
           d(j) == DebtTotal(b[last - 3 * (j - 1)])
<1>1. last \in Nat /\ Len(b) = last /\ DOMAIN a = 1..last /\ DOMAIN b = 1..last
  BY DEF WorseMonths
<1>2. \A i \in 1..last : /\ DebtTotal(a[i]) \in Nat /\ DebtTotal(b[i]) \in Nat
                         /\ DebtTotal(a[i]) <= DebtTotal(b[i])
                         /\ i < last => DebtTotal(b[i]) = DebtTotal(a[i])
  <2>1. \A i \in 1..last : a[i] \in Month /\ b[i] \in Month
    BY <1>1
  <2> QED BY <1>1, <2>1, MonthNumbers DEF WorseMonths
<1>3. /\ Debts(a) = (IF last < 7 THEN <<>> ELSE [j \in 1..3 |-> c(j)])
      /\ Debts(b) = (IF last < 7 THEN <<>> ELSE [j \in 1..3 |-> d(j)])
  BY <1>1 DEF Debts
<1> HIDE DEF last
<1>4. CASE last < 7
  <2>1. Debts(a) = <<>> /\ Debts(b) = <<>>
    BY <1>3, <1>4
  <2> QED BY <2>1
<1>5. CASE ~ (last < 7)
  <2>1. \A j \in 1..3 : /\ c(j) \in Nat /\ d(j) \in Nat /\ c(j) <= d(j)
                        /\ j # 1 => d(j) = c(j)
    <3> SUFFICES ASSUME NEW j \in 1..3
                 PROVE  c(j) \in Nat /\ d(j) \in Nat /\ c(j) <= d(j) /\ (j # 1 => d(j) = c(j))
      OBVIOUS
    <3> DEFINE i == last - 3 * (j - 1)
    <3>1. i \in 1..last /\ (j # 1 => i < last)
      BY <1>1, <1>5
    <3>2. c(j) = DebtTotal(a[i]) /\ d(j) = DebtTotal(b[i])
      OBVIOUS
    <3> HIDE DEF i, c, d
    <3> QED BY <1>2, <3>1, <3>2
  <2>2. Debts(a) = [j \in 1..3 |-> c(j)] /\ Debts(b) = [j \in 1..3 |-> d(j)]
    BY <1>3, <1>5
  <2> HIDE DEF c, d
  <2>3. Debts(a) \in [1..3 -> Nat] /\ Debts(b) \in [1..3 -> Nat]
    BY <2>1, <2>2
  <2>4. Debts(a) # <<>> /\ Debts(b) # <<>>
    <3>1. 1 \in DOMAIN Debts(a) /\ 1 \in DOMAIN Debts(b) /\ 1 \notin DOMAIN <<>>
      BY <2>2
    <3> QED BY <3>1
  <2>5. /\ Debts(a)[1] = c(1) /\ Debts(a)[2] = c(2) /\ Debts(a)[3] = c(3)
        /\ Debts(b)[1] = d(1) /\ Debts(b)[2] = d(2) /\ Debts(b)[3] = d(3)
    BY <2>2
  <2>6. c(1) <= d(1) /\ d(2) = c(2) /\ d(3) = c(3)
    BY <2>1
  <2> QED BY <2>3, <2>4, <2>5, <2>6
<1> QED BY <1>4, <1>5

(* What the score reads of worse months is worse. *)
LEMMA HistoricalOrder ==
  ASSUME NEW past, NEW worse,
         SortHistoricalPeriods(past.periodos) \in Seq(Month),
         SortHistoricalPeriods(worse.periodos) \in Seq(Month),
         WorseMonths(SortHistoricalPeriods(past.periodos), SortHistoricalPeriods(worse.periodos))
  PROVE  /\ NormalizeHistorical(past) \in HistoricalNumbers
         /\ NormalizeHistorical(worse) \in HistoricalNumbers
         /\ WorsePast(NormalizeHistorical(past), NormalizeHistorical(worse))
<1> DEFINE a == SortHistoricalPeriods(past.periodos)
           b == SortHistoricalPeriods(worse.periodos)
           Of(s) == [worst |-> Worst(s), months2plus |-> Cardinality(BadMonths(s, 2)),
                     months3plus |-> Cardinality(BadMonths(s, 3)), sinceBad |-> SinceBad(s),
                     debts |-> Debts(s), down |-> Fell(s), up |-> Rose(s)]
<1>1. NormalizeHistorical(past) = Of(a) /\ NormalizeHistorical(worse) = Of(b)
  BY DEF NormalizeHistorical, Worst, BadMonths, SinceBad, Debts, Fell, Rose
<1>2. a \in Seq(Month) /\ b \in Seq(Month) /\ WorseMonths(a, b)
  OBVIOUS
<1> HIDE DEF a, b
<1>3. Worst(a) \in Nat /\ Worst(b) \in Nat /\ Worst(a) <= Worst(b)
  BY <1>2, WorstMonthOrder DEF Worst
<1>4. \A s \in {2, 3} :
        /\ Cardinality(BadMonths(a, s)) \in Nat /\ Cardinality(BadMonths(b, s)) \in Nat
        /\ Cardinality(BadMonths(a, s)) <= Cardinality(BadMonths(b, s))
  <2>1. \A s \in {2, 3} : s \in Nat
    OBVIOUS
  <2> QED BY <1>2, <2>1, BadMonthsOrder
<1>5. /\ SinceBad(a) \in Nat /\ SinceBad(b) \in Nat
      /\ SinceBad(a) < MonthsLooked => SinceBad(b) <= SinceBad(a)
  BY <1>2, SinceBadOrder
<1>6. /\ Debts(a) \in {<<>>} \union [1..3 -> Nat]
      /\ Debts(b) \in {<<>>} \union [1..3 -> Nat]
      /\ Debts(a) = <<>> <=> Debts(b) = <<>>
      /\ Debts(a) # <<>> => /\ Debts(a)[1] <= Debts(b)[1]
                            /\ Debts(a)[2] = Debts(b)[2]
                            /\ Debts(a)[3] = Debts(b)[3]
  BY <1>2, ThreeDebtsOrder
<1>7. /\ Rose(a) \in Nat /\ Rose(b) \in Nat /\ Rose(a) <= Rose(b)
      /\ Fell(a) \in Nat /\ Fell(b) \in Nat /\ Fell(b) <= Fell(a)
  BY <1>2, RowsOrder
<1>8. Of(a) \in HistoricalNumbers /\ Of(b) \in HistoricalNumbers
  BY <1>3, <1>4, <1>5, <1>6, <1>7 DEF HistoricalNumbers
<1>9. WorsePast(Of(a), Of(b))
  BY <1>3, <1>4, <1>5, <1>6, <1>7 DEF WorsePast
<1> HIDE DEF Of
<1> QED BY <1>1, <1>8, <1>9

----------------------------------------------------------------------------
(* The months are sorted by their dates. *)

(* One sequence of months, with its places. *)
LEMMA PlacesPermute ==
  ASSUME NEW V, NEW p \in Seq(V), \A i \in DOMAIN p : p[i].periodo \in Int
  PROVE  /\ Places(p) \in [DOMAIN p -> DOMAIN p]
         /\ \A i, j \in DOMAIN p : Places(p)[i] = Places(p)[j] => i = j
         /\ \A n \in DOMAIN p : \E j \in DOMAIN p : Places(p)[j] = n
         /\ \A j \in DOMAIN p :
              (\A i \in DOMAIN p \ {j} : p[i].periodo < p[j].periodo) => Places(p)[j] = Len(p)
<1> DEFINE D == DOMAIN p
           n == Len(p)
           Before(i, j) == IF i < j THEN p[i].periodo <= p[j].periodo
                           ELSE p[i].periodo < p[j].periodo
           Earlier(j) == {i \in D : Before(i, j)}
           f == Places(p)
<1>1. n \in Nat /\ D = 1..n
  OBVIOUS
<1>2. f = [j \in D |-> Cardinality(Earlier(j)) + 1]
  BY DEF Places
<1>3. IsFiniteSet(D) /\ Cardinality(D) = n
  <2> DEFINE o == 1
  <2>1. o \in Int /\ n \in Int /\ D = o..n /\ (o > n => n = 0) /\ n - o + 1 = n
    BY <1>1
  <2>2. n \in Nat
    BY <1>1
  <2> HIDE DEF o, n, D
  <2>3. IsFiniteSet(D) /\ Cardinality(D) = IF o > n THEN 0 ELSE n - o + 1
    BY <2>1, FS_Interval
  <2> QED
    BY <2>1, <2>2, <2>3
<1>4. \A i, j \in D : i # j => (Before(i, j) <=> ~ Before(j, i))
  BY <1>1
<1>5. \A j \in D : ~ Before(j, j)
  BY <1>1
<1>6. \A i, j, k \in D : Before(i, j) /\ Before(j, k) => Before(i, k)
  BY <1>1
<1>7. \A j \in D : IsFiniteSet(Earlier(j)) /\ Cardinality(Earlier(j)) \in 0..(n - 1)
  <2> SUFFICES ASSUME NEW j \in D
               PROVE  IsFiniteSet(Earlier(j)) /\ Cardinality(Earlier(j)) \in 0..(n - 1)
    OBVIOUS
  <2>1. Earlier(j) \in SUBSET D /\ j \notin Earlier(j)
    BY <1>5
  <2> HIDE DEF Earlier, D, n
  <2>2. IsFiniteSet(Earlier(j)) /\ Cardinality(Earlier(j)) \in Nat
    BY <1>3, <2>1, FS_Subset, FS_CardinalityType
  <2>3. Cardinality(Earlier(j)) <= n
    BY <1>3, <2>1, FS_Subset
  <2>4. Cardinality(Earlier(j)) # n
    BY <1>3, <2>1, FS_Subset
  <2> QED
    BY <1>1, <2>2, <2>3, <2>4
<1>8. f \in [D -> D]
  <2> HIDE DEF Earlier, D, n, f
  <2> QED
    BY <1>1, <1>2, <1>7
<1>9. \A i, j \in D : Before(i, j) => f[i] < f[j]
  <2> SUFFICES ASSUME NEW i \in D, NEW j \in D, Before(i, j) PROVE f[i] < f[j]
    OBVIOUS
  <2>1. i \notin Earlier(i) /\ i \in Earlier(j)
    BY <1>5
  <2>2. Earlier(i) \subseteq Earlier(j)
    BY <1>6
  <2> HIDE DEF Earlier, D, n, f, Before
  <2>3. /\ Cardinality(Earlier(i)) <= Cardinality(Earlier(j))
        /\ Cardinality(Earlier(i)) # Cardinality(Earlier(j))
    BY <1>7, <2>1, <2>2, FS_Subset
  <2> QED
    BY <1>2, <1>7, <2>3
<1>10. \A i, j \in D : f[i] = f[j] => i = j
  <2> HIDE DEF D, n, f, Before
  <2>1. \A i \in D : f[i] \in Int
    BY <1>1, <1>8
  <2> QED
    BY <1>4, <1>9, <2>1
<1>11. \A k \in D : \E j \in D : f[j] = k
  <2> HIDE DEF D, n, f, Before
  <2>1. f \in Injection(D, D)
    BY <1>8, <1>10 DEF Injection, IsInjective
  <2>2. f \in Surjection(D, D)
    BY <1>3, <2>1, FS_Injection
  <2> QED
    BY <2>2 DEF Surjection
<1>12. ASSUME NEW j \in D, \A i \in D \ {j} : p[i].periodo < p[j].periodo PROVE f[j] = n
  <2>1. Earlier(j) = D \ {j}
    BY <1>5, <1>12, <1>1
  <2> HIDE DEF Earlier, D, n, f, Before
  <2>2. Cardinality(D \ {j}) = n - 1
    BY <1>3, FS_RemoveElement
  <2>3. f[j] = Cardinality(Earlier(j)) + 1
    BY <1>2
  <2>4. Cardinality(Earlier(j)) = n - 1
    BY <2>1, <2>2
  <2> QED
    BY <1>1, <2>3, <2>4
<1> HIDE DEF D, n, f
<1> QED
  BY <1>8, <1>10, <1>11, <1>12 DEF D, n, f

(* Every month is at its place. *)
LEMMA SortedAt ==
  ASSUME NEW V, NEW p \in Seq(V), \A i \in DOMAIN p : p[i].periodo \in Int
  PROVE  /\ DOMAIN SortHistoricalPeriods(p) = DOMAIN p
         /\ Len(SortHistoricalPeriods(p)) = Len(p)
         /\ \A j \in DOMAIN p : SortHistoricalPeriods(p)[Places(p)[j]] = p[j]
<1> DEFINE D == DOMAIN p
           f == Places(p)
           s == SortHistoricalPeriods(p)
<1>1. s = [n \in D |-> p[CHOOSE j \in D : f[j] = n]]
  BY DEF SortHistoricalPeriods
<1>2. /\ f \in [D -> D]
      /\ \A i, j \in D : f[i] = f[j] => i = j
  BY PlacesPermute
<1>3. Len(s) = Len(p)
  <2>1. D = 1..Len(p) /\ Len(p) \in Nat
    OBVIOUS
  <2> HIDE DEF D, s
  <2> QED BY <1>1, <2>1
<1> HIDE DEF D, f, s
<1>4. ASSUME NEW j \in D PROVE s[f[j]] = p[j]
  <2>1. (CHOOSE i \in D : f[i] = f[j]) = j
    BY <1>2
  <2> QED
    BY <1>1, <1>2, <2>1
<1> QED
  BY <1>1, <1>3, <1>4 DEF D, f, s

(* q lists the months of p in its order: none of them better, and the debt    *)
(* has grown at most in the one that is later than all others.                *)
WorsePeriods(p, q) ==
  /\ Len(q) = Len(p)
  /\ \A i \in DOMAIN p :
       /\ q[i].periodo = p[i].periodo
       /\ PeriodWorst(p[i]) <= PeriodWorst(q[i])
       /\ DebtTotal(p[i]) <= DebtTotal(q[i])
       /\ \/ DebtTotal(q[i]) = DebtTotal(p[i])
          \/ \A j \in DOMAIN p \ {i} : p[j].periodo < p[i].periodo

(* Sorting months gives months. *)
LEMMA SortedMonths ==
  ASSUME NEW p \in Seq(Month)
  PROVE  SortHistoricalPeriods(p) \in Seq(Month)
<1> DEFINE s == SortHistoricalPeriods(p)
           D == DOMAIN p
           n == Len(p)
<1>1. \A i \in D : p[i] \in Month /\ p[i].periodo \in Int
  <2>1. \A i \in D : p[i] \in Month
    <3> HIDE DEF D
    <3>1. D = DOMAIN p
      BY DEF D
    <3> QED BY <3>1
  <2> QED BY <2>1 DEF Month
<1>2. /\ DOMAIN s = D /\ Len(s) = n
      /\ \A j \in D : s[Places(p)[j]] = p[j]
  BY <1>1, SortedAt
<1>3. \A k \in D : \E j \in D : Places(p)[j] = k
  BY <1>1, PlacesPermute
<1>4. \A k \in D : s[k] \in Month
  <2> HIDE DEF s, D
  <2> SUFFICES ASSUME NEW k \in D PROVE s[k] \in Month
    OBVIOUS
  <2>1. PICK j \in D : Places(p)[j] = k
    BY <1>3
  <2>2. s[k] = p[j]
    BY <1>2, <2>1
  <2> QED BY <1>1, <2>2
<1>5. D = 1..n /\ n \in Nat
  OBVIOUS
<1>6. s = [k \in D |-> s[k]]
  BY <1>2 DEF SortHistoricalPeriods
<1> HIDE DEF s, D, n
<1> QED BY <1>4, <1>5, <1>6 DEF s

(* Worse months are worse in the order of their dates as well. *)
LEMMA SortedWorse ==
  ASSUME NEW p \in Seq(Month), NEW q \in Seq(Month), WorsePeriods(p, q)
  PROVE  WorseMonths(SortHistoricalPeriods(p), SortHistoricalPeriods(q))
<1> DEFINE s == SortHistoricalPeriods(p)
           t == SortHistoricalPeriods(q)
           D == DOMAIN p
           n == Len(p)
           f == Places(p)
<1>1. DOMAIN q = D /\ D = 1..n /\ n \in Nat
  BY DEF WorsePeriods
<1>2. \A i \in D : p[i].periodo \in Int /\ q[i].periodo \in Int
  <2>1. \A i \in D : p[i] \in Month /\ q[i] \in Month
    <3>1. DOMAIN p = D /\ DOMAIN q = D
      BY <1>1
    <3> HIDE DEF D
    <3> QED BY <3>1
  <2> QED BY <2>1 DEF Month
<1>3. Places(q) = f
  <2>1. \A i \in D : q[i].periodo = p[i].periodo
    BY DEF WorsePeriods
  <2>2. \A j \in D : {i \in D : IF i < j THEN q[i].periodo <= q[j].periodo
                                ELSE q[i].periodo < q[j].periodo}
                   = {i \in D : IF i < j THEN p[i].periodo <= p[j].periodo
                                ELSE p[i].periodo < p[j].periodo}
    BY <2>1
  <2> QED BY <1>1, <2>2 DEF Places
<1>4. /\ DOMAIN s = D /\ Len(s) = n
      /\ \A j \in D : s[f[j]] = p[j]
  BY <1>2, SortedAt
<1>5. /\ DOMAIN t = D /\ Len(t) = n
      /\ \A j \in D : t[f[j]] = q[j]
  <2>1. /\ DOMAIN t = DOMAIN q /\ Len(t) = Len(q)
        /\ \A j \in DOMAIN q : t[Places(q)[j]] = q[j]
    BY <1>1, <1>2, SortedAt
  <2> QED BY <1>1, <1>3, <2>1 DEF WorsePeriods
<1>6. /\ \A k \in D : \E j \in D : f[j] = k
      /\ \A j \in D : (\A i \in D \ {j} : p[i].periodo < p[j].periodo) => f[j] = n
  BY <1>2, PlacesPermute
<1>7. \A j \in D : /\ PeriodWorst(p[j]) <= PeriodWorst(q[j])
                   /\ DebtTotal(p[j]) <= DebtTotal(q[j])
                   /\ \/ DebtTotal(q[j]) = DebtTotal(p[j])
                      \/ \A i \in D \ {j} : p[i].periodo < p[j].periodo
  BY DEF WorsePeriods
<1> HIDE DEF s, t, D, n, f
<1>8. ASSUME NEW k \in D
      PROVE  /\ PeriodWorst(s[k]) <= PeriodWorst(t[k])
             /\ DebtTotal(s[k]) <= DebtTotal(t[k])
             /\ k < n => DebtTotal(t[k]) = DebtTotal(s[k])
  <2>1. PICK j \in D : f[j] = k
    BY <1>6
  <2>2. s[k] = p[j] /\ t[k] = q[j]
    BY <1>4, <1>5, <2>1
  <2>3. k < n => DebtTotal(q[j]) = DebtTotal(p[j])
    <3>1. CASE DebtTotal(q[j]) = DebtTotal(p[j])
      BY <3>1
    <3>2. CASE \A i \in D \ {j} : p[i].periodo < p[j].periodo
      <4>1. k = n
        BY <1>6, <2>1, <3>2
      <4> QED BY <1>1, <4>1
    <3> QED BY <1>7, <3>1, <3>2
  <2> QED BY <1>7, <2>2, <2>3
<1> QED BY <1>4, <1>5, <1>8 DEF WorseMonths, s, t

(* The order in which the months are listed does not matter when each is      *)
(* listed once.                                                               *)
LEMMA SortedReversed ==
  ASSUME NEW p \in Seq(Month), \A i, j \in DOMAIN p : p[i].periodo = p[j].periodo => i = j
  PROVE  SortHistoricalPeriods([i \in DOMAIN p |-> p[Len(p) + 1 - i]])
           = SortHistoricalPeriods(p)
<1> DEFINE D == DOMAIN p
           n == Len(p)
           r == [i \in D |-> n + 1 - i]
           q == [i \in D |-> p[r[i]]]
           s == SortHistoricalPeriods(p)
           t == SortHistoricalPeriods(q)
           f == Places(p)
           g == Places(q)
           E(j) == {i \in D : p[i].periodo < p[j].periodo}
<1>1. D = 1..n /\ n \in Nat /\ IsFiniteSet(D)
  BY SeqFinite
<1>2. /\ \A i \in D : r[i] \in D /\ r[r[i]] = i
      /\ \A i, j \in D : r[i] = r[j] => i = j
  <2> HIDE DEF D, n
  <2> QED BY <1>1
<1>3. \A i \in D : p[i] \in Month
  <2>1. DOMAIN p = D
    OBVIOUS
  <2> HIDE DEF D
  <2> QED BY <2>1
<1>4. \A i \in D : p[i].periodo \in Int
  BY <1>3 DEF Month
<1>5. q \in Seq(Month) /\ DOMAIN q = D /\ Len(q) = n
  <2> HIDE DEF D, n, r
  <2>1. q \in [1..n -> Month] /\ DOMAIN q = D
    BY <1>1, <1>2, <1>3
  <2> QED BY <1>1, <2>1
<1>6. \A i \in D : q[i] = p[r[i]] /\ q[i].periodo \in Int
  <2> HIDE DEF D, n, r
  <2> QED BY <1>2, <1>4
<1>7. \A i, j \in D : p[i].periodo = p[j].periodo => i = j
  OBVIOUS
<1>8. \A j \in D : f[j] = Cardinality(E(j)) + 1
  <2> SUFFICES ASSUME NEW j \in D PROVE f[j] = Cardinality(E(j)) + 1
    OBVIOUS
  <2>1. {i \in D : IF i < j THEN p[i].periodo <= p[j].periodo
                   ELSE p[i].periodo < p[j].periodo} = E(j)
    <3> HIDE DEF D, n
    <3> QED BY <1>1, <1>4, <1>7
  <2>2. f[j] = Cardinality({i \in D : IF i < j THEN p[i].periodo <= p[j].periodo
                                      ELSE p[i].periodo < p[j].periodo}) + 1
    BY DEF Places
  <2> QED BY <2>1, <2>2
<1>9. \A j \in D : g[j] = Cardinality({r[i] : i \in E(r[j])}) + 1
  <2> SUFFICES ASSUME NEW j \in D PROVE g[j] = Cardinality({r[i] : i \in E(r[j])}) + 1
    OBVIOUS
  <2>1. {i \in D : IF i < j THEN q[i].periodo <= q[j].periodo
                   ELSE q[i].periodo < q[j].periodo} = {i \in D : q[i].periodo < q[j].periodo}
    <3>1. \A i \in D : q[i].periodo = q[j].periodo => i = j
      <4> HIDE DEF D, n, r, q
      <4> QED BY <1>2, <1>6, <1>7
    <3> HIDE DEF D, n, r, q
    <3> QED BY <1>1, <1>6, <3>1
  <2>2. {i \in D : q[i].periodo < q[j].periodo} = {r[i] : i \in E(r[j])}
    <3> HIDE DEF D, n, r, q
    <3>1. \A i \in D : q[i].periodo < q[j].periodo <=> r[i] \in E(r[j])
      BY <1>2, <1>6
    <3> QED BY <1>2, <3>1
  <2>3. g[j] = Cardinality({i \in D : IF i < j THEN q[i].periodo <= q[j].periodo
                                      ELSE q[i].periodo < q[j].periodo}) + 1
    <3> HIDE DEF D, n, r, q
    <3> QED BY <1>5 DEF Places
  <2> QED BY <2>1, <2>2, <2>3
<1>10. \A j \in D : g[j] = f[r[j]]
  <2> SUFFICES ASSUME NEW j \in D PROVE g[j] = f[r[j]]
    OBVIOUS
  <2> DEFINE A == E(r[j])
  <2>1. A \subseteq D
    OBVIOUS
  <2> HIDE DEF D, n, r, q, E, A, f, g
  <2>2. IsFiniteSet(A) /\ (\A x, y \in A : r[x] = r[y] => x = y)
    BY <1>1, <1>2, <2>1, FS_Subset
  <2>3. Cardinality({r[i] : i \in A}) = Cardinality(A)
    <3> DEFINE H == {r[i] : i \in A}
    <3>1. H = {r[x] : x \in A}
      OBVIOUS
    <3> HIDE DEF H
    <3>2. Cardinality(H) = Cardinality(A)
      BY <2>2, <3>1, ImageSize
    <3> QED BY <3>2 DEF H
  <2>4. f[r[j]] = Cardinality(A) + 1
    BY <1>2, <1>8 DEF A
  <2>5. g[j] = Cardinality({r[i] : i \in A}) + 1
    BY <1>9 DEF A
  <2> QED BY <2>3, <2>4, <2>5
<1>11. /\ DOMAIN s = D /\ \A j \in D : s[f[j]] = p[j]
  BY <1>4, SortedAt
<1>12. /\ DOMAIN t = D /\ \A j \in D : t[g[j]] = q[j]
  <2> HIDE DEF D, n, r, q, f, g
  <2>1. /\ DOMAIN t = DOMAIN q /\ \A j \in DOMAIN q : t[Places(q)[j]] = q[j]
    BY <1>5, <1>6, SortedAt
  <2> QED BY <1>5, <2>1 DEF g
<1>13. \A k \in D : \E j \in D : f[j] = k
  BY <1>4, PlacesPermute
<1>14. s = [k \in D |-> s[k]] /\ t = [k \in D |-> t[k]]
  <2>1. s = [k \in D |-> s[k]]
    BY DEF SortHistoricalPeriods
  <2>2. t = [k \in D |-> t[k]]
    <3> HIDE DEF D, n, r, q
    <3> QED BY <1>5 DEF SortHistoricalPeriods
  <2> QED BY <2>1, <2>2
<1>15. q = [i \in DOMAIN p |-> p[Len(p) + 1 - i]]
  <2> HIDE DEF D, n
  <2>1. \A i \in D : r[i] = n + 1 - i
    OBVIOUS
  <2> QED BY <2>1 DEF D, n
<1> HIDE DEF D, n, r, q, s, t, f, g, E
<1>16. ASSUME NEW k \in D PROVE t[k] = s[k]
  <2>1. PICK j \in D : f[j] = k
    BY <1>13
  <2>2. r[j] \in D /\ r[r[j]] = j /\ g[r[j]] = k
    BY <1>2, <1>10, <2>1
  <2>3. t[k] = q[r[j]] /\ s[k] = p[j]
    BY <1>11, <1>12, <2>1, <2>2
  <2> QED BY <1>6, <2>2, <2>3
<1>17. t = s
  BY <1>14, <1>16
<1> QED BY <1>15, <1>17 DEF s, t

----------------------------------------------------------------------------
(* The reports that say something worse of a debtor. *)

(* A pair of answers in which BCRA lists a month once. *)
MonthsListedOnce(historical) ==
  \A i, j \in DOMAIN historical.periodos :
    historical.periodos[i].periodo = historical.periodos[j].periodo => i = j

(* A month of the answer with the latest ones. *)
LatestMonth == [valid : BOOLEAN, entidades : Seq(Debt)]

(* A debt in a worse situation, more days late or flagged. *)
LEMMA WorseEntityIsWorse ==
  ASSUME NEW e \in Debt, NEW x \in WorseEntity(e)
  PROVE  /\ x \in Debt /\ x.monto = e.monto /\ e.situacion <= x.situacion
         /\ e.dias <= x.dias /\ e.flags \subseteq x.flags
<1> DEFINE Changed(s, d, f) == [situacion |-> s, monto |-> e.monto, dias |-> d, flags |-> f]
           FF == HardFlags \union SoftFlags
<1>1. e.situacion \in Nat /\ e.monto \in Nat /\ e.dias \in Nat /\ e.flags \in SUBSET FF
  BY DEF Debt
<1>2. \/ x = Changed(e.situacion + 1, e.dias, e.flags)
      \/ x = Changed(e.situacion, e.dias + 30, e.flags)
      \/ \E f \in FF : x = Changed(e.situacion, e.dias, e.flags \union {f})
  BY DEF WorseEntity, Debt
<1>3. Debt = [situacion : Nat, monto : Nat, dias : Nat, flags : SUBSET FF]
  BY DEF Debt
<1> HIDE DEF FF
<1>4. CASE x = Changed(e.situacion + 1, e.dias, e.flags)
  BY <1>1, <1>3, <1>4
<1>5. CASE x = Changed(e.situacion, e.dias + 30, e.flags)
  BY <1>1, <1>3, <1>5
<1>6. CASE \E f \in FF : x = Changed(e.situacion, e.dias, e.flags \union {f})
  BY <1>1, <1>3, <1>6
<1> QED BY <1>2, <1>4, <1>5, <1>6

(* Debts are no better than themselves. *)
LEMMA WorseDebtsReflexive ==
  ASSUME NEW es \in Seq(Debt)
  PROVE  WorseDebts(es, es)
<1>1. \A i \in DOMAIN es : es[i] \in Debt
  <2> DEFINE V == Debt
  <2> HIDE DEF V
  <2>1. es \in Seq(V)
    BY DEF V
  <2>2. \A i \in DOMAIN es : es[i] \in V
    BY <2>1
  <2> QED BY <2>2 DEF V
<1>2. \A i \in DOMAIN es : es[i].situacion <= es[i].situacion /\ es[i].dias <= es[i].dias
  BY <1>1 DEF Debt
<1> QED BY <1>2 DEF WorseDebts

(* One debt of a list in a worse state. *)
LEMMA OneWorseDebt ==
  ASSUME NEW es \in Seq(Debt), NEW i \in DOMAIN es, NEW x \in WorseEntity(es[i])
  PROVE  /\ [es EXCEPT ![i] = x] \in Seq(Debt)
         /\ WorseDebts(es, [es EXCEPT ![i] = x])
<1> DEFINE fs == [es EXCEPT ![i] = x]
           n == Len(es)
<1>1. \A j \in DOMAIN es : es[j] \in Debt
  BY WorseDebtsReflexive
<1>2. /\ x \in Debt /\ x.monto = es[i].monto /\ es[i].situacion <= x.situacion
      /\ es[i].dias <= x.dias /\ es[i].flags \subseteq x.flags
  BY <1>1, WorseEntityIsWorse
<1>3. n \in Nat /\ DOMAIN es = 1..n /\ DOMAIN fs = 1..n
  OBVIOUS
<1>4. \A j \in 1..n : fs[j] = IF j = i THEN x ELSE es[j]
  BY <1>3
<1>5. fs = [j \in 1..n |-> fs[j]]
  BY <1>3
<1> HIDE DEF fs, n
<1>6. \A j \in 1..n : fs[j] \in Debt
  BY <1>1, <1>2, <1>3, <1>4
<1>7. fs \in Seq(Debt) /\ Len(fs) = n
  <2> DEFINE V == Debt
  <2>1. \A j \in 1..n : fs[j] \in V
    BY <1>6
  <2> HIDE DEF V
  <2>2. fs \in [1..n -> V]
    BY <1>5, <2>1
  <2>3. fs \in Seq(V) /\ Len(fs) = n
    BY <1>3, <2>2
  <2> QED BY <2>3 DEF V
<1>8. \A j \in DOMAIN es : /\ fs[j].monto = es[j].monto
                           /\ es[j].situacion <= fs[j].situacion
                           /\ es[j].dias <= fs[j].dias
                           /\ es[j].flags \subseteq fs[j].flags
  <2>1. WorseDebts(es, es)
    BY WorseDebtsReflexive
  <2> QED BY <1>2, <1>3, <1>4, <2>1 DEF WorseDebts
<1> QED BY <1>7, <1>8 DEF WorseDebts, fs, n

(* The month the score reads is one of the answer's. *)
LEMMA DatedMonth ==
  ASSUME NEW latest \in LatestAnswer, NEW historical,
         ClassifyBcraResponses(latest, historical) = "SUCCESS"
  PROVE  LET ps    == latest.periodos
             dated == {j \in DOMAIN ps : ps[j].valid}
         IN  /\ latest = [ok |-> latest.ok, periodos |-> ps]
             /\ \A j \in DOMAIN ps : ps[j] \in LatestMonth
             /\ 1 \in DOMAIN ps /\ Min(dated) \in DOMAIN ps
             /\ Entidades(latest) \in Seq(Debt)
<1> DEFINE ps == latest.periodos
           D == DOMAIN ps
           dated == {j \in D : ps[j].valid}
           first == Min(dated)
<1>1. /\ latest = [ok |-> latest.ok, periodos |-> ps]
      /\ ps \in Seq(LatestMonth)
  BY DEF LatestAnswer, LatestMonth, Debt
<1>2. /\ D = 1..Len(ps) /\ Len(ps) \in Nat
      /\ \A j \in D : ps[j] \in LatestMonth
  <2> DEFINE V == LatestMonth
  <2> HIDE DEF V, ps
  <2>1. ps \in Seq(V)
    BY <1>1 DEF V
  <2>2. /\ D = 1..Len(ps) /\ Len(ps) \in Nat /\ \A j \in D : ps[j] \in V
    BY <2>1
  <2> QED BY <2>2 DEF V
<1>3. ps # <<>> /\ dated # {}
  BY DEF ClassifyBcraResponses
<1>4. 1 \in D
  <2> HIDE DEF ps
  <2> QED BY <1>1, <1>2, <1>3
<1>5. first \in dated
  <2>1. dated \in SUBSET Nat
    <3> HIDE DEF ps
    <3> QED BY <1>2
  <2> HIDE DEF dated
  <2>2. PICK m \in dated : \A j \in dated : m <= j
    BY <1>3, <2>1, LeastNatural
  <2>3. dated \subseteq Int
    BY <2>1
  <2>4. Min(dated) = m
    BY <2>2, <2>3, MinIs
  <2> QED BY <2>2, <2>4
<1>6. Entidades(latest) = ps[first].entidades
  BY DEF Entidades
<1>7. Entidades(latest) \in Seq(Debt)
  <2> HIDE DEF ps, first
  <2> QED BY <1>2, <1>5, <1>6 DEF LatestMonth
<1> QED BY <1>1, <1>2, <1>4, <1>5, <1>7

(* The debts of a latest month in which one is in a worse state. *)
LEMMA WorseLatestIsWorse ==
  ASSUME NEW latest \in LatestAnswer, NEW historical,
         ClassifyBcraResponses(latest, historical) = "SUCCESS",
         NEW worse \in WorseLatest(latest)
  PROVE  /\ Entidades(worse) \in Seq(Debt)
         /\ WorseDebts(Entidades(latest), Entidades(worse))
<1> DEFINE ps == latest.periodos
           D == DOMAIN ps
           dated == {j \in D : ps[j].valid}
           first == Min(dated)
           p == ps[1]
           es == p.entidades
<1>1. /\ latest = [ok |-> latest.ok, periodos |-> ps]
      /\ \A j \in D : ps[j] \in LatestMonth
      /\ 1 \in D /\ first \in D
      /\ Entidades(latest) \in Seq(Debt)
  BY DatedMonth
<1>2. Entidades(latest) = ps[first].entidades
  BY DEF Entidades
<1>3. p = [valid |-> p.valid, entidades |-> es] /\ es \in Seq(Debt)
  <2>1. p \in LatestMonth
    BY <1>1
  <2> HIDE DEF p
  <2> QED BY <2>1 DEF LatestMonth
<1>4. PICK i \in DOMAIN es : \E x \in WorseEntity(es[i]) :
        worse = [latest EXCEPT !.periodos[1].entidades[i] = x]
  BY DEF WorseLatest
<1>5. PICK x \in WorseEntity(es[i]) : worse = [latest EXCEPT !.periodos[1].entidades[i] = x]
  BY <1>4
<1> DEFINE fs == [es EXCEPT ![i] = x]
           q == [valid |-> p.valid, entidades |-> fs]
           qs == [ps EXCEPT ![1] = q]
<1>6. worse = [ok |-> latest.ok, periodos |-> qs]
  <2>1. worse = [latest EXCEPT !.periodos = [ps EXCEPT ![1] = [p EXCEPT !.entidades = fs]]]
    BY <1>5
  <2>2. [p EXCEPT !.entidades = fs] = q
    <3> HIDE DEF fs, p
    <3>1. \A r \in {[valid |-> v, entidades |-> y] : v \in {p.valid}, y \in {es}} :
            [r EXCEPT !.entidades = fs] = [valid |-> r.valid, entidades |-> fs]
      OBVIOUS
    <3> QED BY <1>3, <3>1
  <2> HIDE DEF q, p, fs
  <2>3. worse = [latest EXCEPT !.periodos = qs]
    BY <2>1, <2>2
  <2> HIDE DEF qs, ps
  <2> QED BY <1>1, <2>3
<1>7. /\ DOMAIN qs = D
      /\ \A j \in D : qs[j] = IF j = 1 THEN q ELSE ps[j]
  BY <1>1
<1>8. fs \in Seq(Debt) /\ WorseDebts(es, fs)
  <2> HIDE DEF es, fs
  <2> QED BY <1>3, OneWorseDebt DEF fs
<1> HIDE DEF fs, p, es
<1>9. worse.periodos = qs
  BY <1>6
<1> HIDE DEF qs, ps, q
<1>10. Entidades(worse) = qs[first].entidades
  <2>1. \A j \in D : qs[j].valid = ps[j].valid
    BY <1>7 DEF q, p
  <2>2. {j \in DOMAIN qs : qs[j].valid} = dated
    BY <1>7, <2>1
  <2> QED BY <1>9, <2>2 DEF Entidades
<1>11. CASE first = 1
  <2>1. Entidades(latest) = es /\ Entidades(worse) = fs
    BY <1>1, <1>2, <1>7, <1>10, <1>11 DEF p, es, q
  <2> QED BY <1>8, <2>1
<1>12. CASE first # 1
  <2>1. Entidades(worse) = Entidades(latest)
    BY <1>1, <1>2, <1>7, <1>10, <1>12
  <2> QED BY <1>1, <2>1, WorseDebtsReflexive
<1> QED BY <1>11, <1>12

(* A debt of a month before. *)
PastDebt == [situacion : Nat, monto : Nat]

(* A month whose debts are each as large as and no better than another's. *)
LEMMA MonthOrder ==
  ASSUME NEW m \in Month, NEW w \in Month, DOMAIN w.entidades = DOMAIN m.entidades,
         \A i \in DOMAIN m.entidades :
           /\ m.entidades[i].situacion <= w.entidades[i].situacion
           /\ m.entidades[i].monto <= w.entidades[i].monto
  PROVE  PeriodWorst(m) <= PeriodWorst(w) /\ DebtTotal(m) <= DebtTotal(w)
<1> DEFINE es == m.entidades
           fs == w.entidades
           D == DOMAIN es
           A == [i \in D |-> es[i].situacion]
           B == [i \in D |-> fs[i].situacion]
           M == [i \in D |-> es[i].monto]
           N == [i \in D |-> fs[i].monto]
<1>1. es \in Seq(PastDebt) /\ fs \in Seq(PastDebt) /\ DOMAIN fs = D
  BY DEF Month, PastDebt
<1>2. IsFiniteSet(D)
  BY <1>1, SeqFinite
<1>3. \A i \in D : /\ A[i] \in Nat /\ B[i] \in Nat /\ A[i] <= B[i]
                   /\ M[i] \in Nat /\ N[i] \in Nat /\ M[i] <= N[i]
  <2>1. \A i \in D : es[i] \in PastDebt /\ fs[i] \in PastDebt
    <3> DEFINE V == PastDebt
    <3>1. es \in Seq(V) /\ fs \in Seq(V) /\ DOMAIN fs = DOMAIN es
      BY <1>1
    <3> HIDE DEF es, fs, V
    <3>2. \A i \in DOMAIN es : es[i] \in V /\ fs[i] \in V
      BY <3>1
    <3> QED BY <3>2 DEF V
  <2> QED BY <2>1 DEF PastDebt
<1>4. PeriodWorst(m) = Top(A, D) /\ PeriodWorst(w) = Top(B, D)
  <2>1. {es[i].situacion : i \in DOMAIN es} = {A[i] : i \in D}
    OBVIOUS
  <2>2. {fs[i].situacion : i \in DOMAIN fs} = {B[i] : i \in D}
    BY <1>1
  <2> QED BY <2>1, <2>2 DEF PeriodWorst, Largest, Top
<1>5. DebtTotal(m) = SumOn(M, D) /\ DebtTotal(w) = SumOn(N, D)
  BY <1>1 DEF DebtTotal, SumOver
<1> HIDE DEF A, B, M, N, D
<1>6. Top(A, D) <= Top(B, D)
  BY <1>2, <1>3, LargestOrder
<1>7. SumOn(M, D) <= SumOn(N, D)
  BY <1>2, <1>3, SumOrder
<1> QED BY <1>4, <1>5, <1>6, <1>7

(* A month whose first debt is in a worse state or larger. *)
LEMMA FirstDebtWorse ==
  ASSUME NEW m \in Month, NEW x \in PastDebt, 1 \in DOMAIN m.entidades,
         m.entidades[1].situacion <= x.situacion, m.entidades[1].monto <= x.monto
  PROVE  LET w == [periodo |-> m.periodo, entidades |-> [m.entidades EXCEPT ![1] = x]]
         IN  /\ w \in Month
             /\ PeriodWorst(m) <= PeriodWorst(w) /\ DebtTotal(m) <= DebtTotal(w)
             /\ x.monto = m.entidades[1].monto => DebtTotal(w) = DebtTotal(m)
<1> DEFINE es == m.entidades
           fs == [es EXCEPT ![1] = x]
           w == [periodo |-> m.periodo, entidades |-> fs]
           v == [periodo |-> m.periodo,
                 entidades |-> [i \in DOMAIN es |->
                                  [situacion |-> 0, monto |-> es[i].monto]]]
<1>1. es \in Seq(PastDebt) /\ m.periodo \in Nat
  BY DEF Month, PastDebt
<1>2. \A i \in DOMAIN es : es[i] \in PastDebt
  <2> DEFINE V == PastDebt
  <2>1. es \in Seq(V)
    BY <1>1
  <2> HIDE DEF es, V
  <2>2. \A i \in DOMAIN es : es[i] \in V
    BY <2>1
  <2> QED BY <2>2 DEF V
<1>3. /\ fs \in Seq(PastDebt) /\ DOMAIN fs = DOMAIN es
      /\ \A i \in DOMAIN es : fs[i] = IF i = 1 THEN x ELSE es[i]
  <2> DEFINE o == 1
  <2>1. es \in Seq(PastDebt) /\ x \in PastDebt /\ o \in DOMAIN es
    BY <1>1
  <2> HIDE DEF es, o
  <2>2. /\ [es EXCEPT ![o] = x] \in Seq(PastDebt) /\ DOMAIN [es EXCEPT ![o] = x] = DOMAIN es
        /\ \A i \in DOMAIN es : [es EXCEPT ![o] = x][i] = IF i = o THEN x ELSE es[i]
    BY <2>1, SeqWith
  <2> QED BY <2>2 DEF o
<1> HIDE DEF fs
<1>4. w \in Month /\ w.entidades = fs
  BY <1>1, <1>3 DEF Month, PastDebt
<1>5. \A i \in DOMAIN es : /\ es[i].situacion <= fs[i].situacion
                           /\ es[i].monto <= fs[i].monto
  <2> SUFFICES ASSUME NEW i \in DOMAIN es
               PROVE  es[i].situacion <= fs[i].situacion /\ es[i].monto <= fs[i].monto
    OBVIOUS
  <2>1. CASE i = 1
    BY <1>3, <2>1
  <2>2. CASE i # 1
    <3>1. fs[i] = es[i] /\ es[i] \in PastDebt
      BY <1>2, <1>3, <2>2
    <3> QED BY <3>1 DEF PastDebt
  <2> QED BY <2>1, <2>2
<1> HIDE DEF w
<1>6. PeriodWorst(m) <= PeriodWorst(w) /\ DebtTotal(m) <= DebtTotal(w)
  BY <1>3, <1>4, <1>5, MonthOrder
<1>7. ASSUME x.monto = es[1].monto PROVE DebtTotal(w) = DebtTotal(m)
  <2> DEFINE M == [i \in DOMAIN es |-> es[i].monto]
             N == [i \in DOMAIN fs |-> fs[i].monto]
  <2>1. \A i \in DOMAIN es : fs[i].monto = es[i].monto
    BY <1>3, <1>7
  <2>2. M = N /\ DOMAIN es = DOMAIN fs
    BY <1>3, <2>1
  <2>3. DebtTotal(m) = SumOn(M, DOMAIN es)
    BY DEF DebtTotal, SumOver
  <2>4. DebtTotal(w) = SumOn(N, DOMAIN fs)
    BY <1>4 DEF DebtTotal, SumOver
  <2> QED BY <2>2, <2>3, <2>4
<1> QED BY <1>4, <1>6, <1>7 DEF w, fs

(* Months of which one is worse. *)
LEMMA OneWorseMonth ==
  ASSUME NEW ps \in Seq(Month), NEW i \in DOMAIN ps, NEW w \in Month,
         w.periodo = ps[i].periodo,
         PeriodWorst(ps[i]) <= PeriodWorst(w), DebtTotal(ps[i]) <= DebtTotal(w),
         \/ DebtTotal(w) = DebtTotal(ps[i])
         \/ \A j \in DOMAIN ps \ {i} : ps[j].periodo < ps[i].periodo
  PROVE  [ps EXCEPT ![i] = w] \in Seq(Month) /\ WorsePeriods(ps, [ps EXCEPT ![i] = w])
<1> DEFINE qs == [ps EXCEPT ![i] = w]
           D == DOMAIN ps
<1>1. /\ qs \in Seq(Month) /\ DOMAIN qs = D /\ Len(qs) = Len(ps)
      /\ \A j \in D : ps[j] \in Month /\ qs[j] = IF j = i THEN w ELSE ps[j]
  <2> DEFINE V == Month
  <2>1. ps \in Seq(V) /\ w \in V
    OBVIOUS
  <2> HIDE DEF V
  <2>2. /\ qs \in Seq(V) /\ DOMAIN qs = D /\ Len(qs) = Len(ps)
        /\ \A j \in D : ps[j] \in V /\ qs[j] = IF j = i THEN w ELSE ps[j]
    BY <2>1
  <2> QED BY <2>2 DEF V
<1> HIDE DEF qs
<1>2. \A j \in D : PeriodWorst(ps[j]) \in Nat /\ DebtTotal(ps[j]) \in Nat
  BY <1>1, MonthNumbers
<1>3. \A j \in D :
        /\ qs[j].periodo = ps[j].periodo
        /\ PeriodWorst(ps[j]) <= PeriodWorst(qs[j])
        /\ DebtTotal(ps[j]) <= DebtTotal(qs[j])
        /\ \/ DebtTotal(qs[j]) = DebtTotal(ps[j])
           \/ \A k \in D \ {j} : ps[k].periodo < ps[j].periodo
  <2> SUFFICES ASSUME NEW j \in D
      PROVE  /\ qs[j].periodo = ps[j].periodo
             /\ PeriodWorst(ps[j]) <= PeriodWorst(qs[j])
             /\ DebtTotal(ps[j]) <= DebtTotal(qs[j])
             /\ \/ DebtTotal(qs[j]) = DebtTotal(ps[j])
                \/ \A k \in D \ {j} : ps[k].periodo < ps[j].periodo
    OBVIOUS
  <2>1. CASE j = i
    BY <1>1, <2>1
  <2>2. CASE j # i
    <3>1. qs[j] = ps[j]
      BY <1>1, <2>2
    <3> QED BY <1>2, <3>1
  <2> QED BY <2>1, <2>2
<1> QED BY <1>1, <1>3 DEF WorsePeriods, qs

(* The last month is later than all others. *)
LEMMA LastMonthIsLast ==
  ASSUME NEW ps \in Seq(Month), ps # <<>>,
         \A i, j \in DOMAIN ps : ps[i].periodo = ps[j].periodo => i = j
  PROVE  /\ LastMonth(ps) \in DOMAIN ps
         /\ \A j \in DOMAIN ps \ {LastMonth(ps)} : ps[j].periodo < ps[LastMonth(ps)].periodo
<1> DEFINE D == DOMAIN ps
           f == [j \in D |-> ps[j].periodo]
           S == {f[j] : j \in D}
<1>1. \A j \in D : ps[j].periodo \in Nat
  <2> DEFINE V == Month
  <2>1. ps \in Seq(V)
    OBVIOUS
  <2> HIDE DEF V
  <2>2. \A j \in D : ps[j] \in V
    BY <2>1
  <2> QED BY <2>2 DEF V, Month
<1>2. IsFiniteSet(D) /\ D # {}
  <2>1. D = 1..Len(ps) /\ Len(ps) \in Nat /\ Len(ps) # 0
    OBVIOUS
  <2>2. D # {}
    BY <2>1
  <2> QED BY <2>2, SeqFinite
<1>3. S \subseteq Int /\ S # {}
  BY <1>1, <1>2
<1>4. IsFiniteSet(S)
  <2> HIDE DEF D, f
  <2> QED BY <1>2, ImageFinite
<1>5. Max(S) \in S /\ \A y \in S : y <= Max(S)
  <2> HIDE DEF S
  <2> QED BY <1>3, <1>4, MaxOf
<1>6. PICK k \in D : \A j \in D : ps[j].periodo <= ps[k].periodo
  <2>1. PICK k \in D : f[k] = Max(S)
    BY <1>5
  <2>2. \A j \in D : f[j] <= Max(S)
    BY <1>5
  <2> HIDE DEF S
  <2>3. \A j \in D : ps[j].periodo <= ps[k].periodo
    BY <2>1, <2>2
  <2> QED BY <2>3
<1> DEFINE l == LastMonth(ps)
<1>7. l \in D /\ \A j \in D : ps[j].periodo <= ps[l].periodo
  BY <1>6 DEF LastMonth
<1> HIDE DEF l
<1>8. \A j \in D \ {l} : ps[j].periodo < ps[l].periodo
  BY <1>1, <1>7
<1> QED BY <1>7, <1>8 DEF l

(* A month of a sequence whose first debt is in a worse state or larger. *)
LEMMA FirstDebtOfMonth ==
  ASSUME NEW ps \in Seq(Month), NEW i \in DOMAIN ps, NEW x, NEW qs,
         qs = [ps EXCEPT ![i] = [ps[i] EXCEPT !.entidades = [ps[i].entidades EXCEPT ![1] = x]]],
         1 \in DOMAIN ps[i].entidades =>
           /\ x \in PastDebt
           /\ ps[i].entidades[1].situacion <= x.situacion
           /\ ps[i].entidades[1].monto <= x.monto
           /\ \/ x.monto = ps[i].entidades[1].monto
              \/ \A j \in DOMAIN ps \ {i} : ps[j].periodo < ps[i].periodo
  PROVE  qs \in Seq(Month) /\ WorsePeriods(ps, qs)
<1> DEFINE m == ps[i]
           es == m.entidades
           fs == [es EXCEPT ![1] = x]
           w == [periodo |-> m.periodo, entidades |-> fs]
<1>1. m \in Month
  <2> DEFINE V == Month
  <2>1. ps \in Seq(V)
    OBVIOUS
  <2> HIDE DEF V
  <2>2. m \in V
    BY <2>1
  <2> QED BY <2>2 DEF V
<1>2. m = [periodo |-> m.periodo, entidades |-> es] /\ es \in Seq(PastDebt)
  <2> HIDE DEF m
  <2> QED BY <1>1 DEF Month, PastDebt
<1>3. [m EXCEPT !.entidades = fs] = w
  <2> HIDE DEF fs, m
  <2>1. \A r \in {[periodo |-> v, entidades |-> y] : v \in {m.periodo}, y \in {es}} :
          [r EXCEPT !.entidades = fs] = [periodo |-> r.periodo, entidades |-> fs]
    OBVIOUS
  <2> QED BY <1>2, <2>1
<1>4. /\ w \in Month /\ w.periodo = m.periodo
      /\ PeriodWorst(m) <= PeriodWorst(w) /\ DebtTotal(m) <= DebtTotal(w)
      /\ \/ DebtTotal(w) = DebtTotal(m)
         \/ \A j \in DOMAIN ps \ {i} : ps[j].periodo < ps[i].periodo
  <2>1. CASE 1 \in DOMAIN es
    <3>1. /\ x \in PastDebt /\ es[1].situacion <= x.situacion /\ es[1].monto <= x.monto
          /\ \/ x.monto = es[1].monto
             \/ \A j \in DOMAIN ps \ {i} : ps[j].periodo < ps[i].periodo
      BY <2>1
    <3> HIDE DEF m
    <3>2. /\ w \in Month
          /\ PeriodWorst(m) <= PeriodWorst(w) /\ DebtTotal(m) <= DebtTotal(w)
          /\ x.monto = es[1].monto => DebtTotal(w) = DebtTotal(m)
      BY <1>1, <2>1, <3>1, FirstDebtWorse
    <3>3. w.periodo = m.periodo
      OBVIOUS
    <3> QED BY <3>1, <3>2, <3>3
  <2>2. CASE 1 \notin DOMAIN es
    <3>1. fs = es
      <4> HIDE DEF es
      <4> QED BY <1>2, <2>2
    <3> HIDE DEF fs, es, m
    <3>2. w = m
      BY <1>2, <3>1
    <3>3. PeriodWorst(m) \in Nat /\ DebtTotal(m) \in Nat
      BY <1>1, MonthNumbers
    <3> HIDE DEF w
    <3> QED BY <1>1, <3>2, <3>3
  <2> QED BY <2>1, <2>2
<1>5. qs = [ps EXCEPT ![i] = w]
  BY <1>3
<1> HIDE DEF w
<1>6. /\ w.periodo = ps[i].periodo
      /\ PeriodWorst(ps[i]) <= PeriodWorst(w) /\ DebtTotal(ps[i]) <= DebtTotal(w)
      /\ \/ DebtTotal(w) = DebtTotal(ps[i])
         \/ \A j \in DOMAIN ps \ {i} : ps[j].periodo < ps[i].periodo
  BY <1>4
<1>7. [ps EXCEPT ![i] = w] \in Seq(Month) /\ WorsePeriods(ps, [ps EXCEPT ![i] = w])
  BY <1>4, <1>6, OneWorseMonth
<1> QED BY <1>5, <1>7

(* A month whose first debt was in a worse situation, or a last month in     *)
(* which it has grown.                                                        *)
LEMMA WorseHistoricalIsWorse ==
  ASSUME NEW historical \in HistoricalAnswer, MonthsListedOnce(historical),
         NEW worse \in WorseHistorical(historical)
  PROVE  worse.periodos \in Seq(Month) /\ WorsePeriods(historical.periodos, worse.periodos)
<1> DEFINE ps == historical.periodos
<1>1. /\ historical = [ok |-> historical.ok, periodos |-> ps] /\ ps \in Seq(Month)
      /\ \A i, j \in DOMAIN ps : ps[i].periodo = ps[j].periodo => i = j
  BY DEF HistoricalAnswer, Month, MonthsListedOnce
<1>2. \A qs : [historical EXCEPT !.periodos = qs].periodos = qs
  <2> HIDE DEF ps
  <2> QED BY <1>1
<1>3. \A i \in DOMAIN ps : 1 \in DOMAIN ps[i].entidades => ps[i].entidades[1] \in PastDebt
  <2>1. \A i \in DOMAIN ps : ps[i] \in Month
    <3> DEFINE V == Month
    <3>1. ps \in Seq(V)
      BY <1>1
    <3> HIDE DEF V, ps
    <3> QED BY <3>1 DEF V
  <2>2. ASSUME NEW m \in Month, 1 \in DOMAIN m.entidades PROVE m.entidades[1] \in PastDebt
    <3> DEFINE es == m.entidades
               o == 1
    <3>1. es \in Seq(PastDebt) /\ o \in DOMAIN es
      BY <2>2 DEF Month, PastDebt
    <3> HIDE DEF es, o
    <3>2. es[o] \in PastDebt
      BY <3>1
    <3> QED BY <3>2 DEF es, o
  <2> QED BY <2>1, <2>2
<1>4. CASE \E i \in DOMAIN ps :
             worse = [historical EXCEPT !.periodos[i].entidades[1].situacion = @ + 1]
  <2>1. PICK i \in DOMAIN ps :
          worse = [historical EXCEPT !.periodos[i].entidades[1].situacion = @ + 1]
    BY <1>4
  <2> DEFINE x == [ps[i].entidades[1] EXCEPT !.situacion = @ + 1]
             qs == [ps EXCEPT ![i] = [ps[i] EXCEPT !.entidades =
                                        [ps[i].entidades EXCEPT ![1] = x]]]
  <2>2. worse = [historical EXCEPT !.periodos = qs]
    BY <2>1
  <2>3. 1 \in DOMAIN ps[i].entidades =>
          /\ x \in PastDebt
          /\ ps[i].entidades[1].situacion <= x.situacion
          /\ ps[i].entidades[1].monto <= x.monto
          /\ x.monto = ps[i].entidades[1].monto
    <3>1. \A e \in PastDebt : LET y == [e EXCEPT !.situacion = @ + 1]
                          IN  y \in PastDebt /\ e.situacion <= y.situacion /\ e.monto <= y.monto
                              /\ y.monto = e.monto
      BY DEF PastDebt
    <3> HIDE DEF ps
    <3> QED BY <1>3, <3>1
  <2> HIDE DEF x
  <2>4. qs = [ps EXCEPT ![i] = [ps[i] EXCEPT !.entidades = [ps[i].entidades EXCEPT ![1] = x]]]
    OBVIOUS
  <2> HIDE DEF qs, ps
  <2>5. qs \in Seq(Month) /\ WorsePeriods(ps, qs)
    BY <1>1, <2>3, <2>4, FirstDebtOfMonth
  <2>6. worse.periodos = qs
    BY <1>2, <2>2
  <2> QED BY <2>5, <2>6 DEF ps
<1>5. CASE \E more \in Nat :
             /\ ps # <<>>
             /\ worse = [historical EXCEPT !.periodos[LastMonth(ps)].entidades[1].monto = @ + more]
  <2> DEFINE i == LastMonth(ps)
  <2>1. PICK more \in Nat :
          /\ ps # <<>>
          /\ worse = [historical EXCEPT !.periodos[i].entidades[1].monto = @ + more]
    BY <1>5
  <2> DEFINE x == [ps[i].entidades[1] EXCEPT !.monto = @ + more]
             qs == [ps EXCEPT ![i] = [ps[i] EXCEPT !.entidades =
                                        [ps[i].entidades EXCEPT ![1] = x]]]
  <2> HIDE DEF i
  <2>2. worse = [historical EXCEPT !.periodos = qs]
    BY <2>1
  <2>3. i \in DOMAIN ps /\ \A j \in DOMAIN ps \ {i} : ps[j].periodo < ps[i].periodo
    BY <1>1, <2>1, LastMonthIsLast DEF i
  <2>4. 1 \in DOMAIN ps[i].entidades =>
          /\ x \in PastDebt
          /\ ps[i].entidades[1].situacion <= x.situacion
          /\ ps[i].entidades[1].monto <= x.monto
    <3>1. \A e \in PastDebt : LET y == [e EXCEPT !.monto = @ + more]
                          IN  y \in PastDebt /\ e.situacion <= y.situacion /\ e.monto <= y.monto
      BY DEF PastDebt
    <3> HIDE DEF ps
    <3> QED BY <1>3, <2>3, <3>1
  <2> HIDE DEF x
  <2>5. qs = [ps EXCEPT ![i] = [ps[i] EXCEPT !.entidades = [ps[i].entidades EXCEPT ![1] = x]]]
    OBVIOUS
  <2> HIDE DEF qs, ps
  <2>6. qs \in Seq(Month) /\ WorsePeriods(ps, qs)
    BY <1>1, <2>3, <2>4, <2>5, FirstDebtOfMonth
  <2>7. worse.periodos = qs
    BY <1>2, <2>2
  <2> QED BY <2>6, <2>7 DEF ps
<1>6. {1, 10, 40} \subseteq Nat
  OBVIOUS
<1> QED BY <1>4, <1>5, <1>6 DEF WorseHistorical

(* Months are no better than themselves. *)
LEMMA WorseMonthsReflexive ==
  ASSUME NEW a \in Seq(Month)
  PROVE  WorseMonths(a, a)
<1>1. \A i \in DOMAIN a : a[i] \in Month
  <2> DEFINE V == Month
  <2>1. a \in Seq(V)
    OBVIOUS
  <2> HIDE DEF V
  <2>2. \A i \in DOMAIN a : a[i] \in V
    BY <2>1
  <2> QED BY <2>2 DEF V
<1>2. \A i \in DOMAIN a : PeriodWorst(a[i]) \in Nat /\ DebtTotal(a[i]) \in Nat
  BY <1>1, MonthNumbers
<1> QED BY <1>2 DEF WorseMonths

(* The months before, the same, worse or listed in another order. *)
LEMMA PastIsNoBetter ==
  ASSUME NEW historical \in HistoricalAnswer, MonthsListedOnce(historical),
         NEW worse \in {historical} \union WorseHistorical(historical) \union Reordered(historical)
  PROVE  /\ NormalizeHistorical(historical) \in HistoricalNumbers
         /\ NormalizeHistorical(worse) \in HistoricalNumbers
         /\ WorsePast(NormalizeHistorical(historical), NormalizeHistorical(worse))
<1> DEFINE ps == historical.periodos
           a == SortHistoricalPeriods(ps)
           b == SortHistoricalPeriods(worse.periodos)
<1>1. /\ historical = [ok |-> historical.ok, periodos |-> ps] /\ ps \in Seq(Month)
      /\ \A i, j \in DOMAIN ps : ps[i].periodo = ps[j].periodo => i = j
  BY DEF HistoricalAnswer, Month, MonthsListedOnce
<1>2. a \in Seq(Month) /\ WorseMonths(a, a)
  <2> HIDE DEF ps
  <2>1. a \in Seq(Month)
    BY <1>1, SortedMonths
  <2> HIDE DEF a
  <2> QED BY <2>1, WorseMonthsReflexive
<1>3. b \in Seq(Month) /\ WorseMonths(a, b)
  <2>1. CASE worse = historical
    <3>1. b = a
      BY <2>1
    <3> HIDE DEF a, b
    <3> QED BY <1>2, <3>1
  <2>2. CASE worse \in WorseHistorical(historical)
    <3>1. worse.periodos \in Seq(Month) /\ WorsePeriods(ps, worse.periodos)
      BY <2>2, WorseHistoricalIsWorse
    <3> HIDE DEF ps
    <3>2. b \in Seq(Month)
      BY <3>1, SortedMonths
    <3>3. WorseMonths(a, b)
      BY <1>1, <3>1, SortedWorse
    <3> QED BY <3>2, <3>3
  <2>3. CASE worse \in Reordered(historical)
    <3> DEFINE qs == [i \in DOMAIN ps |-> ps[Len(ps) + 1 - i]]
    <3>1. worse = [historical EXCEPT !.periodos = qs]
      BY <2>3 DEF Reordered
    <3> HIDE DEF qs, ps
    <3>2. worse.periodos = qs
      BY <1>1, <3>1
    <3>3. SortHistoricalPeriods(qs) = a
      BY <1>1, SortedReversed DEF qs
    <3>4. b = a
      BY <3>2, <3>3
    <3> HIDE DEF a, b
    <3> QED BY <1>2, <3>4
  <2> QED BY <2>1, <2>2, <2>3
<1>4. a = SortHistoricalPeriods(historical.periodos) /\ b = SortHistoricalPeriods(worse.periodos)
  OBVIOUS
<1> HIDE DEF ps, a, b
<1> QED BY <1>2, <1>3, <1>4, HistoricalOrder

(* The latest month, the same or worse. *)
LEMMA LatestIsNoBetter ==
  ASSUME NEW latest \in LatestAnswer, NEW historical,
         ClassifyBcraResponses(latest, historical) = "SUCCESS",
         NEW worse \in {latest} \union WorseLatest(latest)
  PROVE  /\ NormalizeLatest(latest) \in LatestNumbers
         /\ NormalizeLatest(worse) \in LatestNumbers
         /\ WorseNumbers(NormalizeLatest(latest), NormalizeLatest(worse))
<1>1. Entidades(latest) \in Seq(Debt)
  BY DatedMonth
<1>2. Entidades(worse) \in Seq(Debt) /\ WorseDebts(Entidades(latest), Entidades(worse))
  <2>1. CASE worse = latest
    BY <1>1, <2>1, WorseDebtsReflexive
  <2>2. CASE worse \in WorseLatest(latest)
    BY <2>2, WorseLatestIsWorse
  <2> QED BY <2>1, <2>2
<1> QED BY <1>1, <1>2, LatestOrder

(* No report that says something worse of a debtor scores better. *)
THEOREM WorseReportsScoreNoBetter ==
  ASSUME NEW r \in [latest : LatestAnswer, historical : HistoricalAnswer],
         MonthsListedOnce(r.historical),
         ClassifyBcraResponses(r.latest, r.historical) = "SUCCESS",
         NEW worse \in Worse(r)
  PROVE  Score(worse) <= Score(r)
<1> DEFINE l == r.latest
           h == r.historical
<1>1. r = [latest |-> l, historical |-> h] /\ l \in LatestAnswer /\ h \in HistoricalAnswer
  OBVIOUS
<1>2. PICK m \in {l} \union WorseLatest(l),
           g \in {h} \union WorseHistorical(h) \union Reordered(h) :
        worse = [latest |-> m, historical |-> g]
  <2>1. CASE \E m \in WorseLatest(l) : worse = [r EXCEPT !.latest = m]
    <3>1. PICK m \in WorseLatest(l) : worse = [r EXCEPT !.latest = m]
      BY <2>1
    <3>2. worse = [latest |-> m, historical |-> h]
      <4> HIDE DEF l, h
      <4> QED BY <1>1, <3>1
    <3> QED BY <3>2
  <2>2. CASE \E g \in WorseHistorical(h) \union Reordered(h) : worse = [r EXCEPT !.historical = g]
    <3>1. PICK g \in WorseHistorical(h) \union Reordered(h) : worse = [r EXCEPT !.historical = g]
      BY <2>2
    <3>2. worse = [latest |-> l, historical |-> g]
      <4> HIDE DEF l, h
      <4> QED BY <1>1, <3>1
    <3> QED BY <3>2
  <2> QED BY <2>1, <2>2 DEF Worse
<1>3. MonthsListedOnce(h) /\ ClassifyBcraResponses(l, h) = "SUCCESS"
  OBVIOUS
<1>4. Score(r) = ComputeZcoreBcraV1(NormalizeLatest(l), NormalizeHistorical(h))
      /\ Score(worse) = ComputeZcoreBcraV1(NormalizeLatest(m), NormalizeHistorical(g))
  BY <1>2 DEF Score
<1> HIDE DEF l, h
<1>5. /\ NormalizeLatest(l) \in LatestNumbers /\ NormalizeLatest(m) \in LatestNumbers
      /\ WorseNumbers(NormalizeLatest(l), NormalizeLatest(m))
  BY <1>1, <1>3, LatestIsNoBetter
<1>6. /\ NormalizeHistorical(h) \in HistoricalNumbers /\ NormalizeHistorical(g) \in HistoricalNumbers
      /\ WorsePast(NormalizeHistorical(h), NormalizeHistorical(g))
  BY <1>1, <1>3, PastIsNoBetter
<1> QED BY <1>4, <1>5, <1>6, ScoreFalls

(* The same of the answers a prequalification has in hand. *)
THEOREM DebtorsAreScoredInOrder == Spec => []WorseNeverScoresBetter
<1> DEFINE Asked == report \in Reports \union {NoReport}
<1>1. Init => Asked
  BY DEF Init
<1>2. Asked /\ [Next]_vars => Asked'
  BY DEF Next, vars, RunPrequal, CreateCaseOffer, AcceptOffer, StartContract, EndContract,
         RegistrarDesembolso
<1>3. Asked => WorseNeverScoresBetter
  <2> SUFFICES ASSUME report \in Reports,
                      ClassifyBcraResponses(report.latest, report.historical) = "SUCCESS",
                      NEW worse \in Worse(report)
               PROVE  Score(worse) <= Score(report)
    BY DEF WorseNeverScoresBetter
  <2>1. /\ report \in [latest : LatestAnswer, historical : HistoricalAnswer]
        /\ MonthsListedOnce(report.historical)
    BY CreditAssumption DEF MonthsListedOnce
  <2> QED BY <2>1, WorseReportsScoreNoBetter
<1> QED
  BY <1>1, <1>2, <1>3, PTL DEF Spec

=============================================================================
