-------------------------- MODULE Commission_proofs --------------------------
(***************************************************************************)
(* A sale's row adds up, for every price and every rate.                   *)
(***************************************************************************)
EXTENDS Commission, TLAPS

\* A part of at most 100 % is between nothing and the whole.
LEMMA FloorBounds ==
  ASSUME NEW a \in Nat, NEW r \in 0..Hundred
  PROVE  Floor(a, r) \in 0..a
  <1> DEFINE q == a \div Hundred
             m == a % Hundred
  <1>1. q \in Nat /\ m \in 0..(Hundred - 1) /\ a = Hundred * q + m
    BY DEF Hundred
  <1> HIDE DEF q, m
  <1>2. q * r \in Nat /\ q * r <= Hundred * q
    <2>1. q * r \in Nat
      BY <1>1 DEF Hundred
    <2>2. q * (Hundred - r) \in Nat
      BY <1>1 DEF Hundred
    <2>3. q * (Hundred - r) = Hundred * q - q * r
      BY <1>1 DEF Hundred
    <2> QED
      BY <2>1, <2>2, <2>3, <1>1 DEF Hundred
  <1>3. m * r \in Nat /\ m * r <= Hundred * m
    <2>1. m * r \in Nat
      BY <1>1 DEF Hundred
    <2>2. m * (Hundred - r) \in Nat
      BY <1>1 DEF Hundred
    <2>3. m * (Hundred - r) = Hundred * m - m * r
      BY <1>1 DEF Hundred
    <2> QED
      BY <2>1, <2>2, <2>3, <1>1 DEF Hundred
  <1>4. (m * r) \div Hundred \in 0..m
    <2> DEFINE x == m * r
    <2>1. x \in Nat /\ x <= Hundred * m
      BY <1>3
    <2> HIDE DEF x
    <2>2. x \div Hundred \in 0..m
      BY <2>1, <1>1 DEF Hundred
    <2> QED
      BY <2>2 DEF x
  <1>5. Floor(a, r) = q * r + (m * r) \div Hundred
    BY DEF Floor, q, m
  <1> DEFINE d == (m * r) \div Hundred
             g == q * r
  <1>6. d \in 0..m /\ g \in Nat /\ g <= 10000 * q /\ Floor(a, r) = g + d
    BY <1>2, <1>4, <1>5 DEF Hundred
  <1> HIDE DEF d, g
  <1>7. a = 10000 * q + m /\ q \in Nat /\ m \in Nat
    BY <1>1 DEF Hundred
  <1> QED
    BY <1>6, <1>7

\* So is a share, rounding included.
LEMMA ShareBounds ==
  ASSUME NEW a \in Nat, NEW r \in 0..Hundred, NEW x \in Share(a, r)
  PROVE  x \in 0..a
  <1>1. Floor(a, r) \in 0..a
    BY FloorBounds
  <1>2. x = Floor(a, r) \/ (x = Floor(a, r) - 1 /\ Floor(a, r) > 0)
    BY DEF Share
  <1> QED
    BY <1>1, <1>2

\* The rate applied to a price is a percentage.
LEMMA EffectiveIsRate ==
  ASSUME TypeOK, NEW a \in Nat
  PROVE  EffectivePlatformFeePct(a, rate) \in 0..Hundred
  BY DEF TypeOK, EffectivePlatformFeePct, Hundred, HighValuePlatformFeePct

CommissionInv == TypeOK /\ SplitAddsUp

\* The row of a checkout adds up.
LEMMA CheckoutSafe ==
  ASSUME CommissionInv, NEW s \in Sales, NEW a \in Amounts, NEW p \in {0, link},
         Checkout(s, a, p)
  PROVE  CommissionInv'
  <1> USE DEF CommissionInv
  <1>1. a \in Nat /\ p \in 0..Hundred
    BY CommissionConstants DEF TypeOK, Hundred
  <1>2. PICK fee \in Share(a, EffectivePlatformFeePct(a, rate)), c \in Share(a, p) :
           sale' = [sale EXCEPT ![s] =
                      [amount |-> a, fee |-> fee, link |-> p, closer |-> Clamp(c, a - fee),
                       vendor |-> a - fee - Clamp(c, a - fee)]]
    BY DEF Checkout
  <1>3. fee \in 0..a /\ c \in 0..a
    BY <1>1, EffectiveIsRate, ShareBounds
  <1> DEFINE closer == Clamp(c, a - fee)
  <1>4. closer \in 0..(a - fee)
    BY <1>1, <1>3 DEF Clamp
  <1> HIDE DEF closer
  <1> DEFINE row == [amount |-> a, fee |-> fee, link |-> p, closer |-> closer,
                     vendor |-> a - fee - closer]
  <1>5. row \in [amount: Nat, fee: Nat, link: 0..Hundred, closer: Int, vendor: Int]
    BY <1>1, <1>3, <1>4
  <1>6. /\ row.fee + row.closer + row.vendor = row.amount
        /\ row.fee >= 0 /\ row.closer >= 0 /\ row.vendor >= 0
    BY <1>1, <1>3, <1>4
  <1>7. sale' = [sale EXCEPT ![s] = row]
    BY <1>2 DEF closer
  <1> HIDE DEF row
  <1>8. UNCHANGED <<rate, open, cap, link>>
    BY DEF Checkout
  <1>9. TypeOK'
    BY <1>5, <1>7, <1>8 DEF TypeOK
  <1>10. SplitAddsUp'
    BY <1>6, <1>7 DEF TypeOK, SplitAddsUp
  <1> QED
    BY <1>9, <1>10

\* The settings never make a row wrong: rows keep what they were given.
LEMMA SettingsSafe ==
  ASSUME CommissionInv, NEW r \in Rates, NEW enabled \in BOOLEAN,
         UpdateSettings(r) \/ UpdateCap(r) \/ CreateLink(r) \/ UpdateProduct(enabled, r)
  PROVE  CommissionInv'
  <1>1. r \in Nat
    BY CommissionConstants
  <1>2. TypeOK'
    <2> USE DEF CommissionInv, TypeOK
    <2>h. Hundred \in Nat
      BY DEF Hundred
    <2>1. CASE UpdateSettings(r)
      <3>1. r \in 0..Hundred
        BY <1>1, <2>1, <2>h DEF UpdateSettings
      <3> QED
        BY <2>1, <3>1 DEF UpdateSettings
    <2>2. CASE UpdateCap(r)
      BY <1>1, <2>2 DEF UpdateCap
    <2>3. CASE CreateLink(r)
      <3>1. r \in 0..Hundred
        BY <1>1, <2>3, <2>h DEF CreateLink
      <3> QED
        BY <2>3, <3>1 DEF CreateLink
    <2>4. CASE UpdateProduct(enabled, r)
      BY <1>1, <2>4 DEF UpdateProduct
    <2> QED
      BY <2>1, <2>2, <2>3, <2>4
  <1>3. sale' = sale
    BY DEF UpdateSettings, UpdateCap, CreateLink, UpdateProduct
  <1> QED
    BY <1>2, <1>3 DEF CommissionInv, SplitAddsUp

\* The invariant holds initially.
LEMMA InitSafe == Init => CommissionInv
  <1> SUFFICES ASSUME Init PROVE CommissionInv
    OBVIOUS
  <1>1. /\ NoSale \in [amount: Nat, fee: Nat, link: 0..Hundred, closer: Int, vendor: Int]
        /\ NoSale.fee + NoSale.closer + NoSale.vendor = NoSale.amount
        /\ NoSale.fee >= 0 /\ NoSale.closer >= 0 /\ NoSale.vendor >= 0
    BY DEF NoSale, Hundred
  <1>2. DefaultPlatformFeePct \in 0..Hundred /\ 0 \in 0..Hundred
    BY DEF Hundred, DefaultPlatformFeePct
  <1>3. sale = [s \in Sales |-> NoSale] /\ rate \in 0..Hundred /\ open \in BOOLEAN
        /\ cap \in Nat /\ link \in 0..Hundred
    BY <1>2 DEF Init
  <1> QED
    BY <1>1, <1>3 DEF CommissionInv, TypeOK, SplitAddsUp

\* And it is inductive.
LEMMA NextSafe == CommissionInv /\ [Next]_vars => CommissionInv'
  <1> SUFFICES ASSUME CommissionInv, [Next]_vars PROVE CommissionInv'
    OBVIOUS
  <1>1. CASE UNCHANGED vars
    BY <1>1 DEF CommissionInv, TypeOK, SplitAddsUp, vars
  <1>2. CASE Next
    BY <1>2, CheckoutSafe, SettingsSafe DEF Next
  <1> QED
    BY <1>1, <1>2

\* For every price, every rate an administrator may set and every link, the parts
\* of the platform, the closer and the vendor make up the price and none of them is
\* negative, rounding of doubles included.
THEOREM SplitCorrect == Spec => [](TypeOK /\ SplitAddsUp)
  <1>1. CommissionInv => TypeOK /\ SplitAddsUp
    BY DEF CommissionInv
  <1> QED
    BY <1>1, InitSafe, NextSafe, PTL DEF Spec

\* Types alone: the platform's rate and a link's are percentages in every state,
\* whatever the order of the updates of the settings, the product and the link.
THEOREM TypeCorrect == Spec => []TypeOK
  <1>1. CommissionInv => TypeOK
    BY DEF CommissionInv
  <1> QED
    BY <1>1, InitSafe, NextSafe, PTL DEF Spec

-----------------------------------------------------------------------------
(* The clamp protects the vendor without taking from a closer there is room for *)

\* The remainders of two parts that fit together leave room for both.
LEMMA RemaindersFit ==
  ASSUME NEW m \in Nat, NEW r1 \in 0..Hundred, NEW r2 \in 0..Hundred, r1 + r2 <= Hundred
  PROVE  (m * r1) \div Hundred + (m * r2) \div Hundred <= m
  <1> DEFINE x == m * r1
             y == m * r2
  <1>1. x \in Nat /\ y \in Nat /\ x + y <= Hundred * m
    <2>1. r1 \in Nat /\ r2 \in Nat /\ Hundred - r1 - r2 \in Nat
      BY DEF Hundred
    <2>2. x \in Nat /\ y \in Nat /\ m * (Hundred - r1 - r2) \in Nat
      BY <2>1
    <2>3. m * (Hundred - r1 - r2) = Hundred * m - m * r1 - m * r2
      BY <2>1 DEF Hundred
    <2> QED
      BY <2>2, <2>3 DEF Hundred
  <1> HIDE DEF x, y
  <1>2. x \div Hundred + y \div Hundred <= m
    BY <1>1 DEF Hundred
  <1> QED
    BY <1>2 DEF x, y

\* Two parts whose rates fit together take no more than the whole.
LEMMA FloorsFit ==
  ASSUME NEW a \in Nat, NEW r1 \in 0..Hundred, NEW r2 \in 0..Hundred, r1 + r2 <= Hundred
  PROVE  Floor(a, r1) + Floor(a, r2) <= a
  <1> DEFINE q == a \div Hundred
             m == a % Hundred
  <1>1. q \in Nat /\ m \in Nat /\ a = Hundred * q + m
    BY DEF Hundred
  <1>2. Floor(a, r1) = q * r1 + (m * r1) \div Hundred
        /\ Floor(a, r2) = q * r2 + (m * r2) \div Hundred
    BY DEF Floor
  <1> HIDE DEF q, m
  <1>3. (m * r1) \div Hundred + (m * r2) \div Hundred <= m
    BY <1>1, RemaindersFit
  <1>4. q * r1 + q * r2 <= Hundred * q
    <2>1. r1 \in Nat /\ r2 \in Nat /\ Hundred - r1 - r2 \in Nat
      BY DEF Hundred
    <2>2. q * (Hundred - r1 - r2) \in Nat
      BY <1>1, <2>1
    <2>3. q * (Hundred - r1 - r2) = Hundred * q - q * r1 - q * r2
      BY <1>1, <2>1 DEF Hundred
    <2>4. q * r1 \in Nat /\ q * r2 \in Nat
      BY <1>1, <2>1
    <2> QED
      BY <1>1, <2>2, <2>3, <2>4 DEF Hundred
  <1> DEFINE d1 == (m * r1) \div Hundred
             d2 == (m * r2) \div Hundred
             g1 == q * r1
             g2 == q * r2
  <1>5. d1 \in Int /\ d2 \in Int /\ g1 \in Int /\ g2 \in Int
    <2>1. m * r1 \in Int /\ m * r2 \in Int /\ g1 \in Int /\ g2 \in Int
      BY <1>1
    <2> QED
      BY <2>1 DEF Hundred
  <1>6. d1 + d2 <= m /\ g1 + g2 <= 10000 * q
    BY <1>3, <1>4 DEF Hundred
  <1>7. Floor(a, r1) = g1 + d1 /\ Floor(a, r2) = g2 + d2 /\ a = 10000 * q + m
    BY <1>1, <1>2 DEF Hundred
  <1> HIDE DEF d1, d2, g1, g2
  <1> QED
    BY <1>1, <1>5, <1>6, <1>7

\* Nor do the shares, which rounding only makes smaller.
LEMMA SharesFit ==
  ASSUME NEW a \in Nat, NEW r1 \in 0..Hundred, NEW r2 \in 0..Hundred, r1 + r2 <= Hundred,
         NEW x \in Share(a, r1), NEW y \in Share(a, r2)
  PROVE  x + y <= a
  <1>1. Floor(a, r1) + Floor(a, r2) <= a
    BY FloorsFit
  <1>2. Floor(a, r1) \in Int /\ Floor(a, r2) \in Int
    BY FloorBounds
  <1>3. x \in {Floor(a, r1), Floor(a, r1) - 1} /\ y \in {Floor(a, r2), Floor(a, r2) - 1}
    BY DEF Share
  <1> QED
    BY <1>1, <1>2, <1>3

\* The row of one sale after a step, when rates leave room for each other.
PaidInFull(s) ==
    LET now == sale'[s]
    IN  sale[s] # now /\ EffectivePlatformFeePct(now.amount, rate) + now.link <= Hundred
          => now.closer \in Share(now.amount, now.link)

\* A checkout gives the closer his share: the clamp does not bite.
LEMMA CheckoutPays ==
  ASSUME CommissionInv, NEW s \in Sales, NEW a \in Amounts, NEW p \in {0, link},
         Checkout(s, a, p), NEW t \in Sales
  PROVE  PaidInFull(t)
  <1>1. a \in Nat /\ p \in 0..Hundred
    BY CommissionConstants DEF CommissionInv, TypeOK, Hundred
  <1> DEFINE e == EffectivePlatformFeePct(a, rate)
  <1>2. e \in 0..Hundred
    BY <1>1, EffectiveIsRate DEF CommissionInv
  <1>3. PICK fee \in Share(a, e), c \in Share(a, p) :
           sale' = [sale EXCEPT ![s] =
                      [amount |-> a, fee |-> fee, link |-> p, closer |-> Clamp(c, a - fee),
                       vendor |-> a - fee - Clamp(c, a - fee)]]
    BY DEF Checkout
  <1> HIDE DEF e
  <1>4. CASE t # s
    <2>1. sale'[t] = sale[t]
      BY <1>3, <1>4 DEF CommissionInv, TypeOK
    <2> QED
      BY <2>1 DEF PaidInFull
  <1>5. CASE t = s
    <2>1. /\ sale'[t].amount = a /\ sale'[t].link = p
          /\ sale'[t].closer = Clamp(c, a - fee)
      BY <1>3, <1>5 DEF CommissionInv, TypeOK
    <2> SUFFICES ASSUME e + p <= Hundred
                 PROVE  Clamp(c, a - fee) \in Share(a, p)
      BY <2>1 DEF PaidInFull, e
    <2>2. fee + c <= a /\ fee \in Int /\ c \in Int
      BY <1>1, <1>2, SharesFit, ShareBounds
    <2>3. Clamp(c, a - fee) = c
      BY <1>1, <2>2 DEF Clamp
    <2> QED
      BY <2>3
  <1> QED
    BY <1>4, <1>5

\* For every price and every pair of rates that fit together, a closer is paid his
\* percentage to the franc: rounding never makes the clamp of SaleHandler.Create bite.
THEOREM ClampIsFair == Spec => ClosersPaidInFull
  <1>1. CommissionInv /\ [Next]_vars => [\A s \in Sales : PaidInFull(s)]_vars
    <2> SUFFICES ASSUME CommissionInv, Next, NEW t \in Sales PROVE PaidInFull(t)
      OBVIOUS
    <2>1. ASSUME NEW r \in Rates, NEW enabled \in BOOLEAN,
                 UpdateSettings(r) \/ UpdateCap(r) \/ CreateLink(r) \/ UpdateProduct(enabled, r)
          PROVE  PaidInFull(t)
      BY <2>1 DEF UpdateSettings, UpdateCap, CreateLink, UpdateProduct, PaidInFull
    <2>2. ASSUME NEW s \in Sales, NEW a \in Amounts, NEW p \in {0, link}, Checkout(s, a, p)
          PROVE  PaidInFull(t)
      BY <2>2, CheckoutPays
    <2> QED
      BY <2>1, <2>2 DEF Next
  <1>2. [\A s \in Sales : PaidInFull(s)]_vars
          <=> [\A s \in Sales :
                 LET now == sale'[s]
                 IN  sale[s] # now /\ EffectivePlatformFeePct(now.amount, rate) + now.link <= Hundred
                       => now.closer \in Share(now.amount, now.link)]_vars
    BY DEF PaidInFull
  <1> QED
    BY <1>1, <1>2, InitSafe, NextSafe, PTL DEF Spec, ClosersPaidInFull

=============================================================================
