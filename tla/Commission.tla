----------------------------- MODULE Commission -----------------------------
(***************************************************************************)
(* How the price of a sale is split between the platform, the closer whose *)
(* link brought the buyer, and the vendor: the settings the split depends  *)
(* on, which change while the site sells, and the row that is inserted.    *)
(*                                                                         *)
(* Rates are in hundredths of a percent, as NUMERIC(5,2) stores them;      *)
(* amounts are whole francs CFA.  Nothing corrects a row later, so what a  *)
(* checkout writes is what the vendor and the closer will be owed.         *)
(***************************************************************************)
EXTENDS Integers

CONSTANTS
    Sales,      \* rows of the sales table
    Amounts,    \* prices a checkout may have
    Rates       \* percentages an administrator, a vendor or a closer may send

ASSUME CommissionConstants ==
    /\ Amounts \subseteq Nat \ {0}
    /\ Rates \subseteq Nat

VARIABLES
    rate,       \* settings.commission_rate_pct
    open,       \* products.affiliate_enabled
    cap,        \* products.max_closer_commission_pct
    link,       \* referral_links.commission_pct, 0 while there is no link
    sale        \* the rows, NoSale before the insert

vars == <<rate, open, cap, link, sale>>

-----------------------------------------------------------------------------
(* Arithmetic of the split *)

Hundred == 10000                    \* 100 %

DefaultPlatformFeePct == 1500
HighValueThresholdCFA == 1000000
HighValuePlatformFeePct == 1000

\* The whole part of r of a, by quotient and remainder: TLC's integers are short.
Floor(a, r) == (a \div Hundred) * r + ((a % Hundred) * r) \div Hundred

\* int(float64(a) * r / 100): the product is rounded to a double, and an exact
\* quotient may come out just below the integer it should be, one franc less.
Share(a, r) ==
    {Floor(a, r)} \cup
    (IF r % 100 # 0 /\ ((a % Hundred) * r) % Hundred = 0 /\ Floor(a, r) > 0
     THEN {Floor(a, r) - 1} ELSE {})

EffectivePlatformFeePct(a, r) ==
    IF a >= HighValueThresholdCFA THEN HighValuePlatformFeePct ELSE r

\* Mutant: the closer's share is not limited to what the platform leaves.
Clamp_Missing(c, rest) == c

Clamp(c, rest) == IF c > rest THEN rest ELSE c

NoSale == [amount |-> 0, fee |-> 0, link |-> 0, closer |-> 0, vendor |-> 0]

-----------------------------------------------------------------------------
(* Settings *)

\* Mutant: the upper bound is not checked.
UpdateSettings_Unbounded(r) ==
    /\ rate' = r
    /\ UNCHANGED <<open, cap, link, sale>>

\* AdminHandler.UpdateSettings checks the bounds of the rate.
UpdateSettings(r) ==
    /\ r <= Hundred
    /\ rate' = r
    /\ UNCHANGED <<open, cap, link, sale>>

ValidAffiliateConfig(enabled, c) == enabled => c > 0 /\ c <= Hundred - DefaultPlatformFeePct

\* ProductHandler.Create, and Update when affiliate_enabled is part of the request.
UpdateProduct(enabled, c) ==
    /\ ValidAffiliateConfig(enabled, c)
    /\ open' = enabled /\ cap' = c
    /\ UNCHANGED <<rate, link, sale>>

\* ProductHandler.Update with the cap alone: nothing is validated.
UpdateCap(c) ==
    /\ cap' = c
    /\ UNCHANGED <<rate, open, link, sale>>

\* CloserHandler.CreateLink checks the percentage once: a later cap does not touch
\* the link.  The CHECK of the column refuses more than 100 %.
CreateLink(p) ==
    /\ open /\ p > 0 /\ p <= cap
    /\ link = 0 /\ p <= Hundred
    /\ link' = p
    /\ UNCHANGED <<rate, open, cap, sale>>

-----------------------------------------------------------------------------
(* SaleHandler.Create *)

\* Mutant: the closer's part is taken on what the platform leaves.
Checkout_OfRest(s, a, p) ==
    /\ sale[s] = NoSale
    /\ p \in {0, link}
    /\ \E fee \in Share(a, EffectivePlatformFeePct(a, rate)) : \E c \in Share(a - fee, p) :
         LET closer == Clamp(c, a - fee)
         IN  sale' = [sale EXCEPT ![s] = [amount |-> a, fee |-> fee, link |-> p,
                                          closer |-> closer, vendor |-> a - fee - closer]]
    /\ UNCHANGED <<rate, open, cap, link>>

\* A buyer orders at price a, through the link (p) or directly (0).
Checkout(s, a, p) ==
    /\ sale[s] = NoSale
    /\ p \in {0, link}
    /\ \E fee \in Share(a, EffectivePlatformFeePct(a, rate)), c \in Share(a, p) :
         LET closer == Clamp(c, a - fee)
         IN  sale' = [sale EXCEPT ![s] = [amount |-> a, fee |-> fee, link |-> p,
                                          closer |-> closer, vendor |-> a - fee - closer]]
    /\ UNCHANGED <<rate, open, cap, link>>

-----------------------------------------------------------------------------
Init ==
    /\ rate = DefaultPlatformFeePct
    /\ open = FALSE /\ cap = 0
    /\ link = 0
    /\ sale = [s \in Sales |-> NoSale]

Next ==
    \/ \E r \in Rates :
        \/ UpdateSettings(r) \/ UpdateCap(r) \/ CreateLink(r)
        \/ \E enabled \in BOOLEAN : UpdateProduct(enabled, r)
    \/ \E s \in Sales, a \in Amounts : \E p \in {0, link} : Checkout(s, a, p)

Spec == Init /\ [][Next]_vars

-----------------------------------------------------------------------------
(* Properties *)

\* The platform's rate and a link's are percentages, whatever the cap has become.
TypeOK ==
    /\ rate \in 0..Hundred
    /\ open \in BOOLEAN
    /\ cap \in Nat
    /\ link \in 0..Hundred
    /\ sale \in [Sales -> [amount: Nat, fee: Nat, link: 0..Hundred, closer: Int, vendor: Int]]

\* Whatever the rates and the rounding, a row gives away exactly its price, and
\* nobody's part is negative.
SplitAddsUp ==
    \A s \in Sales :
        /\ sale[s].fee + sale[s].closer + sale[s].vendor = sale[s].amount
        /\ sale[s].fee >= 0 /\ sale[s].closer >= 0 /\ sale[s].vendor >= 0

\* A closer is paid the percentage of his link, to the franc, whenever it and the
\* rate in force at the checkout leave room for each other: rounding the two parts
\* never makes the clamp of SaleHandler.Create bite.
ClosersPaidInFull ==
    [][\A s \in Sales :
          LET now == sale'[s]
          IN  sale[s] # now /\ EffectivePlatformFeePct(now.amount, rate) + now.link <= Hundred
                => now.closer \in Share(now.amount, now.link)]_vars

\* A product open to closers promises them no more than the vendor's part, as the
\* comment of validAffiliateConfig has it.
CapLeavesPlatformPart == open => cap > 0 /\ cap <= Hundred - DefaultPlatformFeePct

=============================================================================
