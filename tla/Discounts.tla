----------------------------- MODULE Discounts -----------------------------
(***************************************************************************)
(* The price of a product with discounts (ecommerce/discounts.py, and the  *)
(* callers in ecommerce/models.py that round it to cents).                 *)
(*                                                                         *)
(* Amounts and prices are numbers of units, Unit to a dollar or to one     *)
(* percent: Discount.amount has five decimal places, so Unit is 100000 in  *)
(* the database, while a product's price is a whole number of cents.       *)
(***************************************************************************)
EXTENDS Integers

CONSTANT Unit

ASSUME DiscountsAssumption == Unit \in Nat \ {0} /\ Unit % 100 = 0

Cent == Unit \div 100
Prices == {Cent * c : c \in Nat}

Discount == [type: {"percent-off", "dollars-off", "fixed-price"}, amount: Nat]

\* What generate_discount_code and the forms let through.
ValidDiscount(d) == d \in Discount /\ (d.type = "percent-off" => d.amount <= 100 * Unit)

\* n / d to the nearest integer, halves to the even one (Decimal's rounding).
RoundHalfEven(n, d) ==
    LET q == n \div d
        r == n % d
    IN  IF 2 * r < d \/ (2 * r = d /\ q % 2 = 0) THEN q ELSE q + 1

ToCents(x) == Cent * RoundHalfEven(x, Cent)

\* price - price * amount / 100, rounded to cents.
PercentPrice(price, amount) ==
    Cent * RoundHalfEven((price \div Cent) * (100 * Unit - amount), 100 * Unit)

DollarsOffPrice(price, amount) == IF price < amount THEN 0 ELSE price - amount

\* get_product_version_price of the three classes.
ProductPrice(d, price) ==
    CASE d.type = "percent-off" -> PercentPrice(price, d.amount)
      [] d.type = "dollars-off" -> DollarsOffPrice(price, d.amount)
      [] d.type = "fixed-price" -> d.amount

\* get_discounted_price: the best of the list price and what each discount
\* makes of it; discounted_price of basket items and lines then rounds.
DiscountedPrice(ds, price) ==
    LET offers == {price} \cup {ProductPrice(d, price) : d \in ds}
    IN  ToCents(CHOOSE p \in offers : \A q \in offers : p <= q)
=============================================================================
