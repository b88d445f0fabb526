------------------------------ MODULE Pricing -------------------------------
(***************************************************************************)
(* The arithmetic of a stay: what the price calculator quotes, what a      *)
(* booking is charged, what its invoice lists and what a cancellation      *)
(* gives back.  An amount is a number of hundred-thousandths of the        *)
(* currency, so that every percentage of the code is exact; the binary     *)
(* floating point the code computes with is left out.                      *)
(***************************************************************************)
EXTENDS Integers

(* The pricing columns of a property, and its shortest and longest stay, 0 *)
(* for no longest; a pricing rule of the dates only replaces price, in     *)
(* both services alike.                                                    *)
PricingColumns == [price : Nat, weekly : 0..100, monthly : 0..100,
                   cleaning : Nat, fee : 0..100, min : Nat \ {0}, max : Nat]

(* A stay lasts a number of hours, since both services take times as well  *)
(* as dates.  calculatePrice rounds its days up, create cuts them off, and *)
(* each compares its own number of nights with the property's.             *)
QuoteNights(hours) == (hours + 23) \div 24

(* MUTANT of BookingNights: the day of check-out is a night too.           *)
BookingNightsInclusive(hours) == hours \div 24 + 1

BookingNights(hours) == hours \div 24

Quotable(t, hours) == QuoteNights(hours) >= t.min
Bookable(t, hours) ==
    /\ BookingNights(hours) >= t.min
    /\ t.max > 0 => BookingNights(hours) <= t.max

Percent(p, amount) == (p * amount) \div 100

Discount(t, nights) ==
    LET base == t.price * nights
    IN  CASE nights >= 28 /\ t.monthly > 0             -> Percent(t.monthly, base)
          [] ~(nights >= 28 /\ t.monthly > 0)
               /\ nights >= 7 /\ t.weekly > 0          -> Percent(t.weekly, base)
          [] OTHER                                     -> 0

Subtotal(t, nights)   == t.price * nights - Discount(t, nights)
ServiceFee(t, nights) == Percent(t.fee, Subtotal(t, nights))

(* MUTANT of HostPayout: the host fee is taken from the cleaning fee too.  *)
PayoutShort(t, nights) ==
    Subtotal(t, nights) + t.cleaning - Percent(3, Subtotal(t, nights) + t.cleaning)

HostPayout(t, nights) ==
    Subtotal(t, nights) + t.cleaning - Percent(3, Subtotal(t, nights))

(* calculateBookingPrice: the tax base is subtotal and cleaning fee.       *)
BookingTaxes(t, nights) == Percent(10, Subtotal(t, nights) + t.cleaning)
BookingTotal(t, nights) ==
    Subtotal(t, nights) + t.cleaning + ServiceFee(t, nights) + BookingTaxes(t, nights)

(* calculatePrice, its nights given: the service fee is taxed as well.     *)
QuoteTaxes(t, nights) ==
    Percent(10, Subtotal(t, nights) + t.cleaning + ServiceFee(t, nights))
QuoteTotal(t, nights) ==
    Subtotal(t, nights) + t.cleaning + ServiceFee(t, nights) + QuoteTaxes(t, nights)

(* What a stay is quoted and what it is charged.                           *)
Quote(t, hours)  == QuoteTotal(t, QuoteNights(hours))
Charge(t, hours) == BookingTotal(t, BookingNights(hours))

(* getInvoice: the lines; booking.subtotal already has the discount in it. *)
InvoiceLines(t, nights) ==
    Subtotal(t, nights) + t.cleaning + ServiceFee(t, nights)
      + BookingTaxes(t, nights) - Discount(t, nights)

(* MUTANT of RefundPercent: the two bounds of MODERATE are exchanged.      *)
RefundPercentSwapped(policy, days) ==
    IF policy = "MODERATE" THEN IF days >= 5 THEN 50 ELSE IF days >= 1 THEN 100 ELSE 0
    ELSE 0

(* calculateCancellationRefund: the share given back days before check-in. *)
RefundPercent(policy, days) ==
    CASE policy = "FLEXIBLE"        -> IF days >= 1 THEN 100 ELSE 0
      [] policy = "MODERATE"        -> IF days >= 5 THEN 100 ELSE IF days >= 1 THEN 50 ELSE 0
      [] policy = "STRICT"          -> IF days >= 14 THEN 100 ELSE IF days >= 7 THEN 50 ELSE 0
      [] policy = "SUPER_STRICT_30" -> IF days >= 30 THEN 50 ELSE 0
      [] policy = "SUPER_STRICT_60" -> IF days >= 60 THEN 50 ELSE 0

Refund(t, nights, policy, days) ==
    Percent(RefundPercent(policy, days), BookingTotal(t, nights))
=============================================================================
