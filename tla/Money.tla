------------------------------- MODULE Money -------------------------------
(***************************************************************************)
(* The integer money arithmetic of api/src/invoicing/money.rs.  Amounts    *)
(* are whole cents; the code computes in i128 within bounds that keep      *)
(* every result in an i64, so the unbounded integers of TLA+ lose nothing. *)
(***************************************************************************)
EXTENDS Integers, FiniteSetsExt

\* Division by a positive denominator that rounds a half away from zero.
div_round_half_up(numerator, denominator) ==
    LET half == denominator \div 2 IN
    IF numerator >= 0
    THEN (numerator + half) \div denominator
    ELSE -((half - numerator) \div denominator)

\* 10% of the GST-exclusive subtotal.
gst_cents(subtotal_cents) == div_round_half_up(subtotal_cents, 10)

\* The subtotal of a snapshot whose lines map each item to its line amount.
subtotal_cents(lines) == MapThenSumSet(LAMBDA i : lines[i], DOMAIN lines)

\* The total, with GST charged only by a registered seller.
total_cents(lines, gst_registered) ==
    LET subtotal == subtotal_cents(lines) IN
    subtotal + (IF gst_registered THEN gst_cents(subtotal) ELSE 0)
=============================================================================
