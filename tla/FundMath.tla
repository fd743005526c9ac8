------------------------------ MODULE FundMath ------------------------------
(***************************************************************************)
(* The integer arithmetic of the fund program.  Every division in the code *)
(* is a checked_div of unsigned (or positive signed) integers, which rounds *)
(* down, as \div does.  The u128/i128 intermediates and the final casts to  *)
(* u64 are not bounded here: an amount is a natural number.                 *)
(***************************************************************************)
EXTENDS Integers

\* 10_000 basis points are the whole.
BpsDenominator == 10000

\* The part of `amount` a fee of `bps` basis points takes.
FeeOf(amount, bps) == (amount * bps) \div BpsDenominator

\* Mistake (for the mutation runs): rounds for the depositor.
MintRoundedUp(net, total, nav) == (net * total + nav - 1) \div nav

\* Shares a deposit of `net` lamports buys in a fund worth `nav`.
SharesToMint(net, total, nav) == (net * total) \div nav

\* Lamports `shares` out of `total` are worth in a fund worth `nav`.
GrossPayout(shares, nav, total) == (shares * nav) \div total

\* The least output a swap may return when the oracle expects `expected` and the
\* configuration tolerates a slippage of `bps`.
ApplyMaxSlippage(expected, bps) == (expected * (BpsDenominator - bps)) \div BpsDenominator
=============================================================================
