--------------------------- MODULE MCMarketplace ---------------------------
(* Instances of Marketplace for TLC. *)
EXTENDS Marketplace, TLC

CONSTANTS s1, i1

\* An hour, and a period that holds it and the next one.
TwoPeriods == {<<1, 2>>, <<1, 3>>}
OnePeriod == {<<1, 2>>}

\* It names a space, and a listing as well.
OneInquiry ==
  {[id |-> i1, platform |-> "coworker", space |-> s1, listing |-> 1, period |-> <<1, 2>>]}
=============================================================================
