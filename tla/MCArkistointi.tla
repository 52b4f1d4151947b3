---------------------------- MODULE MCArkistointi ----------------------------
EXTENDS Arkistointi, TLC
CONSTANTS h1, h2, k1, k2
BothOfOne == k1 :> h1 @@ k2 :> h1
ScheduledDates == {1, MaxDay + 1}
EndedDates == {1, None}
=============================================================================
