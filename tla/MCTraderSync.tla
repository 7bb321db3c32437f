---------------------------- MODULE MCTraderSync ----------------------------
\* Two ticks a day; a retention of a day and a half within the days of the horizon.
EXTENDS TraderSync

MCSizes == {2, -1}
MCLookback == <<3>>
=============================================================================
