--------------------------- MODULE MCPricePipeline ---------------------------
EXTENDS PricePipeline

\* Day 3 is a holiday; in the second calendar there is none.
MCTrading == {1, 2, 4}

MCNoHoliday == 1..4
=============================================================================
