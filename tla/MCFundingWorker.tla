--------------------------- MODULE MCFundingWorker ---------------------------
EXTENDS FundingWorker

OneMarket == <<"a">>
TwoMarkets == <<"a", "b">>
=============================================================================
