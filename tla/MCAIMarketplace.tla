-------------------------- MODULE MCAIMarketplace ---------------------------
\* Instances of AIMarketplace for TLC: a requester and a worker, one of them a
\* contract, an oracle contract, and the deployer.
EXTENDS AIMarketplace
=============================================================================
