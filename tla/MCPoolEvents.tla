---------------------------- MODULE MCPoolEvents ----------------------------
EXTENDS PoolEvents
MCPortfolios == {{"pair"}, {"solidly", "bare"}, {"two", "twin"}, {"general"}, {"stable"},
                 {"stable_ng"}, {"crypto"}, {"tricrypto_ng"}}
=============================================================================
