----------------------------- MODULE MCBuyerJourney -----------------------------
\* Model values for BuyerJourney: Senegal, and Togo which only PayDunya
\* covers.
EXTENDS BuyerJourney

MCCountries == {"SEN", "TGO"}
MCPawaPayOperators == [SEN |-> <<"WAVE_SEN">>, TGO |-> <<>>]
MCPayDunyaOperators == [SEN |-> <<"WAVE_SN">>, TGO |-> <<"T_MONEY">>]
MCPawaPayCode == [WAVE_SN |-> "WAVE_SEN", T_MONEY |-> ""]
MCPhoneLength == [SEN |-> 1, TGO |-> 1]
MCStatusPath == {"/api/", "/orders", "/orders/status"}
MCSettings == {
    [offered |-> {"WAVE_SEN", "T_MONEY"}, otpFor |-> {"T_MONEY"}, cards |-> TRUE],
    [offered |-> {"WAVE_SEN", "T_MONEY"}, otpFor |-> {}, cards |-> FALSE]}
MCLimits == [login |-> 1, register |-> 1, status |-> 4, orders |-> 1, other |-> 3]
=============================================================================
