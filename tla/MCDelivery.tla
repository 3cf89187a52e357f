------------------------------ MODULE MCDelivery ------------------------------
EXTENDS Delivery

CONSTANTS ign, art, cache, local, src

MCOrder == <<ign, art, cache, local, src>>

MCOneCommand == <<"test">>
MCPolicies == {<<"test">>, <<"lint", "test">>, << >>}
===============================================================================
