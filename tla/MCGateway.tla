------------------------------- MODULE MCGateway -------------------------------
(* Gateway for TLC: a topic of the configuration and one subscribed at run time. *)
EXTENDS Gateway, TLC
CONSTANTS trades, ticker

MCTopics == {trades, ticker}
MCConfigured == <<trades>>
================================================================================
