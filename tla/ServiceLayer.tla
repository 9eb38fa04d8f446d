---------------------------- MODULE ServiceLayer ----------------------------
(***************************************************************************)
(* The services around the models: the configuration, the plugins and the  *)
(* alerts of a deployment, the credits and the marketplace of a            *)
(* collaboration, and the chain of trust.  They share no state, so that    *)
(* the interleavings of one with another say nothing: a behaviour drives   *)
(* one of them from its first state on.                                    *)
(***************************************************************************)
EXTENDS ConfigStore, PluginManager, AlertManager, CreditLedger, DatasetMarketplace, TrustChain

CONSTANT Parts   \* those that are driven

VARIABLE driven

servicesVars == <<configVars, pluginVars, alertVars, vars, marketVars, trustVars, driven>>

ServicesInit ==
  /\ driven \in Parts
  /\ ConfigInit /\ PluginsInit /\ AlertsInit /\ Init /\ MarketInit /\ TrustInit

ServicesNext ==
  /\ UNCHANGED driven
  /\ \/ /\ driven = "config" /\ ConfigNext
        /\ UNCHANGED <<pluginVars, alertVars, vars, marketVars, trustVars>>
     \/ /\ driven = "plugins" /\ PluginsNext
        /\ UNCHANGED <<configVars, alertVars, vars, marketVars, trustVars>>
     \/ /\ driven = "alerts" /\ AlertsNext
        /\ UNCHANGED <<configVars, pluginVars, vars, marketVars, trustVars>>
     \/ /\ driven = "credits" /\ Next
        /\ UNCHANGED <<configVars, pluginVars, alertVars, marketVars, trustVars>>
     \/ /\ driven = "market" /\ MarketNext
        /\ UNCHANGED <<configVars, pluginVars, alertVars, vars, trustVars>>
     \/ /\ driven = "trust" /\ TrustNext
        /\ UNCHANGED <<configVars, pluginVars, alertVars, vars, marketVars>>

ServicesSpec == ServicesInit /\ [][ServicesNext]_servicesVars

-----------------------------------------------------------------------------
(* Properties                                                              *)

\* The types of all the parts but the credits.
ServicesTypeOK == ConfigTypeOK /\ PluginTypeOK /\ AlertTypeOK /\ MarketTypeOK /\ TrustTypeOK
=============================================================================
