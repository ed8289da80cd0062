----------------------------- MODULE MCRcCtrl ------------------------------
(***************************************************************************)
(* Constant values for checking RcCtrl with TLC.  The sequences a target   *)
(* may answer with cannot be written in a .cfg, so they are defined here   *)
(* and chosen per run with "<-".                                           *)
(***************************************************************************)
EXTENDS RcCtrl

(* GetCapabilities(EVENTS): PLAY_POS is advertised and skipped by the     *)
(* engine; two of the kept events are registered in list order.           *)
MCEventLists == {<<"PLAY_STATUS", "PLAY_POS", "TRACK">>}

(* ListPlayerAppAttr: a standard attribute (1, equalizer) followed by an  *)
(* extended one (129, above AVRC_PLAYER_SETTING_LOW_MENU_EXT).            *)
MCMixedAttrLists == {<<1, 129>>}

(* Only extended attributes.                                              *)
MCExtOnlyAttrLists == {<<129, 130>>}

(* A target with the metadata and player application settings features.  *)
MCFeatureSets == {{"RCTG", "METADATA", "VENDOR", "APP_SETTING"}}
=============================================================================
