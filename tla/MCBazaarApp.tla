---------------------------- MODULE MCBazaarApp ----------------------------
(***************************************************************************)
(* BazaarApp for TLC: the kinds of applications that the web server tells  *)
(* apart.  "scope" asks for an FPGA image and has no web socket functions, *)
(* "scopegen" has both, "scpi" has web socket functions and an empty       *)
(* fpga.conf, so that it runs on the image that it finds.                  *)
(***************************************************************************)
EXTENDS BazaarApp

MC_Apps == {"scope", "scopegen", "scpi"}
MC_WsApps == {"scopegen", "scpi"}
MC_ImageApps == {"scope", "scopegen"}
============================================================================
