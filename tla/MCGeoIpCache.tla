---------------------------- MODULE MCGeoIpCache ----------------------------
(* GeoIpCache for TLC.                                                     *)
EXTENDS GeoIpCache
=============================================================================
