----------------------------- MODULE MCDownload ------------------------------
(***************************************************************************)
(* Download with bodies of up to three chunks, a handle pool that two http *)
(* downloads use up, a heap for two attempts to bring the network up and   *)
(* for one long or two short headers, and a sceNetInit that cannot be      *)
(* called twice.                                                           *)
(***************************************************************************)
EXTENDS Download

MCRepeatFails == {"NET_RUN"}
MCHeaderSizes == {2, 3}
=============================================================================
