------------------------------ MODULE MCDialer ------------------------------
(***************************************************************************)
(* Model of CampaignDialer: two contacts, a window of one call, one retry. *)
(* Two contacts and a retry are the least with which two dialing loops run *)
(* at once: the loop of a channel's end and the loop of a retry timer.     *)
(* Stop messages may come at any time and any number of them; FewFinished  *)
(* bounds the answers they leave in toBackend, which nothing here reads.   *)
(***************************************************************************)
EXTENDS CampaignDialer

FewFinished == Len(toBackend) <= 1
=============================================================================
