------------------------------ MODULE MCCampaign ------------------------------
(* The replies of Meta in the runs of Campaign.                             *)
EXTENDS Campaign

AllReplies == {"accepted", "refused", "lost", "timeout"}
===============================================================================
