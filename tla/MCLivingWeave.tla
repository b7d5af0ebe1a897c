----------------------------- MODULE MCLivingWeave -----------------------------
(* Values of the constants of LivingWeave for TLC.  "weave" is also the name  *)
(* under which evaluate enters its own objection.                             *)
EXTENDS LivingWeave, TLC

MCName == {"egress", "weave"}
MCAction == {"asked", "altered"}
===============================================================================
