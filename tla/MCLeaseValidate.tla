---------------------------- MODULE MCLeaseValidate ----------------------------
(* The instances of MCLeaseGateway, with a validation in progress.           *)
EXTENDS MCLeaseGateway, LeaseValidate
=============================================================================
