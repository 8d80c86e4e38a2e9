------------------------------ MODULE MCIntake ------------------------------
(* Intake with small windows. Both are reached: MaxSent exceeds each.       *)
EXTENDS Intake
=============================================================================
