----------------------------- MODULE MCVifClaims ------------------------------
(* Two owners contend for two buses that share their wiring. *)
EXTENDS VifClaims

CONSTANTS shell, link, pwm, vpw, none

MCGroupOf == [b \in {pwm, vpw} |-> 0]
===============================================================================
