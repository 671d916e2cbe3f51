----------------------------- MODULE MCCaptcha -----------------------------
(* Captcha.tla on small instances. *)
EXTENDS Captcha, TLC
=============================================================================
