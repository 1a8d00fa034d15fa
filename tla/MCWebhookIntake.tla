-------------------------- MODULE MCWebhookIntake --------------------------
(* Instances of WebhookIntake for TLC.                                     *)
EXTENDS WebhookIntake

CONSTANTS h1, h2

MCEvents == {1, 2}
MCHandlers == {h1, h2}
=============================================================================
