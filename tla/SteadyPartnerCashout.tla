------------------------ MODULE SteadyPartnerCashout ------------------------
(***************************************************************************)
(* PartnerCashout with a history variable: whether a deployment has        *)
(* switched the partner off or on so far.  It only watches; what it allows *)
(* to state is what holds as long as no deployment does.                   *)
(***************************************************************************)
EXTENDS PartnerCashout

VARIABLE switched  \* isConfigured() has changed in some process

SteadyInit == Init /\ switched = FALSE

SteadyNext == Next /\ switched' = (switched \/ configured' # configured)

SteadySpec == SteadyInit /\ [][SteadyNext]_<<vars, switched>>

-----------------------------------------------------------------------------
(* Without such a deployment neither the owner nor a reviewer undoes a     *)
(* request whose submission went out (cancelCashout, rejectHeldCashout):   *)
(* their guards look at the status and at the review reason, never at the  *)
(* partner, and are right as long as no row goes back to the queue.        *)
SteadyNoMoneyBack == ~switched => NoMoneyBackAfterSubmission
=============================================================================
