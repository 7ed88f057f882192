-------------------------- MODULE MCWebhookIntake --------------------------
(* Webhooks: a behaviour is one of the handlers of deliveries, or one of the *)
(* set-up of the webhook and its secret, which share no state.               *)
(* Deliveries: two requests for a review of one commit, and the close of the *)
(* pull request, which GitHub sends twice.                                   *)
EXTENDS WebhookIntake, HookSetup, TLC

CONSTANTS e1, e2, e3, e4, r1, r2, c1, h1
Attempts == e1 :> r1 @@ e2 :> r2 @@ e3 :> c1 @@ e4 :> c1
Asked == r1 :> h1 @@ r2 :> h1 @@ c1 :> NoHead

VARIABLE part

MCInit == part \in {"intake", "setup"} /\ IntakeInit /\ HookInit

MCNext ==
    \/ part = "intake" /\ IntakeNext /\ UNCHANGED <<hookVars, part>>
    \/ part = "setup" /\ HookNext /\ UNCHANGED <<allVars, part>>

MCFairness ==
    /\ \A e \in Events :
           /\ WF_allVars(part = "intake" /\ Handle(e))
           /\ WF_allVars(part = "intake" /\ EventLoop(e) /\ UNCHANGED intake)
    /\ \A w \in Workers : WF_hookVars(part = "setup" /\ SetUp(w))

MCSpec == MCInit /\ [][MCNext]_<<allVars, hookVars, part>> /\ MCFairness
=============================================================================
