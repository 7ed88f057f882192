----------------------------- MODULE HookSetup -----------------------------
(***************************************************************************)
(* The webhook of a repository and the secret it signs with: the backend   *)
(* keeps the guild's secret and makes one when it is first asked           *)
(* (backend/routes/guilds.py); a worker that has opened a pull request     *)
(* fetches it and sets the repository's webhook up or refreshes it         *)
(* (worker/pioneer_worker/github_pr.py, ensure_webhook); the backend       *)
(* refuses a delivery signed with another secret (routes/webhooks.py).     *)
(*                                                                         *)
(* One guild and one repository.  GitHub is external: it lists, creates    *)
(* and changes webhooks, and refuses a second one for the same address.    *)
(*                                                                         *)
(* Bounds: MaxRotations rotations, MaxRemovals webhooks deleted by hand,   *)
(* MaxFaults failed calls.                                                 *)
(***************************************************************************)
EXTENDS Naturals

CONSTANTS Workers, MaxRotations, MaxRemovals, MaxFaults

ASSUME HookAssumption == MaxRotations \in Nat /\ MaxRemovals \in Nat /\ MaxFaults \in Nat

VARIABLES
    secret,         \* guilds.webhook_secret, 0 before there is one
    issued,         \* the last secret generated: every one is new
    hook,           \* the repository's webhook: its number (0: none) and its secret
    made,           \* webhooks created so far
    stage, got,     \* a worker's set-up, and the secret it was told
    listed,         \* the webhook it found
    rotations, faults

hookVars == <<secret, issued, hook, made, stage, got, listed, rotations, faults>>

NoHook == [id |-> 0, secret |-> 0]

HookTypeOK ==
    /\ secret \in Nat /\ issued \in Nat /\ made \in Nat
    /\ hook \in [id : Nat, secret : Nat]
    /\ stage \in [Workers -> {"idle", "asking", "minting", "listing", "writing"}]
    /\ got \in [Workers -> Nat]
    /\ listed \in [Workers -> Nat]
    /\ rotations \in 0..MaxRotations /\ faults \in 0..MaxFaults

HookInit ==
    /\ secret = 0 /\ issued = 0
    /\ hook = NoHook /\ made = 0
    /\ stage = [w \in Workers |-> "idle"]
    /\ got = [w \in Workers |-> 0]
    /\ listed = [w \in Workers |-> 0]
    /\ rotations = 0 /\ faults = 0

-----------------------------------------------------------------------------
Moves(w, at) == stage' = [stage EXCEPT ![w] = at]

\* A run has opened a pull request: ensure_webhook begins.
OpenPull(w) ==
    /\ stage[w] = "idle"
    /\ Moves(w, "asking")
    /\ UNCHANGED <<secret, issued, hook, made, got, listed, rotations, faults>>

\* get_webhook_secret reads the guild: it answers with the secret there is ...
ReadSecret(w) ==
    /\ stage[w] = "asking" /\ secret # 0
    /\ got' = [got EXCEPT ![w] = secret]
    /\ Moves(w, "listing")
    /\ UNCHANGED <<secret, issued, hook, made, listed, rotations, faults>>

\* ... or generates one, ...
Generate(w) ==
    /\ stage[w] = "asking" /\ secret = 0
    /\ issued' = issued + 1
    /\ got' = [got EXCEPT ![w] = issued + 1]
    /\ Moves(w, "minting")
    /\ UNCHANGED <<secret, hook, made, listed, rotations, faults>>

\* ... writes it over whatever another request has written since, and answers.
StoreSecret(w) ==
    /\ stage[w] = "minting"
    /\ secret' = got[w]
    /\ Moves(w, "listing")
    /\ UNCHANGED <<issued, hook, made, got, listed, rotations, faults>>

\* rotate_webhook_secret, asked for by an owner.
Rotate ==
    /\ rotations < MaxRotations
    /\ rotations' = rotations + 1
    /\ issued' = issued + 1 /\ secret' = issued + 1
    /\ UNCHANGED <<hook, made, stage, got, listed, faults>>

ListHooks(w) ==
    /\ stage[w] = "listing"
    /\ listed' = [listed EXCEPT ![w] = hook.id]
    /\ Moves(w, "writing")
    /\ UNCHANGED <<secret, issued, hook, made, got, rotations, faults>>

Finish(w) ==
    /\ Moves(w, "idle")
    /\ got' = [got EXCEPT ![w] = 0]
    /\ listed' = [listed EXCEPT ![w] = 0]

\* A mutant: a webhook that is there is left as it is.
PatchNothing(w) ==
    /\ stage[w] = "writing" /\ listed[w] # 0
    /\ Finish(w)
    /\ UNCHANGED <<secret, issued, hook, made, rotations, faults>>

\* The webhook found gets the secret, unless it is gone by now.
PatchHook(w) ==
    /\ stage[w] = "writing" /\ listed[w] # 0
    /\ hook' = IF hook.id = listed[w] THEN [hook EXCEPT !.secret = got[w]] ELSE hook
    /\ Finish(w)
    /\ UNCHANGED <<secret, issued, made, rotations, faults>>

\* None was found: one is created, unless another worker was faster.
CreateHook(w) ==
    /\ stage[w] = "writing" /\ listed[w] = 0
    /\ \/ hook.id # 0 /\ UNCHANGED <<hook, made>>
       \/ hook.id = 0 /\ made' = made + 1 /\ hook' = [id |-> made + 1, secret |-> got[w]]
    /\ Finish(w)
    /\ UNCHANGED <<secret, issued, rotations, faults>>

\* A call of the set-up fails: it is given up with a warning.  The answer of
\* the backend may be what was lost: then the secret is stored all the same.
Fail(w) ==
    /\ stage[w] # "idle" /\ faults < MaxFaults
    /\ faults' = faults + 1
    /\ secret' \in {secret} \cup (IF stage[w] = "minting" THEN {got[w]} ELSE {})
    /\ Finish(w)
    /\ UNCHANGED <<issued, hook, made, rotations>>

\* Somebody deletes the repository's webhook on GitHub.
DeleteHook ==
    /\ hook.id # 0 /\ made <= MaxRemovals
    /\ hook' = NoHook
    /\ UNCHANGED <<secret, issued, made, stage, got, listed, rotations, faults>>

SetUp(w) ==
    ReadSecret(w) \/ Generate(w) \/ StoreSecret(w) \/ ListHooks(w) \/ PatchHook(w) \/ CreateHook(w)

HookNext == Rotate \/ DeleteHook \/ \E w \in Workers : OpenPull(w) \/ SetUp(w) \/ Fail(w)

\* A set-up that has begun goes on: it is a coroutine of the worker, and each
\* of its calls has a time limit.
HookSpec == HookInit /\ [][HookNext]_hookVars /\ \A w \in Workers : WF_hookVars(SetUp(w))

-----------------------------------------------------------------------------
(* Properties.                                                             *)

\* github_webhook accepts a delivery: it bears the signature of the guild's
\* secret.
Accepts == hook.id # 0 /\ secret # 0 /\ hook.secret = secret

\* While pull requests keep being opened, deliveries come to be accepted and
\* stay so, whatever happened before: rotations, two first set-ups each with
\* a secret of its own, a set-up that writes an old secret last, a webhook
\* deleted (github_pr.py, ensure_webhook: "Always re-PATCH").
HookCatchesUp ==
    []<><<\E w \in Workers : OpenPull(w)>>_hookVars => <>[]Accepts
=============================================================================
