----------------------------- MODULE Deployment -----------------------------
(***************************************************************************)
(* One call of deployWorker (plugin/worker-lifecycle/cf-deploy.ts): a      *)
(* relay is put on a temporary account of Cloudflare by a chain of         *)
(* requests, and the whole chain is tried again on an account of its own   *)
(* when one of them is not answered.  A request that is not answered may   *)
(* have been carried out.  Operators on the state of one deployment; a     *)
(* mutation of WorkerLifecycle may have one.                               *)
(*                                                                         *)
(* Hashes, metadata, redaction and the length of the delays are left out.  *)
(***************************************************************************)
EXTENDS Naturals

CONSTANTS
    MaxAttempts,  \* 3 in the code
    MaxProbes     \* 10 in the code

ASSUME DeploymentAssumption == {MaxAttempts, MaxProbes} \subseteq Nat \ {0}

\* The requests of one attempt, in their order; "returned" and "failed" end the call.
DeployStep == {"challenge", "previews", "upload", "subdomain", "enable", "propagation",
               "returned", "failed"}

After == [challenge |-> "previews", previews |-> "upload", upload |-> "subdomain",
          subdomain |-> "enable", enable |-> "propagation"]

\* `account`, at Cloudflare: this attempt's account, if any, with no script, the
\* script but no route, a route that is not propagated, or the relay served.
Deployment == [step : DeployStep, attempt : 1..MaxAttempts, probes : 0..MaxProbes,
               account : {"none", "empty", "script", "route", "serving"}]

Attempt(n) == [step |-> "challenge", attempt |-> n, probes |-> 0, account |-> "none"]

\* What carrying out the request of this step leaves at Cloudflare.
CarriedOut(d) ==
    [d EXCEPT !.account = CASE d.step = "previews" -> "empty"
                            [] d.step = "upload"   -> "script"
                            [] d.step = "enable"   -> "route"
                            [] OTHER               -> @]

Failed(d) == [d EXCEPT !.step = "failed"]

\* Mutant: the retry uses the account it has.
SameAccount(d) ==
    IF d.attempt = MaxAttempts THEN Failed(d)
    ELSE [d EXCEPT !.attempt = @ + 1,
                   !.step = IF d.account = "none" THEN "challenge" ELSE "upload"]

\* The whole unit is tried again, and what it left at Cloudflare expires there.
TriedAgain(d) == IF d.attempt = MaxAttempts THEN Failed(d) ELSE Attempt(d.attempt + 1)

-----------------------------------------------------------------------------
\* cfRequest.

Requests(d) == d.step \in DOMAIN After

RequestAnswered(d, d2) ==
    /\ Requests(d)
    /\ d2 = [CarriedOut(d) EXCEPT !.step = After[d.step]]

\* The network fails, or a 5xx or 429 is answered.  A challenge that cannot be
\* solved counts as one, as does an answer that cannot be parsed.
RequestLost(d, d2) ==
    /\ Requests(d)
    /\ d2 \in {TriedAgain(d), TriedAgain(CarriedOut(d))}

\* Another 4xx or success: false; and an upload's answer that cannot be parsed.
RequestRefused(d, d2) ==
    /\ Requests(d)
    /\ \/ d2 = Failed(d)
       \/ d.step = "upload" /\ d2 = Failed(CarriedOut(d))

\* The workers.dev route starts to serve, some time after it was enabled.
RoutePropagates(d, d2) ==
    /\ d.account = "route"
    /\ d2 = [d EXCEPT !.account = "serving"]

\* isRelayIdentity, of what a hostname that does not serve the relay yet answers.
Identified(d) == d.account = "serving"

ProbeIdentifies(d, d2) ==
    /\ d.step = "propagation"
    /\ Identified(d)
    /\ d2 = [d EXCEPT !.step = "returned"]

\* No response, or another one.  Running out of probes is final.
ProbeMisses(d, d2) ==
    /\ d.step = "propagation"
    /\ LET missed == [d EXCEPT !.probes = @ + 1] IN
         d2 = IF missed.probes = MaxProbes THEN Failed(missed) ELSE missed

\* What deployWorker does next; the call ends although nothing else does.
Deploys(d, d2) ==
    \/ RequestAnswered(d, d2) \/ RequestLost(d, d2) \/ RequestRefused(d, d2)
    \/ ProbeIdentifies(d, d2) \/ ProbeMisses(d, d2)

\* An upload always meets an account without the relay's Durable Object, for
\* which its migration is the first; and the call only returns a hostname at
\* which the relay is being served (cf-deploy.ts: "the DO migration is always a
\* first-time SQLite-backed migration", "never a claimed-ready URL").
FreshAndServed(d) ==
    /\ d.step = "upload" => d.account = "empty"
    /\ d.step = "returned" => d.account = "serving"
=============================================================================
