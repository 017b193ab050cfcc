--------------------------- MODULE RegistrationSaga ---------------------------
(***************************************************************************)
(* What a client of the registration endpoints is promised, without        *)
(* workers, leases, the provider or the database: a registration is open,  *)
(* failed (and may be retried) or done; done is final; at most one         *)
(* registration of a person is done and at most one per phone is open; a   *)
(* done registration hands out one session.                                *)
(***************************************************************************)
CONSTANTS Jobs,
          Rivals,   \* other registrations with the same phone
          Kin       \* other registrations of the same person

VARIABLES phase,    \* the registration as the status endpoint shows it
          claimed   \* registrations whose session was handed out

sagaVars == <<phase, claimed>>

Phases == {"none", "open", "failed", "done"}

SagaInit == phase = [j \in Jobs |-> "none"] /\ claimed = {}

NoRival(j) == \A k \in Rivals[j] : phase[k] # "open"

\* A first request, or a retry of a failed one.
Open(j) ==
    /\ phase[j] \in {"none", "failed"}
    /\ NoRival(j)
    /\ phase' = [phase EXCEPT ![j] = "open"]
    /\ UNCHANGED claimed

Fail(j) ==
    /\ phase[j] = "open"
    /\ phase' = [phase EXCEPT ![j] = "failed"]
    /\ UNCHANGED claimed

Finish(j) ==
    /\ phase[j] = "open"
    /\ \A k \in Kin[j] : phase[k] # "done"
    /\ phase' = [phase EXCEPT ![j] = "done"]
    /\ UNCHANGED claimed

Claim(j) ==
    /\ phase[j] = "done"
    /\ j \notin claimed
    /\ claimed' = claimed \cup {j}
    /\ UNCHANGED phase

SagaNext == \E j \in Jobs : Open(j) \/ Fail(j) \/ Finish(j) \/ Claim(j)

SagaSpec == SagaInit /\ [][SagaNext]_sagaVars
=============================================================================
