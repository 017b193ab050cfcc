------------------------- MODULE MCRegistrationJobs -------------------------
(***************************************************************************)
(* Small instances of RegistrationJobs.  Two payloads of one person: the   *)
(* same phone, BVN and phone verification record under two idempotency     *)
(* keys (another NIN check, say); the device is the same too.              *)
(***************************************************************************)
EXTENDS RegistrationJobs, TLC

CONSTANTS j1, j2, row1, row2, row3

MCPhoneOf == [j \in Jobs |-> "phone"]
MCBvnOf == [j \in Jobs |-> "bvn"]
\* two phones, one BVN, two devices: only the BVN link tells the sagas apart
MCPhoneOfTwo == (j1 :> "phone1") @@ (j2 :> "phone2")
MCDeviceOf == [j \in Jobs |-> "device"]
MCDeviceOfTwo == (j1 :> "device1") @@ (j2 :> "device2")
MCRowsOf == (j1 :> {row1, row2}) @@ (j2 :> {row1, row3})
=============================================================================
