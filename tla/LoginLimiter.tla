------------------------------ MODULE LoginLimiter ------------------------------
(***************************************************************************)
(* The in-memory limiter in front of the login routes                      *)
(* (internal/middleware/login_rate_limit.go): failures are counted per     *)
(* address and per phone number, each table under the lock of a shard.     *)
(* The two tables, and the check and the count of one request, are apart.  *)
(*                                                                         *)
(* An entry whose window or block is over behaves like no entry, whether   *)
(* or not a clean-up has removed it (shouldEvictState), so here it is      *)
(* gone; one shard stands for the shards.                                  *)
(***************************************************************************)
EXTENDS Integers, Sequences, FiniteSets, SequencesExt

CONSTANTS
    Clients,        \* requests that run at the same time
    IPs, Phones,
    NoPhone,        \* the phone of a body without a phone number
    MaxFailures,    \* IPMaxAttempts and EmailMaxAttempts, by table
    MaxKeys         \* entries per shard

Tables == {"ip", "phone"}
Keys == IPs \cup Phones

ASSUME LimiterAssumption ==
    /\ MaxFailures \in [Tables -> Nat \ {0}] /\ MaxKeys \in Nat \ {0}
    /\ NoPhone \notin Keys /\ IPs \cap Phones = {} /\ IPs # {}
    /\ IsFiniteSet(Clients)

VARIABLES
    seen,       \* the keys with an entry, the least recently failed first
    count,      \* Count
    blocked,    \* BlockedUntil is to come
    client,     \* the requests
    failed,     \* history: refused logins since the key was last let off,
                \* for as long as no entry had to make room
    crowded     \* history: one had

limiterVars == <<seen, count, blocked, client, failed, crowded>>

Client == [pc : {"idle", "phone", "login", "fail", "failPhone", "reset", "resetPhone"},
           ip : IPs, phone : Phones \cup {NoPhone}]

LimiterTypeOK ==
    /\ seen \in [Tables -> Seq(Keys)]
    /\ count \in [Keys -> Nat]
    /\ blocked \in [Keys -> BOOLEAN]
    /\ client \in [Clients -> Client]
    /\ failed \in [Keys -> Nat]
    /\ crowded \in BOOLEAN

NoClient == [pc |-> "idle", ip |-> CHOOSE i \in IPs : TRUE, phone |-> NoPhone]

InitLimiter ==
    /\ seen = [t \in Tables |-> <<>>]
    /\ count = [k \in Keys |-> 0]
    /\ blocked = [k \in Keys |-> FALSE]
    /\ client = [c \in Clients |-> NoClient]
    /\ failed = [k \in Keys |-> 0]
    /\ crowded = FALSE

ClientAt(c, pc) == client[c].pc = pc
Continue(c, pc) == client' = [client EXCEPT ![c].pc = pc]
Leave(c) == client' = [client EXCEPT ![c] = NoClient]
Entries == <<seen, count, blocked>>

-----------------------------------------------------------------------------
(* The check: first the address, then the phone *)

CheckIP(c, i, p) ==
    /\ ClientAt(c, "idle") /\ ~blocked[i]
    /\ client' = [client EXCEPT ![c] =
          [pc |-> IF p = NoPhone THEN "login" ELSE "phone", ip |-> i, phone |-> p]]
    /\ UNCHANGED <<Entries, failed, crowded>>

CheckPhone(c) ==
    /\ ClientAt(c, "phone")
    /\ IF blocked[client[c].phone] THEN Leave(c) ELSE Continue(c, "login")
    /\ UNCHANGED <<Entries, failed, crowded>>

-----------------------------------------------------------------------------
(* The login: 401 is a failure, 2xx a success, the rest is neither *)

KeysOf(c) == {client[c].ip, client[c].phone} \ {NoPhone}

LoginFails(c) ==
    /\ ClientAt(c, "login")
    /\ failed' = [k \in Keys |-> IF k \in KeysOf(c) /\ ~crowded THEN failed[k] + 1 ELSE failed[k]]
    /\ Continue(c, "fail")
    /\ UNCHANGED <<Entries, crowded>>

LoginSucceeds(c) ==
    /\ ClientAt(c, "login")
    /\ Continue(c, "reset")
    /\ UNCHANGED <<Entries, failed, crowded>>

LoginErrs(c) ==
    /\ ClientAt(c, "login")
    /\ Leave(c)
    /\ UNCHANGED <<Entries, failed, crowded>>

-----------------------------------------------------------------------------
(* The tables *)

\* makeRoomLocked, for a key without an entry: the oldest goes, blocked or not.
MustMakeRoom(t, k) == k \notin Range(seen[t]) /\ Len(seen[t]) >= MaxKeys
Victim(t) == Head(seen[t])

\* Mutant: no early return for a blocked key, whose window is zero: it starts anew.
HitBlocked(t, k) ==
    LET n == IF blocked[k] THEN 1 ELSE count[k] + 1 IN
    /\ count' = [count EXCEPT ![k] = IF n >= MaxFailures[t] THEN 0 ELSE n]
    /\ blocked' = [blocked EXCEPT ![k] = n >= MaxFailures[t]]
\* Count, or block and start from nothing; a blocked key is only seen again.
Hit(t, k) ==
    LET full == count[k] + 1 >= MaxFailures[t] IN
    IF blocked[k] THEN UNCHANGED <<count, blocked>>
    ELSE /\ count' = [count EXCEPT ![k] = IF full THEN 0 ELSE @ + 1]
         /\ blocked' = [blocked EXCEPT ![k] = full]

\* recordFailure of one table.
RecordFailure(t, k) ==
    IF MustMakeRoom(t, k)
    THEN LET v == Victim(t) IN
         /\ seen' = [seen EXCEPT ![t] = Append(Tail(@), k)]
         /\ count' = [count EXCEPT ![v] = 0, ![k] = IF MaxFailures[t] = 1 THEN 0 ELSE 1]
         /\ blocked' = [blocked EXCEPT ![v] = FALSE, ![k] = MaxFailures[t] = 1]
         /\ crowded' = TRUE /\ failed' = [x \in Keys |-> 0]
    ELSE /\ seen' = [seen EXCEPT ![t] = Append(Remove(@, k), k)]
         /\ Hit(t, k)
         /\ UNCHANGED <<failed, crowded>>

\* The entry goes: reset, or its window or block is over.
Forget(t, k) ==
    /\ seen' = [seen EXCEPT ![t] = Remove(@, k)]
    /\ count' = [count EXCEPT ![k] = 0]
    /\ blocked' = [blocked EXCEPT ![k] = FALSE]
    /\ failed' = [failed EXCEPT ![k] = 0]
    /\ UNCHANGED crowded

\* Both tables are written only if the body had a phone number.
ThenPhone(c, pc) == IF client[c].phone = NoPhone THEN Leave(c) ELSE Continue(c, pc)

CountIP(c) ==
    /\ ClientAt(c, "fail")
    /\ RecordFailure("ip", client[c].ip)
    /\ ThenPhone(c, "failPhone")

CountPhone(c) ==
    /\ ClientAt(c, "failPhone")
    /\ RecordFailure("phone", client[c].phone)
    /\ Leave(c)

ResetIP(c) ==
    /\ ClientAt(c, "reset")
    /\ Forget("ip", client[c].ip)
    /\ ThenPhone(c, "resetPhone")

ResetPhone(c) ==
    /\ ClientAt(c, "resetPhone")
    /\ Forget("phone", client[c].phone)
    /\ Leave(c)

\* The window of an entry, or its block, is over.
TimePasses(t, k) ==
    /\ k \in Range(seen[t])
    /\ Forget(t, k)
    /\ UNCHANGED client

Serve(c) ==
    \/ CheckPhone(c)
    \/ LoginFails(c) \/ LoginSucceeds(c) \/ LoginErrs(c)
    \/ CountIP(c) \/ CountPhone(c) \/ ResetIP(c) \/ ResetPhone(c)

NextLimiter ==
    \/ \E c \in Clients :
        Serve(c) \/ \E i \in IPs, p \in Phones \cup {NoPhone} : CheckIP(c, i, p)
    \/ \E t \in Tables, k \in Keys : TimePasses(t, k)

SpecLimiter == InitLimiter /\ [][NextLimiter]_limiterVars

-----------------------------------------------------------------------------
KeysIn(t) == IF t = "ip" THEN IPs ELSE Phones

\* As long as no entry had to make room, a key fails at most as many logins as
\* its table allows before it is blocked, and one more for every other request
\* that was let in together with the last of them, whatever resets and expiries
\* come in between.
FailuresBounded ==
    \A t \in Tables : \A k \in KeysIn(t) :
        failed[k] <= MaxFailures[t] + Cardinality(Clients) - 1
=============================================================================
