--------------------------------- MODULE PinLock ---------------------------------
(***************************************************************************)
(* The transaction PIN of one user and the lock that protects it           *)
(* (internal/authchecker/pin.go for wallet, savings and repayments,        *)
(* VerifyTransactionPin for bill payments, ApplyForLoan for loans).        *)
(*                                                                         *)
(* Each check reads the user's row in one statement, compares, and writes  *)
(* the counter in another.  The first two add one in SQL; ApplyForLoan     *)
(* writes the number it read plus one, and with it the lock.               *)
(*                                                                         *)
(* Left out: a counter that the database refuses to write (its error is    *)
(* ignored).  Changing the PIN touches neither the counter nor the lock.   *)
(***************************************************************************)
EXTENDS Integers, FiniteSets

CONSTANTS
    Guessers,       \* requests that run at the same time
    MaxPinAttempts, \* maxPinAttempts, maxTransactionPinAttempts
    WrongInARow     \* what the code lets through (see GuessesBounded)

ASSUME PinAssumption ==
    /\ IsFiniteSet(Guessers) /\ Guessers # {}
    /\ MaxPinAttempts \in Nat \ {0} /\ WrongInARow \in Nat

VARIABLES
    attempts,   \* failed_transaction_pin_attempts
    lock,       \* transaction_pin_locked_until: NULL, to come, gone by
    guess,      \* the requests
    wrongs      \* history: wrong PINs compared since a right one or an expired lock

pinVars == <<attempts, lock, guess, wrongs>>

Guess == [pc : {"idle", "clear", "compare"}, by : {"verifier", "loan"},
          seen : Nat, dirty : BOOLEAN]

PinTypeOK ==
    /\ attempts \in Nat
    /\ lock \in {"null", "ahead", "past"}
    /\ guess \in [Guessers -> Guess]
    /\ wrongs \in Nat

NoGuess == [pc |-> "idle", by |-> "verifier", seen |-> 0, dirty |-> FALSE]

InitPin ==
    /\ attempts = 0
    /\ lock = "null"
    /\ guess = [g \in Guessers |-> NoGuess]
    /\ wrongs = 0

GuessAt(g, pc, by) == guess[g].pc = pc /\ guess[g].by = by
AnswerGuess(g) == guess' = [guess EXCEPT ![g] = NoGuess]

\* Verify, VerifyTransactionPin: refused while locked.
ReadRow(g) ==
    /\ guess[g].pc = "idle" /\ lock # "ahead"
    /\ guess' = [guess EXCEPT ![g] =
          [pc |-> "compare", by |-> "verifier", seen |-> attempts, dirty |-> FALSE]]
    /\ UNCHANGED <<attempts, lock, wrongs>>

\* ApplyForLoan; a lock that has gone by is cleared first, with the counter.
ReadRowForLoan(g) ==
    /\ guess[g].pc = "idle" /\ lock # "ahead"
    /\ guess' = [guess EXCEPT ![g] =
          [pc |-> IF lock = "past" /\ attempts > 0 THEN "clear" ELSE "compare",
           by |-> "loan", seen |-> attempts, dirty |-> attempts > 0 \/ lock = "past"]]
    /\ UNCHANGED <<attempts, lock, wrongs>>

\* ResetTransactionPinAttempts
ClearExpired(g) ==
    /\ GuessAt(g, "clear", "loan")
    /\ attempts' = 0 /\ lock' = "null"
    /\ guess' = [guess EXCEPT ![g] =
          [pc |-> "compare", by |-> "loan", seen |-> 0, dirty |-> FALSE]]
    /\ UNCHANGED wrongs

\* Mutant: the lock comes one wrong PIN late.
LastAttemptLate(g) == guess[g].seen >= MaxPinAttempts
\* newAttempts >= maxPinAttempts
LastAttempt(g) == guess[g].seen + 1 >= MaxPinAttempts

\* LockTransactionPin, IncrementFailedPinAttempts
WrongPin(g) ==
    /\ GuessAt(g, "compare", "verifier")
    /\ IF LastAttempt(g) THEN attempts' = 0 /\ lock' = "ahead"
       ELSE attempts' = attempts + 1 /\ UNCHANGED lock
    /\ wrongs' = wrongs + 1
    /\ AnswerGuess(g)

\* UpdateTransactionPinAttempts writes both columns from what was read.
WrongPinForLoan(g) ==
    /\ GuessAt(g, "compare", "loan")
    /\ attempts' = guess[g].seen + 1
    /\ lock' = IF LastAttempt(g) THEN "ahead" ELSE "null"
    /\ wrongs' = wrongs + 1
    /\ AnswerGuess(g)

\* ResetPinAttempts
RightPin(g) ==
    /\ GuessAt(g, "compare", "verifier")
    /\ attempts' = 0 /\ lock' = "null" /\ wrongs' = 0
    /\ AnswerGuess(g)

\* ... which ApplyForLoan only calls when it read something to reset.
RightPinForLoan(g) ==
    /\ GuessAt(g, "compare", "loan")
    /\ IF guess[g].dirty THEN attempts' = 0 /\ lock' = "null" /\ wrongs' = 0
       ELSE UNCHANGED <<attempts, lock, wrongs>>
    /\ AnswerGuess(g)

\* The request is gone before it has answered.
GuessLost(g) ==
    /\ guess[g].pc # "idle"
    /\ AnswerGuess(g)
    /\ UNCHANGED <<attempts, lock, wrongs>>

LockExpires ==
    /\ lock = "ahead"
    /\ lock' = "past" /\ wrongs' = 0
    /\ UNCHANGED <<attempts, guess>>

CheckPin(g) ==
    \/ ReadRow(g) \/ WrongPin(g) \/ RightPin(g)
    \/ ReadRowForLoan(g) \/ ClearExpired(g) \/ WrongPinForLoan(g) \/ RightPinForLoan(g)
    \/ GuessLost(g)

NextPin == LockExpires \/ \E g \in Guessers : CheckPin(g)

SpecPin == InitPin /\ [][NextPin]_pinVars

-----------------------------------------------------------------------------
\* The counter is read, compared and written apart, and ApplyForLoan writes over
\* what others have counted, the lock included; still no interleaving lets more
\* than WrongInARow wrong PINs through without a right one or a lock sat out.
GuessesBounded == wrongs <= WrongInARow
=============================================================================
