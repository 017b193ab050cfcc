---------------------- MODULE VerificationRecords_proofs ----------------------
(***************************************************************************)
(* Proofs about VerificationRecords, for any number of requests, codes,    *)
(* records and persons: a record pays once, a code proves once and answers *)
(* a limited number of guesses, and a BVN stays linked.                    *)
(***************************************************************************)
EXTENDS VerificationRecords, TLAPS

\* A code that has made a record is consumed.
ProvenConsumed ==
    \A v \in Records :
        record[v].state # "none" /\ record[v].from \in Codes \ {"provider"}
            => code[record[v].from].state = "consumed"

\* What a row has answered is covered by its resends and its counter.
GuessesCounted ==
    \A c \in Codes : wrong[c] <= MaxAttempts * code[c].resends + code[c].attempts

\* There is a row to link behind every record of a BVN.
RowBehindRecord ==
    \A v \in Records :
        record[v].state # "none" /\ record[v].type = "bvn" => bvnRow[record[v].person] # "none"

Sound ==
    /\ TypeOK /\ PaysOnce /\ CodeProvesOnce /\ ProvenConsumed
    /\ GuessesCounted /\ RowBehindRecord

-----------------------------------------------------------------------------
(* Types *)

LEMMA IdleType == Idle \in Request
<1>1. Idle.person \in Persons
  BY LimitsAssumption DEF Idle
<1> QED BY <1>1 DEF Idle, Request, AllPurposes

LEMMA AddType ==
    ASSUME TypeOK, NEW v \in Records, NEW type \in {"phone", "bvn", "nin"}, NEW p \in Persons,
           NEW from \in Codes \cup {"provider"}, Add(v, type, p, from)
    PROVE  record' \in [Records -> Record]
<1>1. [state |-> "verified", type |-> type, person |-> p,
       from |-> from, stamped |-> FALSE, face |-> FALSE] \in Record
  BY DEF Record
<1> QED BY <1>1 DEF Add, TypeOK

LEMMA FinishType ==
    ASSUME TypeOK, NEW r \in Requests, Finish(r)
    PROVE  request' \in [Requests -> Request]
  BY IdleType DEF TypeOK, Finish

\* The ways a step changes the codes.
LEMMA CodeTypes ==
    ASSUME TypeOK, NEW c \in Codes
    PROVE  /\ code[c].resends < MaxResends =>
                [code[c] EXCEPT !.attempts = 0, !.resends = code[c].resends + 1] \in Code
           /\ code[c].attempts < MaxAttempts => [code[c] EXCEPT !.attempts = @ + 1] \in Code
           /\ \A s \in {"active", "expired", "consumed"} : [code[c] EXCEPT !.state = s] \in Code
           /\ \A p \in AllPurposes :
                [code[c] EXCEPT !.state = "active", !.purpose = p] \in Code
<1>1. code[c] \in Code
  BY DEF TypeOK
<1>2. ASSUME code[c].resends < MaxResends
      PROVE  [code[c] EXCEPT !.attempts = 0, !.resends = code[c].resends + 1] \in Code
  <2>1. code[c].resends + 1 \in 0..MaxResends /\ 0 \in 0..MaxAttempts
    BY <1>1, <1>2, LimitsAssumption DEF Code
  <2> QED BY <1>1, <2>1 DEF Code
<1>3. ASSUME code[c].attempts < MaxAttempts
      PROVE  [code[c] EXCEPT !.attempts = @ + 1] \in Code
  <2>1. code[c].attempts + 1 \in 0..MaxAttempts
    BY <1>1, <1>3, LimitsAssumption DEF Code
  <2> QED BY <1>1, <2>1 DEF Code
<1>4. \A s \in {"active", "expired", "consumed"} : [code[c] EXCEPT !.state = s] \in Code
  BY <1>1 DEF Code
<1>5. \A p \in AllPurposes : [code[c] EXCEPT !.state = "active", !.purpose = p] \in Code
  BY <1>1 DEF Code
<1> QED BY <1>2, <1>3, <1>4, <1>5

LEMMA RecordTypes ==
    ASSUME TypeOK, NEW v \in Records
    PROVE  /\ [record[v] EXCEPT !.face = TRUE] \in Record
           /\ [record[v] EXCEPT !.stamped = TRUE] \in Record
           /\ [record[v] EXCEPT !.state = "used", !.stamped = TRUE] \in Record
<1>1. record[v] \in Record
  BY DEF TypeOK
<1> QED BY <1>1 DEF Record

LEMMA PaymentType ==
    ASSUME TypeOK, NEW v \in Records, PayWith(v)
    PROVE  record' \in [Records -> Record] /\ paid' \in [Records -> Nat]
<1>1. record' \in [Records -> Record]
  <2>1. record' = [record EXCEPT ![v] = [record[v] EXCEPT !.state = "used", !.stamped = TRUE]]
    BY DEF PayWith, Used
  <2>2. [record[v] EXCEPT !.state = "used", !.stamped = TRUE] \in Record
    BY RecordTypes
  <2> QED BY <2>1, <2>2 DEF TypeOK
<1>2. paid' \in [Records -> Nat]
  BY DEF PayWith, TypeOK
<1> QED BY <1>1, <1>2

LEMMA TypeKept ==
    ASSUME TypeOK, Next
    PROVE  TypeOK'
<1> USE DEF TypeOK
<1>1. ASSUME NEW c \in Codes, IssueAgain(c) \/ CodeExpires(c) \/ WrongCode(c)
      PROVE  TypeOK'
  <2>1. CASE IssueAgain(c)
    <3>1. code' = [code EXCEPT ![c] = [code[c] EXCEPT !.attempts = 0, !.resends = code[c].resends + 1]]
      BY <2>1 DEF IssueAgain
    <3>2. [code[c] EXCEPT !.attempts = 0, !.resends = code[c].resends + 1] \in Code
      BY <2>1, CodeTypes DEF IssueAgain, Resendable
    <3> QED BY <2>1, <3>1, <3>2 DEF IssueAgain
  <2>2. CASE CodeExpires(c)
    BY <2>2, CodeTypes DEF CodeExpires
  <2>3. CASE WrongCode(c)
    <3>1. code' = [code EXCEPT ![c] = [code[c] EXCEPT !.attempts = @ + 1]]
      BY <2>3 DEF WrongCode, Counted
    <3>2. [code[c] EXCEPT !.attempts = @ + 1] \in Code
      BY <2>3, CodeTypes DEF WrongCode, Guessable
    <3>3. code' \in [Codes -> Code] /\ wrong' \in [Codes -> Nat]
      BY <2>3, <3>1, <3>2 DEF WrongCode
    <3> QED BY <2>3, <3>3 DEF WrongCode
  <2> QED BY <1>1, <2>1, <2>2, <2>3
<1>2. ASSUME NEW c \in Codes, NEW v \in Records, RightCode(c, v)
      PROVE  TypeOK'
  <2>1. code' \in [Codes -> Code]
    BY <1>2, CodeTypes DEF RightCode, Consumed
  <2>2. record' \in [Records -> Record]
    BY <1>2, AddType, LimitsAssumption DEF RightCode, Idle
  <2> QED BY <1>2, <2>1, <2>2 DEF RightCode
<1>3. ASSUME NEW v \in Records, NEW p \in Persons, SaveVerifiedBVN(v, p)
      PROVE  TypeOK'
  <2>1. record' \in [Records -> Record]
    BY <1>3, AddType DEF SaveVerifiedBVN
  <2> QED BY <1>3, <2>1 DEF SaveVerifiedBVN, Upserted
<1>4. ASSUME NEW v \in Records, NEW w \in Records, ReuseBVN(v, w)
      PROVE  TypeOK'
  BY <1>3, <1>4 DEF ReuseBVN, Record
<1>5. ASSUME NEW v \in Records,
             FaceMatches(v) \/ JobCompletes(v) \/ ResetPassword(v) \/ ResetTransactionPin(v)
      PROVE  TypeOK'
  <2>1. CASE FaceMatches(v)
    BY <2>1, RecordTypes DEF FaceMatches
  <2>2. CASE JobCompletes(v)
    BY <2>2 DEF JobCompletes
  <2>3. CASE PayWith(v) /\ UNCHANGED request
    BY <2>3, PaymentType DEF PayWith
  <2> QED BY <1>5, <2>1, <2>2, <2>3 DEF ResetPassword, ResetTransactionPin
<1>6. ASSUME NEW v \in Records, NEW b \in Records, NEW n \in Records, Register(v, b, n)
      PROVE  TypeOK'
  BY <1>6, RecordTypes DEF Register, Stamped
<1>7. ASSUME NEW r \in Requests,
             \/ \E purpose \in AllPurposes : IssueFirst(r, purpose)
             \/ \E v \in Records : ValidateNIN(r, v)
             \/ CompareCurrent(r) \/ Ends(r)
      PROVE  TypeOK'
  <2>1. request' \in [Requests -> Request]
    BY <1>7, IdleType, FinishType
       DEF IssueFirst, ValidateNIN, CompareCurrent, Ends, Goto, Request, Record, AllPurposes
  <2> QED BY <1>7, <2>1 DEF IssueFirst, ValidateNIN, CompareCurrent, Ends
<1>8. ASSUME NEW r \in Requests, NEW c \in Codes, CreateOTP(r, c)
      PROVE  TypeOK'
  <2>1. code' \in [Codes -> Code]
    BY <1>8, CodeTypes DEF CreateOTP, Request
  <2> QED BY <1>8, <2>1, FinishType DEF CreateOTP
<1>9. ASSUME NEW r \in Requests, NEW v \in Records, AddNIN(r, v)
      PROVE  TypeOK'
  <2>1. record' \in [Records -> Record]
    BY <1>9, AddType DEF AddNIN, Request
  <2> QED BY <1>9, <2>1, FinishType DEF AddNIN
<1>10. ASSUME NEW r \in Requests, NEW v \in Records, PayToChange(r, v)
       PROVE  TypeOK'
  BY <1>10, PaymentType, FinishType DEF PayToChange, PayWith
<1> QED BY <1>1, <1>2, <1>3, <1>4, <1>5, <1>6, <1>7, <1>8, <1>9, <1>10
        DEF Next, ValidateBVNWithTendar, ValidateBVNWithPrembly, ReuseNIN,
            ChangePassword, ChangeTransactionPin

-----------------------------------------------------------------------------
(* Records *)

\* What a step may do to a record: make it, stamp or match it, or use it up.
RecordKept(v) ==
    \/ record'[v].state = record[v].state
    \/ record[v].state = "verified" /\ record'[v].state = "used"

Same(v) == /\ record'[v].type = record[v].type /\ record'[v].person = record[v].person
           /\ record'[v].from = record[v].from

\* A new record, and what stands behind it.
Made(v) ==
    /\ record[v].state = "none" /\ record'[v].state = "verified"
    /\ record'[v].from \in Codes \ {"provider"} =>
          /\ code[record'[v].from].state = "active"
          /\ code' = Consumed(record'[v].from)
    /\ record'[v].type = "bvn" => bvnRow'[record'[v].person] # "none"

LEMMA AddMakes ==
    ASSUME TypeOK, NEW v \in Records, NEW type, NEW p, NEW from, Add(v, type, p, from)
    PROVE  /\ record[v].state = "none" /\ record'[v].state = "verified"
           /\ record'[v].type = type /\ record'[v].person = p /\ record'[v].from = from
           /\ \A w \in Records \ {v} : record'[w] = record[w]
  BY DEF TypeOK, Add

\* At most one record is new after a step; the others keep what they say.
LEMMA RecordStep ==
    ASSUME TypeOK, RowBehindRecord, Next
    PROVE  \/ \A v \in Records : RecordKept(v) /\ (record[v].state # "none" => Same(v))
           \/ \E v \in Records :
                 /\ Made(v) /\ paid' = paid
                 /\ \A w \in Records \ {v} : record'[w] = record[w]
<1> DEFINE Kept == \A v \in Records : RecordKept(v) /\ (record[v].state # "none" => Same(v))
           New == \E v \in Records : /\ Made(v) /\ paid' = paid
                                     /\ \A w \in Records \ {v} : record'[w] = record[w]
<1>1. ASSUME NEW c \in Codes, NEW v \in Records, RightCode(c, v)
      PROVE  Kept \/ New
  <2>1. Add(v, "phone", Idle.person, c) /\ code[c].state = "active" /\ code' = Consumed(c)
        /\ paid' = paid
    BY <1>1 DEF RightCode, Guessable
  <2>2. Made(v)
    BY <2>1, AddMakes DEF Made
  <2> QED BY <2>1, <2>2, AddMakes
<1>2. ASSUME NEW v \in Records, NEW p \in Persons, SaveVerifiedBVN(v, p)
      PROVE  Kept \/ New
  <2>1. Add(v, "bvn", p, "provider") /\ bvnRow' = Upserted(p) /\ code' = code /\ paid' = paid
    BY <1>2 DEF SaveVerifiedBVN
  <2>2. bvnRow'[p] # "none"
    BY <2>1 DEF Upserted, TypeOK
  <2> QED BY <2>1, <2>2, AddMakes DEF Made
<1>3. ASSUME NEW v \in Records, NEW w \in Records, ReuseBVN(v, w)
      PROVE  Kept \/ New
  <2>1. record[w].person \in Persons
    BY DEF TypeOK, Record
  <2> QED BY <1>2, <1>3, <2>1 DEF ReuseBVN
<1>4. ASSUME NEW r \in Requests, NEW v \in Records, AddNIN(r, v)
      PROVE  Kept \/ New
  <2>1. Add(v, "nin", request[r].person, "provider") /\ paid' = paid
    BY <1>4 DEF AddNIN
  <2> QED BY <2>1, AddMakes DEF Made
<1>5. ASSUME NEW v \in Records, FaceMatches(v)
      PROVE  Kept
  BY <1>5 DEF TypeOK, FaceMatches, RecordKept, Same
<1>6. ASSUME NEW v \in Records, PayWith(v)
      PROVE  Kept
  BY <1>6 DEF TypeOK, PayWith, Used, Verified, RecordKept, Same
<1>7. ASSUME NEW v \in Records, NEW b \in Records, NEW n \in Records, Register(v, b, n)
      PROVE  Kept
  BY <1>7 DEF TypeOK, Register, Stamped, RecordKept, Same
<1>8. ASSUME record' = record
      PROVE  Kept
  BY <1>8 DEF RecordKept, Same
<1>9. CASE \/ \E c \in Codes : IssueAgain(c) \/ CodeExpires(c) \/ WrongCode(c)
           \/ \E v \in Records : JobCompletes(v)
           \/ \E r \in Requests :
                 \/ \E purpose \in AllPurposes : IssueFirst(r, purpose)
                 \/ \E c \in Codes : CreateOTP(r, c)
                 \/ \E v \in Records : ValidateNIN(r, v)
                 \/ CompareCurrent(r) \/ Ends(r)
  BY <1>8, <1>9 DEF IssueAgain, CodeExpires, WrongCode, JobCompletes, IssueFirst, CreateOTP,
                    ValidateNIN, CompareCurrent, Ends
<1> QED
  BY <1>1, <1>2, <1>3, <1>4, <1>5, <1>6, <1>7, <1>9
     DEF Next, ValidateBVNWithTendar, ValidateBVNWithPrembly, ReuseNIN, ResetPassword,
         ResetTransactionPin, ChangePassword, ChangeTransactionPin, PayToChange

-----------------------------------------------------------------------------
(* Codes and BVN rows *)

\* A consumed code stays one, whichever request touches the row.
LEMMA ConsumedStays ==
    ASSUME TypeOK, Next, NEW c \in Codes, code[c].state = "consumed"
    PROVE  code'[c].state = "consumed"
<1>1. ASSUME NEW d \in Codes,
             \/ IssueAgain(d) \/ CodeExpires(d) \/ WrongCode(d)
             \/ \E v \in Records : RightCode(d, v)
             \/ \E r \in Requests : CreateOTP(r, d)
      PROVE  code'[c].state = "consumed"
  BY <1>1 DEF TypeOK, IssueAgain, CodeExpires, WrongCode, RightCode, CreateOTP,
              Guessable, Counted, Consumed
<1>2. ASSUME code' = code
      PROVE  code'[c].state = "consumed"
  BY <1>2
<1> QED
  BY <1>1, <1>2
     DEF Next, ReuseBVN, ValidateBVNWithTendar, ValidateBVNWithPrembly, SaveVerifiedBVN,
         FaceMatches, JobCompletes, ResetPassword, ResetTransactionPin, PayWith, Register,
         IssueFirst, ValidateNIN, AddNIN, ReuseNIN, ChangePassword, ChangeTransactionPin,
         PayToChange, CompareCurrent, Ends

LEMMA LinksStay ==
    ASSUME TypeOK, Next, NEW p \in Persons
    PROVE  /\ bvnRow[p] # "none" => bvnRow'[p] # "none"
           /\ bvnRow[p] = "linked" => bvnRow'[p] = "linked"
<1>1. ASSUME NEW v \in Records, NEW q \in Persons, SaveVerifiedBVN(v, q)
      PROVE  /\ bvnRow[p] # "none" => bvnRow'[p] # "none"
             /\ bvnRow[p] = "linked" => bvnRow'[p] = "linked"
  BY <1>1 DEF TypeOK, SaveVerifiedBVN, Upserted
<1>2. ASSUME NEW v \in Records, NEW w \in Records, ReuseBVN(v, w)
      PROVE  /\ bvnRow[p] # "none" => bvnRow'[p] # "none"
             /\ bvnRow[p] = "linked" => bvnRow'[p] = "linked"
  <2>1. record[w].person \in Persons
    BY DEF TypeOK, Record
  <2> QED BY <1>1, <1>2, <2>1 DEF ReuseBVN
<1>3. ASSUME NEW b \in Records, JobCompletes(b)
      PROVE  /\ bvnRow[p] # "none" => bvnRow'[p] # "none"
             /\ bvnRow[p] = "linked" => bvnRow'[p] = "linked"
  BY <1>3 DEF TypeOK, JobCompletes
<1>4. ASSUME bvnRow' = bvnRow
      PROVE  /\ bvnRow[p] # "none" => bvnRow'[p] # "none"
             /\ bvnRow[p] = "linked" => bvnRow'[p] = "linked"
  BY <1>4
<1> QED
  BY <1>1, <1>2, <1>3, <1>4
     DEF Next, ValidateBVNWithTendar, ValidateBVNWithPrembly, FaceMatches, ResetPassword,
         ResetTransactionPin, PayWith, Register, IssueFirst, ValidateNIN, AddNIN, ReuseNIN,
         ChangePassword, ChangeTransactionPin, PayToChange, CompareCurrent, Ends,
         IssueAgain, CodeExpires, WrongCode, RightCode, CreateOTP

-----------------------------------------------------------------------------
(* The invariant *)

\* Only a payment is counted, and only a payment uses a record up.
LEMMA PaysOncePreserved ==
    ASSUME TypeOK, PaysOnce, Next
    PROVE  PaysOnce'
<1>1. ASSUME NEW v \in Records, PayWith(v)
      PROVE  PaysOnce'
  BY <1>1 DEF TypeOK, PaysOnce, PayWith, Used, Verified
<1>2. ASSUME NEW v \in Records, NEW type, NEW p, NEW from, Add(v, type, p, from), paid' = paid
      PROVE  PaysOnce'
  BY <1>2, AddMakes DEF PaysOnce
<1>3. ASSUME NEW v \in Records, FaceMatches(v)
      PROVE  PaysOnce'
  BY <1>3 DEF TypeOK, PaysOnce, FaceMatches
<1>4. ASSUME NEW v \in Records, NEW b \in Records, NEW n \in Records, Register(v, b, n)
      PROVE  PaysOnce'
  BY <1>4 DEF TypeOK, PaysOnce, Register, Stamped
<1>5. ASSUME UNCHANGED <<record, paid>>
      PROVE  PaysOnce'
  BY <1>5 DEF PaysOnce
<1> QED
  BY <1>1, <1>2, <1>3, <1>4, <1>5
     DEF Next, ValidateBVNWithTendar, ValidateBVNWithPrembly, ReuseBVN, SaveVerifiedBVN,
         ResetPassword, ResetTransactionPin, IssueFirst, ValidateNIN, AddNIN, ReuseNIN,
         ChangePassword, ChangeTransactionPin, PayToChange, CompareCurrent, Ends,
         IssueAgain, CodeExpires, WrongCode, RightCode, CreateOTP, JobCompletes

\* A code is active when it makes its record, so no earlier record is from it.
LEMMA ProvesOncePreserved ==
    ASSUME TypeOK, RowBehindRecord, CodeProvesOnce, ProvenConsumed, Next
    PROVE  CodeProvesOnce' /\ ProvenConsumed'
<1>1. CASE \A v \in Records : RecordKept(v) /\ (record[v].state # "none" => Same(v))
  <2>1. \A v \in Records : record'[v].state # "none" => record[v].state # "none" /\ Same(v)
    BY <1>1 DEF RecordKept
  <2> QED BY <2>1, ConsumedStays DEF CodeProvesOnce, ProvenConsumed, Same
<1>2. ASSUME NEW v \in Records, Made(v), \A w \in Records \ {v} : record'[w] = record[w]
      PROVE  CodeProvesOnce' /\ ProvenConsumed'
  <2>1. ASSUME record'[v].from \in Codes \ {"provider"}
        PROVE  /\ code'[record'[v].from].state = "consumed"
               /\ \A w \in Records \ {v} :
                     record[w].state # "none" => record[w].from # record'[v].from
    <3> DEFINE c == record'[v].from
    <3>1. c \in Codes /\ code[c].state = "active" /\ code' = [code EXCEPT ![c].state = "consumed"]
      BY <1>2, <2>1 DEF Made, Consumed
    <3>2. code'[c].state = "consumed"
      BY <3>1 DEF TypeOK, Code
    <3>3. \A w \in Records : record[w].state # "none" => record[w].from # c
      BY <2>1, <3>1 DEF ProvenConsumed
    <3> QED BY <3>2, <3>3
  <2>2. \A w \in Records : record'[w].from \in Codes \cup {"provider"}
    BY TypeKept DEF TypeOK, Record
  <2>3. CodeProvesOnce'
    BY <1>2, <2>1, <2>2 DEF CodeProvesOnce
  <2>4. ProvenConsumed'
    BY <1>2, <2>1, ConsumedStays DEF ProvenConsumed
  <2> QED BY <2>3, <2>4
<1> QED BY <1>1, <1>2, RecordStep

LEMMA RowsPreserved ==
    ASSUME TypeOK, RowBehindRecord, Next
    PROVE  RowBehindRecord'
<1>1. CASE \A v \in Records : RecordKept(v) /\ (record[v].state # "none" => Same(v))
  <2>1. \A v \in Records : record'[v].state # "none" => record[v].state # "none" /\ Same(v)
    BY <1>1 DEF RecordKept
  <2>2. \A v \in Records : record[v].person \in Persons
    BY DEF TypeOK, Record
  <2> QED BY <2>1, <2>2, LinksStay DEF RowBehindRecord, Same
<1>2. ASSUME NEW v \in Records, Made(v), \A w \in Records \ {v} : record'[w] = record[w]
      PROVE  RowBehindRecord'
  <2>1. \A w \in Records : record[w].person \in Persons
    BY DEF TypeOK, Record
  <2> QED BY <1>2, <2>1, LinksStay DEF RowBehindRecord, Made
<1> QED BY <1>1, <1>2, RecordStep

\* A resend pays for the guesses that its reset of the counter forgets.
LEMMA ResendCovers ==
    ASSUME NEW resends \in Nat, NEW attempts \in 0..MaxAttempts, NEW w \in Nat,
           w <= MaxAttempts * resends + attempts
    PROVE  w <= MaxAttempts * (resends + 1) + 0
<1> DEFINE product == MaxAttempts * resends
<1>1. product \in Nat /\ MaxAttempts * (resends + 1) = product + MaxAttempts
  BY LimitsAssumption
<1> HIDE DEF product
<1>2. w <= product + attempts
  BY DEF product
<1> QED BY <1>1, <1>2, LimitsAssumption

LEMMA GuessesPreserved ==
    ASSUME TypeOK, GuessesCounted, Next
    PROVE  GuessesCounted'
<1>0. \A c \in Codes : /\ code[c].attempts \in 0..MaxAttempts /\ code[c].resends \in Nat
                       /\ wrong[c] \in Nat
  BY LimitsAssumption DEF TypeOK, Code
<1>1. ASSUME NEW c \in Codes, IssueAgain(c)
      PROVE  GuessesCounted'
  <2>1. /\ code'[c].attempts = 0 /\ code'[c].resends = code[c].resends + 1
        /\ wrong' = wrong /\ \A d \in Codes \ {c} : code'[d] = code[d]
    BY <1>1 DEF TypeOK, IssueAgain, Code
  <2>2. wrong[c] <= MaxAttempts * (code[c].resends + 1) + 0
    BY <1>0, ResendCovers DEF GuessesCounted
  <2> QED BY <2>1, <2>2 DEF GuessesCounted
<1>2. ASSUME NEW c \in Codes, WrongCode(c)
      PROVE  GuessesCounted'
  <2>1. /\ code'[c].attempts = code[c].attempts + 1 /\ code'[c].resends = code[c].resends
        /\ wrong'[c] = wrong[c] + 1
        /\ \A d \in Codes \ {c} : code'[d] = code[d] /\ wrong'[d] = wrong[d]
    BY <1>2 DEF TypeOK, WrongCode, Counted, Code
  <2>2. MaxAttempts * code[c].resends \in Nat
    BY <1>0, LimitsAssumption
  <2>3. wrong[c] + 1 <= MaxAttempts * code[c].resends + (code[c].attempts + 1)
    BY <1>0, <2>2 DEF GuessesCounted
  <2> QED BY <2>1, <2>3 DEF GuessesCounted
<1>3. ASSUME NEW c \in Codes, CodeExpires(c) \/ (\E v \in Records : RightCode(c, v))
                              \/ (\E r \in Requests : CreateOTP(r, c))
      PROVE  GuessesCounted'
  <2>1. wrong' = wrong /\ \A d \in Codes : /\ code'[d].attempts = code[d].attempts
                                           /\ code'[d].resends = code[d].resends
    <3>1. CASE CodeExpires(c)
      BY <3>1 DEF TypeOK, CodeExpires, Code
    <3>2. CASE \E v \in Records : RightCode(c, v)
      BY <3>2 DEF TypeOK, RightCode, Consumed, Code
    <3>3. CASE \E r \in Requests : CreateOTP(r, c)
      BY <3>3 DEF TypeOK, CreateOTP, Code
    <3> QED BY <1>3, <3>1, <3>2, <3>3
  <2> QED BY <2>1 DEF GuessesCounted
<1>4. ASSUME UNCHANGED <<code, wrong>>
      PROVE  GuessesCounted'
  BY <1>4 DEF GuessesCounted
<1> QED
  BY <1>1, <1>2, <1>3, <1>4
     DEF Next, ReuseBVN, ValidateBVNWithTendar, ValidateBVNWithPrembly, SaveVerifiedBVN,
         FaceMatches, JobCompletes, ResetPassword, ResetTransactionPin, PayWith, Register,
         IssueFirst, ValidateNIN, AddNIN, ReuseNIN, ChangePassword, ChangeTransactionPin,
         PayToChange, CompareCurrent, Ends

LEMMA SoundAtFirst == Init => Sound
<1> SUFFICES ASSUME Init PROVE Sound
  OBVIOUS
<1>1. TypeOK
  <2>1. Idle \in Request /\ Idle.person \in Persons
    BY IdleType, LimitsAssumption DEF Idle
  <2> QED BY <2>1, LimitsAssumption DEF Init, TypeOK, Code, Record, AllPurposes
<1>2. \A c \in Codes : wrong[c] = 0 /\ code[c].attempts = 0 /\ code[c].resends = 0
  BY DEF Init
<1>3. GuessesCounted
  BY <1>2, LimitsAssumption DEF GuessesCounted
<1>4. PaysOnce /\ CodeProvesOnce /\ ProvenConsumed /\ RowBehindRecord
  BY DEF Init, PaysOnce, CodeProvesOnce, ProvenConsumed, RowBehindRecord
<1> QED BY <1>1, <1>3, <1>4 DEF Sound

LEMMA SoundPreserved == Sound /\ [Next]_vars => Sound'
<1>1. ASSUME Sound, Next
      PROVE  Sound'
  BY <1>1, TypeKept, PaysOncePreserved, ProvesOncePreserved, RowsPreserved, GuessesPreserved
     DEF Sound
<1>2. ASSUME Sound, UNCHANGED vars
      PROVE  Sound'
  BY <1>2 DEF Sound, TypeOK, PaysOnce, CodeProvesOnce, ProvenConsumed, GuessesCounted,
              RowBehindRecord, vars
<1> QED BY <1>1, <1>2

-----------------------------------------------------------------------------
(* The theorems *)

\* The invariant: records, codes and BVN rows stay in step, whichever requests race.
THEOREM SoundAlways == Spec => []Sound
  BY SoundAtFirst, SoundPreserved, PTL DEF Spec

\* A verification record pays for one reset or change, for any number of requests
\* that race for any number of records (MarkVerificationUsed under the row lock).
THEOREM PaysOnceAlways == Spec => []PaysOnce
<1>1. Sound => PaysOnce BY DEF Sound
<1> QED BY <1>1, SoundAlways, PTL

\* A code makes one record, however many right answers race (otp Verify).
THEOREM CodeProvesOnceAlways == Spec => []CodeProvesOnce
<1>1. Sound => CodeProvesOnce BY DEF Sound
<1> QED BY <1>1, SoundAlways, PTL

\* A row of wallet_otps answers at most MaxAttempts wrong guesses for the first
\* code and for each resend, whatever the two limits are.
THEOREM GuessesLimitedAlways == Spec => []GuessesLimited
<1>1. ASSUME Sound PROVE GuessesLimited
  <2>1. ASSUME NEW c \in Codes
        PROVE  wrong[c] <= MaxAttempts * (MaxResends + 1)
    <3>1. /\ code[c].attempts \in 0..MaxAttempts /\ code[c].resends \in 0..MaxResends
          /\ wrong[c] \in Nat
      BY <1>1 DEF Sound, TypeOK, Code
    <3>2. wrong[c] <= MaxAttempts * (code[c].resends + 1) + 0
      BY <1>1, <3>1, ResendCovers, LimitsAssumption DEF Sound, GuessesCounted
    <3>3. MaxAttempts * (code[c].resends + 1) <= MaxAttempts * (MaxResends + 1)
      BY <3>1, LimitsAssumption
    <3> QED BY <3>1, <3>2, <3>3, LimitsAssumption
  <2> QED BY <2>1 DEF GuessesLimited
<1> QED BY <1>1, SoundAlways, PTL

\* A linked BVN stays linked when it is validated again, and every BVN record has a
\* row that a registration can link (saveVerifiedBVN).
THEOREM BvnLinkKeptAlways == Spec => BvnLinkKept
<1>1. ASSUME Sound, Next
      PROVE  /\ \A p \in Persons : bvnRow[p] = "linked" => bvnRow'[p] = "linked"
             /\ \A v \in Records : (Verified(v) /\ record[v].type = "bvn")' =>
                    bvnRow'[record'[v].person] # "none"
  <2>1. Sound'
    BY <1>1, SoundPreserved
  <2> QED BY <1>1, <2>1, LinksStay DEF Sound, RowBehindRecord, Verified
<1>2. Sound /\ [Next]_vars =>
        [/\ \A p \in Persons : bvnRow[p] = "linked" => bvnRow'[p] = "linked"
         /\ \A v \in Records : (Verified(v) /\ record[v].type = "bvn")' =>
                bvnRow'[record'[v].person] # "none"]_vars
  BY <1>1
<1> QED BY <1>2, SoundAlways, PTL DEF Spec, BvnLinkKept

=============================================================================
