------------------------- MODULE BillPurchase_proofs -------------------------
(***************************************************************************)
(* Proofs about BillPurchase, for any number of purchases, customers and   *)
(* amounts and any number of faults: it implements PurchasePromise, and a  *)
(* purchase delivered without a debit stays pending, unless the debit was  *)
(* declined in an answer that nobody takes for one.                        *)
(***************************************************************************)
EXTENDS BillPurchase, TLAPS

Working == {"debit", "failTx", "fulfil", "complete", "pend", "refund", "reverse"}

\* The row follows the handler.
RowSound(p) ==
    /\ call[p].pc \in {"idle", "add"} => row[p] = "none"
    /\ call[p].pc \in Working => row[p] = "pending"
    /\ call[p].pc = "extra" => row[p] = "successful"

\* What the handler knows of the provider and the biller.
HandlerSound(p) ==
    /\ call[p].pc = "debit" => (call[p].done <=> p \in debited)
    /\ call[p].pc = "fulfil" => (call[p].done <=> p \in fulfilled)
    /\ call[p].result => p \in debited \cup debitDeclined
    /\ call[p].pc = "refund" => (call[p].done <=> p \in refunded)
    /\ call[p].pc \in {"complete", "pend", "refund", "reverse"} =>
           p \in debited \cup debitDeclined
    /\ call[p].pc = "complete" => p \in fulfilled \cup fulfilDeclined
    /\ call[p].pc \in {"idle", "add", "debit", "failTx", "fulfil", "complete", "pend"} =>
           p \notin refunded
    /\ call[p].pc \in {"idle", "add", "debit", "failTx"} => p \notin fulfilled
    /\ call[p].pc \in {"idle", "add"} => p \notin debited
    /\ call[p].pc \in {"idle", "add", "debit", "failTx"} => p \notin debitDeclined
    /\ call[p].pc \in {"idle", "add", "debit", "failTx", "fulfil", "pend", "refund", "reverse"} =>
           p \notin fulfilDeclined

\* What may still happen late: nothing twice, and nothing the handler still waits
\* for or has not asked for.
LateSound(p) ==
    /\ p \in late.debit => p \notin debited \cup debitDeclined /\ row[p] \in {"pending", "failed"}
                           /\ call[p].pc \notin {"idle", "add", "debit"}
    /\ p \in late.fulfil => p \notin fulfilled \cup fulfilDeclined
                            /\ row[p] \in {"pending", "reversal_pending", "reversed"}
                            /\ call[p].pc \in {"pend", "refund", "reverse", "over"}
    /\ p \in late.refund => p \in (debited \cup debitDeclined) \ (refunded \cup fulfilDeclined)
                            /\ row[p] \in {"pending", "reversed"}
                            /\ call[p].pc \in {"reverse", "over"}

\* Only a purchase with a debit result goes beyond pending once the biller may
\* deliver it.
UndebitedSound(p) ==
    p \in fulfilled \cup late.fulfil =>
        p \in debited \/ p \in debitDeclined \/ row[p] = "pending"

SoundAt(p) == RowSound(p) /\ HandlerSound(p) /\ LateSound(p) /\ UndebitedSound(p)

Sound == TypeOK /\ \A p \in Purchases : SoundAt(p)

-----------------------------------------------------------------------------
(* Steps of one purchase *)

\* A step of one purchase: the others keep their row, handler and effects.
Frame(p) ==
    /\ call' \in [Purchases -> Call] /\ \A q \in Purchases \ {p} : call'[q] = call[q]
    /\ row' \in [Purchases -> Statuses] /\ \A q \in Purchases \ {p} : row'[q] = row[q]
    /\ stored' \in {stored, stored \cup {p}}
    /\ funds' \in [Customers -> Nat] /\ faults' \in Nat
    /\ debited' \in {debited, debited \cup {p}}
    /\ fulfilled' \in {fulfilled, fulfilled \cup {p}}
    /\ refunded' \in {refunded, refunded \cup {p}}
    /\ debitDeclined' \in {debitDeclined, debitDeclined \cup {p}}
    /\ fulfilDeclined' \in {fulfilDeclined, fulfilDeclined \cup {p}}
    /\ late' \in [Request -> SUBSET Purchases]
    /\ \A r \in Request, q \in Purchases \ {p} : q \in late'[r] <=> q \in late[r]

LEMMA OthersStay ==
    ASSUME Sound, NEW p \in Purchases, Frame(p), SoundAt(p)'
    PROVE  Sound'
<1>1. TypeOK' BY DEF Sound, TypeOK, Frame
<1>2. ASSUME NEW q \in Purchases \ {p} PROVE SoundAt(q)'
  <2>1. SoundAt(q) BY DEF Sound
  <2>2. row'[q] = row[q] /\ call'[q] = call[q]
        /\ (q \in debited' <=> q \in debited) /\ (q \in fulfilled' <=> q \in fulfilled)
        /\ (q \in refunded' <=> q \in refunded)
        /\ (q \in debitDeclined' <=> q \in debitDeclined)
        /\ (q \in fulfilDeclined' <=> q \in fulfilDeclined)
    BY DEF Frame
  <2>3. (q \in late'["debit"] <=> q \in late["debit"])
        /\ (q \in late'["fulfil"] <=> q \in late["fulfil"])
        /\ (q \in late'["refund"] <=> q \in late["refund"])
    BY DEF Frame, Request
  <2>4. RowSound(q)' BY <2>1, <2>2 DEF SoundAt, RowSound
  <2>5. HandlerSound(q)' BY <2>1, <2>2 DEF SoundAt, HandlerSound
  <2>6. LateSound(q)' BY <2>1, <2>2, <2>3 DEF SoundAt, LateSound
  <2>7. UndebitedSound(q)' BY <2>1, <2>2, <2>3 DEF SoundAt, UndebitedSound
  <2> QED BY <2>4, <2>5, <2>6, <2>7 DEF SoundAt
<1> QED BY <1>1, <1>2 DEF Sound

Labels == {"idle", "add", "debit", "failTx", "fulfil", "complete", "extra", "pend", "refund",
           "reverse", "over"}

\* A jump to another label.
LEMMA GotoAt ==
    ASSUME TypeOK, NEW p \in Purchases, NEW l \in Labels, Goto(p, l)
    PROVE  /\ call' \in [Purchases -> Call]
           /\ call'[p].pc = l /\ ~call'[p].done /\ call'[p].result = call[p].result
           /\ \A q \in Purchases \ {p} : call'[q] = call[q]
<1>1. call \in [Purchases -> Call] /\ call[p] \in Call BY DEF TypeOK
<1>2. call' = [call EXCEPT ![p] = [call[p] EXCEPT !.pc = l, !.done = FALSE]] BY DEF Goto
<1>3. [call[p] EXCEPT !.pc = l, !.done = FALSE] \in Call BY <1>1 DEF Call, Labels
<1>4. call' \in [Purchases -> Call] BY <1>1, <1>2, <1>3
<1>5. call'[p] = [call[p] EXCEPT !.pc = l, !.done = FALSE] BY <1>1, <1>2
<1> QED BY <1>1, <1>2, <1>4, <1>5 DEF Call

\* The awaited request took effect.
LEMMA DoneAt ==
    ASSUME TypeOK, NEW p \in Purchases, call' = [call EXCEPT ![p].done = TRUE]
    PROVE  /\ call' \in [Purchases -> Call]
           /\ call'[p].pc = call[p].pc /\ call'[p].done
           /\ call'[p].result = call[p].result
           /\ \A q \in Purchases \ {p} : call'[q] = call[q]
<1>1. call \in [Purchases -> Call] /\ call[p] \in Call BY DEF TypeOK
<1>2. call' = [call EXCEPT ![p] = [call[p] EXCEPT !.done = TRUE]] OBVIOUS
<1>3. [call[p] EXCEPT !.done = TRUE] \in Call BY <1>1 DEF Call
<1>4. call' \in [Purchases -> Call] BY <1>1, <1>2, <1>3
<1>5. call'[p] = [call[p] EXCEPT !.done = TRUE] BY <1>1, <1>2
<1> QED BY <1>1, <1>2, <1>4, <1>5 DEF Call

\* A request given up joins the late ones exactly when it has not taken effect.
LEMMA AbandonAt ==
    ASSUME TypeOK, NEW p \in Purchases, Abandon(p)
    PROVE  /\ late' \in [Request -> SUBSET Purchases]
           /\ \A r \in Request : late'[r] = IF r = call[p].pc /\ ~call[p].done
                                            THEN late[r] \cup {p} ELSE late[r]
BY DEF TypeOK, Abandon, Request

-----------------------------------------------------------------------------
(* One step of a purchase keeps it sound *)

\* A jump, with an unchanged row.
LEMMA JumpFrame ==
    ASSUME TypeOK, NEW p \in Purchases, NEW l \in Labels, Goto(p, l), faults' \in Nat,
           UNCHANGED <<row, stored, funds, effects>>,
           late' = late \/ Abandon(p)
    PROVE  Frame(p)
<1>1. late' \in [Request -> SUBSET Purchases]
      /\ \A r \in Request, q \in Purchases \ {p} : q \in late'[r] <=> q \in late[r]
  BY AbandonAt DEF TypeOK
<1>2. call' \in [Purchases -> Call] /\ \A q \in Purchases \ {p} : call'[q] = call[q]
  BY GotoAt
<1> QED BY <1>1, <1>2 DEF Frame, TypeOK, effects, declined

\* A jump that closes or opens the row.
LEMMA StatusFrame ==
    ASSUME TypeOK, NEW p \in Purchases, NEW l \in Labels, Goto(p, l), NEW s \in Statuses,
           row' = [row EXCEPT ![p] = s], UNCHANGED <<stored, funds, effects, late, faults>>
    PROVE  Frame(p) /\ row'[p] = s
<1>1. call' \in [Purchases -> Call] /\ \A q \in Purchases \ {p} : call'[q] = call[q]
  BY GotoAt
<1> QED BY <1>1 DEF Frame, TypeOK, effects, declined

\* What is late after a jump.
LEMMA LateAt ==
    ASSUME TypeOK, NEW p \in Purchases, late' = late \/ Abandon(p)
    PROVE  \/ UNCHANGED <<late.debit, late.fulfil, late.refund>>
           \/ /\ ~call[p].done
              /\ late'.debit = IF call[p].pc = "debit" THEN late.debit \cup {p} ELSE late.debit
              /\ late'.fulfil = IF call[p].pc = "fulfil" THEN late.fulfil \cup {p} ELSE late.fulfil
              /\ late'.refund = IF call[p].pc = "refund" THEN late.refund \cup {p} ELSE late.refund
BY AbandonAt DEF Request

\* Where a handler goes without writing its row.
Jumps(p, l) ==
    \/ call[p].pc = "idle" /\ l = "add"
    \/ call[p].pc = "debit" /\ l \in {"fulfil", "failTx"}
    \/ call[p].pc = "fulfil" /\ call[p].result /\ l \in {"pend", "refund"}
    \/ call[p].pc = "fulfil" /\ call[p].result /\ call[p].done /\ l = "complete"
    \/ call[p].pc = "refund" /\ l = "reverse"
    \/ call[p].pc \notin {"idle", "over"} /\ l = "over"

LEMMA JumpKeeps ==
    ASSUME Sound, NEW p \in Purchases, NEW l \in Labels, Goto(p, l), Jumps(p, l),
           late' = late \/ Abandon(p), faults' \in Nat, UNCHANGED <<row, stored, funds, effects>>
    PROVE  Frame(p) /\ SoundAt(p)'
<1>1. TypeOK /\ SoundAt(p) BY DEF Sound
<1>2. Frame(p) BY <1>1, JumpFrame
<1>3. call'[p].pc = l /\ ~call'[p].done /\ call'[p].result = call[p].result
  BY <1>1, GotoAt
<1>4. UNCHANGED <<row, debited, fulfilled, refunded, debitDeclined, fulfilDeclined>>
  BY DEF effects, declined
<1>5. \/ UNCHANGED <<late.debit, late.fulfil, late.refund>>
      \/ /\ ~call[p].done
         /\ late'.debit = IF call[p].pc = "debit" THEN late.debit \cup {p} ELSE late.debit
         /\ late'.fulfil = IF call[p].pc = "fulfil" THEN late.fulfil \cup {p} ELSE late.fulfil
         /\ late'.refund = IF call[p].pc = "refund" THEN late.refund \cup {p} ELSE late.refund
  BY <1>1, LateAt
<1>6. RowSound(p)' BY <1>1, <1>3, <1>4 DEF Jumps, SoundAt, RowSound, Working
<1>7. HandlerSound(p)' BY <1>1, <1>3, <1>4 DEF Jumps, SoundAt, HandlerSound
<1>8. LateSound(p)'
  BY <1>1, <1>3, <1>4, <1>5 DEF Jumps, SoundAt, RowSound, HandlerSound, LateSound, Working
<1>9. UndebitedSound(p)'
  BY <1>1, <1>3, <1>4, <1>5 DEF Jumps, SoundAt, RowSound, UndebitedSound, Working
<1> QED BY <1>2, <1>6, <1>7, <1>8, <1>9 DEF SoundAt

\* How a handler writes its row.
Writes(p, l, s) ==
    \/ call[p].pc = "add" /\ l = "debit" /\ s = "pending"
    \/ call[p].pc = "failTx" /\ l = "over" /\ s = "failed"
    \/ call[p].pc = "complete" /\ l \in {"extra", "over"} /\ s = "successful"
    \/ call[p].pc = "pend" /\ l = "over" /\ s = "reversal_pending"
    \/ call[p].pc = "reverse" /\ l = "over" /\ s = "reversed"

LEMMA WriteKeeps ==
    ASSUME Sound, NEW p \in Purchases, NEW l \in Labels, Goto(p, l), NEW s \in Statuses,
           row' = [row EXCEPT ![p] = s], Writes(p, l, s),
           UNCHANGED <<stored, funds, effects, late, faults>>
    PROVE  Frame(p) /\ SoundAt(p)'
<1>1. TypeOK /\ SoundAt(p) BY DEF Sound
<1>2. Frame(p) /\ row'[p] = s BY <1>1, StatusFrame
<1>3. call'[p].pc = l /\ ~call'[p].done /\ call'[p].result = call[p].result
  BY <1>1, GotoAt
<1>4. UNCHANGED <<debited, fulfilled, refunded, debitDeclined, fulfilDeclined, late>>
  BY DEF effects, declined
<1>5. RowSound(p)' BY <1>2, <1>3 DEF Writes, RowSound, Working
<1>6. HandlerSound(p)' BY <1>1, <1>3, <1>4 DEF Writes, SoundAt, HandlerSound
<1>7. LateSound(p)' BY <1>1, <1>2, <1>3, <1>4 DEF Writes, SoundAt, HandlerSound, LateSound
<1>8. UndebitedSound(p)'
  BY <1>1, <1>2, <1>3, <1>4 DEF Writes, SoundAt, HandlerSound, LateSound, UndebitedSound
<1> QED BY <1>2, <1>5, <1>6, <1>7, <1>8 DEF SoundAt

\* The steps of a handler.
LEMMA HandlerKeeps ==
    ASSUME Sound, NEW p \in Purchases, Start(p) \/ Handler(p)
    PROVE  Frame(p) /\ SoundAt(p)'
<1>1. TypeOK /\ SoundAt(p) BY DEF Sound
<1>2. call \in [Purchases -> Call] /\ call[p] \in Call /\ faults \in Nat BY <1>1 DEF TypeOK
<1>3. CASE Start(p)
  <2>1. CASE StartAirtime(p) BY <1>2, <2>1, JumpKeeps DEF StartAirtime, Jumps, Labels
  <2>2. CASE StartData(p) BY <1>2, <2>2, JumpKeeps DEF StartData, Jumps, Labels
  <2>3. CASE StartElectricity(p) BY <1>2, <2>3, JumpKeeps DEF StartElectricity, Jumps, Labels
  <2>4. CASE StartCable(p) BY <1>2, <2>4, JumpKeeps DEF StartCable, Jumps, Labels
  <2> QED BY <1>3, <2>1, <2>2, <2>3, <2>4 DEF Start
<1>4. CASE AddTransaction(p)
  BY <1>4, WriteKeeps DEF AddTransaction, Writes, Labels, Statuses
<1>5. CASE DebitReturns(p)
  <2> DEFINE n == [call[p] EXCEPT !.pc = "fulfil", !.result = TRUE, !.done = FALSE]
  <2>1. n \in Call BY <1>2 DEF Call
  <2>2. call' = [call EXCEPT ![p] = n] BY <1>5 DEF DebitReturns
  <2>3. n.pc = "fulfil" /\ ~n.done BY <1>2 DEF Call
  <2> HIDE DEF n
  <2>4. call' \in [Purchases -> Call] /\ call'[p].pc = "fulfil" /\ ~call'[p].done
        /\ \A q \in Purchases \ {p} : call'[q] = call[q]
    BY <1>2, <2>1, <2>2, <2>3
  <2>5. Frame(p) BY <1>1, <1>5, <2>4 DEF DebitReturns, effects, declined, Frame, TypeOK
  <2>6. SoundAt(p)'
    BY <1>1, <1>5, <2>4
    DEF DebitReturns, effects, declined, SoundAt, RowSound, HandlerSound, LateSound, UndebitedSound, Working
  <2> QED BY <2>5, <2>6
<1>6. CASE DebitRefused(p)
  BY <1>2, <1>6, JumpKeeps DEF DebitRefused, Jumps, Labels
<1>7. CASE DebitServerError(p)
  BY <1>2, <1>7, JumpKeeps DEF DebitServerError, Fault, Jumps, Labels
<1>8. CASE DebitFails(p)
  BY <1>2, <1>8, JumpKeeps DEF DebitFails, Fault, Jumps, Labels
<1>9. CASE FailTx(p)
  BY <1>9, WriteKeeps DEF FailTx, Writes, Labels, Statuses
<1>10. CASE FulfilReturns(p)
  BY <1>2, <1>10, JumpKeeps DEF FulfilReturns, NextOrPanic, Jumps, Labels
<1>11. CASE FulfilAmbiguous(p)
  BY <1>2, <1>11, JumpKeeps DEF FulfilAmbiguous, NextOrPanic, Fault, Jumps, Labels
<1>12. CASE FulfilRejected(p)
  BY <1>2, <1>12, JumpKeeps DEF FulfilRejected, NextOrPanic, Jumps, Labels
<1>13. CASE FulfilUnreadable(p)
  BY <1>2, <1>13, JumpKeeps DEF FulfilUnreadable, NextOrPanic, Fault, Jumps, Labels
<1>14. CASE Complete(p)
  <2>1. PICK l \in {"extra", "over"} : Goto(p, l) BY <1>14 DEF Complete
  <2> QED BY <1>14, <2>1, WriteKeeps DEF Complete, Writes, Labels, Statuses
<1>15. CASE StoreExtra(p)
  <2>1. call' \in [Purchases -> Call] /\ call'[p].pc = "over" /\ call'[p].result = call[p].result
        /\ \A q \in Purchases \ {p} : call'[q] = call[q]
    BY <1>1, <1>15, GotoAt DEF StoreExtra, Labels
  <2>2. Frame(p) BY <1>1, <1>15, <2>1 DEF StoreExtra, effects, declined, Frame, TypeOK
  <2>3. SoundAt(p)'
    BY <1>1, <1>15, <2>1
    DEF StoreExtra, effects, declined, SoundAt, RowSound, HandlerSound, LateSound, UndebitedSound, Working
  <2> QED BY <2>2, <2>3
<1>16. CASE Pend(p)
  BY <1>16, WriteKeeps DEF Pend, Writes, Labels, Statuses
<1>17. CASE RefundReturns(p)
  BY <1>2, <1>17, JumpKeeps DEF RefundReturns, Jumps, Labels
<1>18. CASE RefundFails(p)
  BY <1>2, <1>18, JumpKeeps DEF RefundFails, Fault, Jumps, Labels
<1>19. CASE Reverse(p)
  BY <1>19, WriteKeeps DEF Reverse, Writes, Labels, Statuses
<1>20. CASE Lost(p)
  BY <1>2, <1>20, JumpKeeps DEF Lost, Fault, Jumps, Labels
<1>21. CASE DebitDeclined(p)
  <2> DEFINE n == [call[p] EXCEPT !.pc = "fulfil", !.result = TRUE]
  <2>1. n \in Call BY <1>2 DEF Call
  <2>2. call' = [call EXCEPT ![p] = n] BY <1>21 DEF DebitDeclined
  <2>3. n.pc = "fulfil" /\ n.done = call[p].done BY <1>2 DEF Call
  <2> HIDE DEF n
  <2>4. call' \in [Purchases -> Call] /\ call'[p].pc = "fulfil" /\ ~call'[p].done
        /\ \A q \in Purchases \ {p} : call'[q] = call[q]
    BY <1>2, <1>21, <2>1, <2>2, <2>3 DEF DebitDeclined
  <2>5. faults' \in Nat BY <1>2, <1>21 DEF DebitDeclined, Fault
  <2>6. Frame(p) BY <1>1, <1>21, <2>4, <2>5 DEF DebitDeclined, Frame, TypeOK
  <2>7. SoundAt(p)'
    BY <1>1, <1>21, <2>4
    DEF DebitDeclined, SoundAt, RowSound, HandlerSound, LateSound, UndebitedSound, Working
  <2> QED BY <2>6, <2>7
<1>22. CASE FulfilDeclined(p)
  <2>1. PICK l \in {"complete", "over"} : Goto(p, l) /\ (l = "complete" => call[p].result)
    BY <1>22 DEF FulfilDeclined, NextOrPanic
  <2>2. call' \in [Purchases -> Call] /\ call'[p].pc = l /\ ~call'[p].done
        /\ call'[p].result = call[p].result /\ \A q \in Purchases \ {p} : call'[q] = call[q]
    BY <1>1, <2>1, GotoAt DEF Labels
  <2>3. Frame(p) BY <1>1, <1>22, <2>2 DEF FulfilDeclined, Frame, TypeOK
  <2>4. SoundAt(p)'
    BY <1>1, <1>22, <2>1, <2>2
    DEF FulfilDeclined, SoundAt, RowSound, HandlerSound, LateSound, UndebitedSound, Working
  <2> QED BY <2>3, <2>4
<1> QED
  BY <1>3, <1>4, <1>5, <1>6, <1>7, <1>8, <1>9, <1>10, <1>11, <1>12, <1>13, <1>14, <1>15, <1>16,
     <1>17, <1>18, <1>19, <1>20, <1>21, <1>22
  DEF Handler

\* The provider and the biller, in time and late.
LEMMA RemoteKeeps ==
    ASSUME Sound, NEW p \in Purchases, Remote(p)
    PROVE  Frame(p) /\ SoundAt(p)'
<1>1. TypeOK /\ SoundAt(p) BY DEF Sound
<1>2. /\ call \in [Purchases -> Call] /\ call[p] \in Call /\ faults \in Nat
      /\ funds \in [Customers -> Nat] /\ late \in [Request -> SUBSET Purchases]
  BY <1>1 DEF TypeOK
<1>3. PICK c \in Customers : c = call[p].customer BY <1>2 DEF Call
<1>4. PICK a \in Nat : a = call[p].amount BY <1>2, MoneyAssumption DEF Call
<1>5. Price(p) = a + Fee /\ Price(p) \in Nat BY <1>4, MoneyAssumption DEF Price
<1>6. ASSUME funds[c] >= Price(p), funds' = [funds EXCEPT ![c] = @ - Price(p)]
      PROVE  funds' \in [Customers -> Nat]
  <2> DEFINE x == funds[c] - Price(p)
  <2>1. x \in Nat BY <1>2, <1>5, <1>6
  <2>2. funds' = [funds EXCEPT ![c] = x] BY <1>6
  <2> HIDE DEF x
  <2> QED BY <1>2, <2>1, <2>2
<1>7. ASSUME funds' = [funds EXCEPT ![c] = @ + a]
      PROVE  funds' \in [Customers -> Nat]
  <2> DEFINE x == funds[c] + a
  <2>1. x \in Nat BY <1>2
  <2>2. funds' = [funds EXCEPT ![c] = x] BY <1>7
  <2> HIDE DEF x
  <2> QED BY <1>2, <2>1, <2>2
<1>8. CASE ProviderDebits(p)
  <2>1. funds' \in [Customers -> Nat] BY <1>3, <1>6, <1>8 DEF ProviderDebits
  <2>2. call' \in [Purchases -> Call] /\ call'[p].pc = call[p].pc /\ call'[p].done
        /\ call'[p].result = call[p].result /\ \A q \in Purchases \ {p} : call'[q] = call[q]
    BY <1>1, <1>8, DoneAt DEF ProviderDebits
  <2>3. Frame(p) BY <1>1, <1>8, <2>1, <2>2 DEF ProviderDebits, declined, Frame, TypeOK
  <2>4. SoundAt(p)'
    BY <1>1, <1>8, <2>2
    DEF ProviderDebits, declined, SoundAt, RowSound, HandlerSound, LateSound, UndebitedSound, Working
  <2> QED BY <2>3, <2>4
<1>9. CASE BillerFulfils(p)
  <2>1. call' \in [Purchases -> Call] /\ call'[p].pc = call[p].pc /\ call'[p].done
        /\ call'[p].result = call[p].result /\ \A q \in Purchases \ {p} : call'[q] = call[q]
    BY <1>1, <1>9, DoneAt DEF BillerFulfils
  <2>2. Frame(p) BY <1>1, <1>9, <2>1 DEF BillerFulfils, declined, Frame, TypeOK
  <2>3. SoundAt(p)'
    BY <1>1, <1>9, <2>1
    DEF BillerFulfils, declined, SoundAt, RowSound, HandlerSound, LateSound, UndebitedSound, Working
  <2> QED BY <2>2, <2>3
<1>10. CASE ProviderCredits(p)
  <2>1. funds' \in [Customers -> Nat] BY <1>3, <1>4, <1>7, <1>10 DEF ProviderCredits
  <2>2. call' \in [Purchases -> Call] /\ call'[p].pc = call[p].pc /\ call'[p].done
        /\ call'[p].result = call[p].result /\ \A q \in Purchases \ {p} : call'[q] = call[q]
    BY <1>1, <1>10, DoneAt DEF ProviderCredits
  <2>3. Frame(p) BY <1>1, <1>10, <2>1, <2>2 DEF ProviderCredits, declined, Frame, TypeOK
  <2>4. SoundAt(p)'
    BY <1>1, <1>10, <2>2
    DEF ProviderCredits, declined, SoundAt, RowSound, HandlerSound, LateSound, UndebitedSound, Working
  <2> QED BY <2>3, <2>4
<1>11. CASE LateDebit(p)
  <2>1. funds' \in [Customers -> Nat] BY <1>3, <1>6, <1>11 DEF LateDebit
  <2>2. late' \in [Request -> SUBSET Purchases]
        /\ \A r \in Request, q \in Purchases \ {p} : q \in late'[r] <=> q \in late[r]
    BY <1>2, <1>11 DEF LateDebit, Request
  <2>3. late'.debit = late.debit \ {p} /\ late'.fulfil = late.fulfil /\ late'.refund = late.refund
    BY <1>2, <1>11 DEF LateDebit, Request
  <2>4. Frame(p) BY <1>1, <1>11, <2>1, <2>2 DEF LateDebit, declined, Frame, TypeOK
  <2>5. SoundAt(p)'
    BY <1>1, <1>11, <2>3
    DEF LateDebit, declined, SoundAt, RowSound, HandlerSound, LateSound, UndebitedSound, Working
  <2> QED BY <2>4, <2>5
<1>12. CASE LateFulfilment(p)
  <2>1. late' \in [Request -> SUBSET Purchases]
        /\ \A r \in Request, q \in Purchases \ {p} : q \in late'[r] <=> q \in late[r]
    BY <1>2, <1>12 DEF LateFulfilment, Request
  <2>2. late'.debit = late.debit /\ late'.fulfil = late.fulfil \ {p} /\ late'.refund = late.refund
    BY <1>2, <1>12 DEF LateFulfilment, Request
  <2>3. Frame(p) BY <1>1, <1>12, <2>1 DEF LateFulfilment, declined, Frame, TypeOK
  <2>4. SoundAt(p)'
    BY <1>1, <1>12, <2>2
    DEF LateFulfilment, declined, SoundAt, RowSound, HandlerSound, LateSound, UndebitedSound, Working
  <2> QED BY <2>3, <2>4
<1>13. CASE LateRefund(p)
  <2>1. funds' \in [Customers -> Nat] BY <1>3, <1>4, <1>7, <1>13 DEF LateRefund
  <2>2. late' \in [Request -> SUBSET Purchases]
        /\ \A r \in Request, q \in Purchases \ {p} : q \in late'[r] <=> q \in late[r]
    BY <1>2, <1>13 DEF LateRefund, Request
  <2>3. late'.debit = late.debit /\ late'.fulfil = late.fulfil /\ late'.refund = late.refund \ {p}
    BY <1>2, <1>13 DEF LateRefund, Request
  <2>4. Frame(p) BY <1>1, <1>13, <2>1, <2>2 DEF LateRefund, declined, Frame, TypeOK
  <2>5. SoundAt(p)'
    BY <1>1, <1>13, <2>3
    DEF LateRefund, declined, SoundAt, RowSound, HandlerSound, LateSound, UndebitedSound, Working
  <2> QED BY <2>4, <2>5
<1> QED BY <1>8, <1>9, <1>10, <1>11, <1>12, <1>13 DEF Remote

-----------------------------------------------------------------------------
(* The theorems *)

LEMMA SoundInit == ASSUME Init PROVE Sound
<1>1. TypeOK
  <2>1. ASSUME NEW c \in Customers PROVE Balance[c] \div 100 \in Nat BY MoneyAssumption
  <2> QED BY <2>1 DEF Init, TypeOK, Request, Statuses
<1>2. ASSUME NEW p \in Purchases PROVE SoundAt(p)
  BY DEF Init, SoundAt, RowSound, HandlerSound, LateSound, UndebitedSound, Working
<1> QED BY <1>1, <1>2 DEF Sound

LEMMA SoundStep == ASSUME Sound, [Next]_vars PROVE Sound'
<1>1. CASE Next
  <2>1. PICK p \in Purchases : Start(p) \/ Handler(p) \/ Remote(p) BY <1>1 DEF Next
  <2> QED BY <2>1, HandlerKeeps, RemoteKeeps, OthersStay
<1>2. CASE UNCHANGED vars
  BY <1>2 DEF vars, effects, declined, Sound, TypeOK, SoundAt, RowSound, HandlerSound, LateSound,
              UndebitedSound
<1> QED BY <1>1, <1>2

\* The inductive invariant: row, handler, provider, biller and late requests of a
\* purchase always agree.
THEOREM SoundPurchases == Spec => []Sound
<1>1. Init => Sound BY SoundInit
<1>2. Sound /\ [Next]_vars => Sound' BY SoundStep
<1> QED BY <1>1, <1>2, PTL DEF Spec

\* Type correctness; in particular the provider never overdraws a wallet.
THEOREM TypeCorrectPurchases == Spec => []TypeOK
<1>1. Sound => TypeOK BY DEF Sound
<1> QED BY <1>1, SoundPurchases, PTL

\* A purchase delivered without a debit keeps its row pending, unless the debit was
\* declined with status 200 (DebitDeclined).
THEOREM UnpaidStaysPendingAlways == Spec => []UnpaidStaysPending
<1>1. ASSUME Sound PROVE UnpaidStaysPending
  BY <1>1 DEF Sound, TypeOK, SoundAt, UndebitedSound, UnpaidStaysPending
<1> QED BY <1>1, SoundPurchases, PTL

-----------------------------------------------------------------------------
(* BillPurchase implements PurchasePromise *)

\* What a step of one purchase does to the promise.
PromiseStep(p) ==
    \/ Promise!Open(p) \/ Promise!Debit(p) \/ Promise!DeclineDebit(p)
    \/ Promise!Deliver(p) \/ Promise!DeclineDelivery(p) \/ Promise!Refund(p)
    \/ Promise!Close(p) \/ UNCHANGED <<row, debited, fulfilled, refunded, debitDeclined, fulfilDeclined>>

LEMMA HandlerKeepsPromise ==
    ASSUME Sound, NEW p \in Purchases, Start(p) \/ Handler(p)
    PROVE  PromiseStep(p)
<1>1. SoundAt(p) BY DEF Sound
<1>2. CASE Start(p)
  BY <1>2
  DEF Start, StartAirtime, StartData, StartElectricity, StartCable, effects, declined, PromiseStep
<1>3. CASE AddTransaction(p)
  BY <1>1, <1>3 DEF AddTransaction, effects, declined, SoundAt, RowSound, PromiseStep, Promise!Open
<1>4. CASE FailTx(p)
  BY <1>1, <1>4
  DEF FailTx, effects, declined, SoundAt, RowSound, HandlerSound, Working, PromiseStep, Promise!Close,
      Promise!Taken, Promise!Given
<1>5. CASE Complete(p)
  BY <1>1, <1>5
  DEF Complete, effects, declined, SoundAt, RowSound, HandlerSound, Working, PromiseStep, Promise!Close,
      Promise!Taken, Promise!Given
<1>6. CASE Pend(p)
  BY <1>1, <1>6
  DEF Pend, effects, declined, SoundAt, RowSound, HandlerSound, Working, PromiseStep, Promise!Close,
      Promise!Taken, Promise!Given
<1>7. CASE Reverse(p)
  BY <1>1, <1>7
  DEF Reverse, effects, declined, SoundAt, RowSound, HandlerSound, Working, PromiseStep, Promise!Close,
      Promise!Taken, Promise!Given
<1>8. ASSUME UNCHANGED <<row, stored, funds, effects>> \/ UNCHANGED <<row, funds, effects>>
      PROVE  PromiseStep(p)
  BY <1>8 DEF effects, declined, PromiseStep
<1>9. CASE \/ DebitReturns(p) \/ DebitRefused(p) \/ DebitServerError(p) \/ DebitFails(p)
           \/ FulfilReturns(p) \/ FulfilAmbiguous(p) \/ FulfilRejected(p) \/ FulfilUnreadable(p)
           \/ StoreExtra(p) \/ RefundReturns(p) \/ RefundFails(p) \/ Lost(p)
  BY <1>8, <1>9
  DEF DebitReturns, DebitRefused, DebitServerError, DebitFails, FulfilReturns, FulfilAmbiguous,
      FulfilRejected, FulfilUnreadable, StoreExtra, RefundReturns, RefundFails, Lost
<1>10. CASE DebitDeclined(p)
  BY <1>1, <1>10
  DEF DebitDeclined, SoundAt, RowSound, HandlerSound, Working, PromiseStep,
      Promise!DeclineDebit, Promise!Taken, Promise!Given
<1>11. CASE FulfilDeclined(p)
  BY <1>1, <1>11
  DEF FulfilDeclined, SoundAt, RowSound, HandlerSound, Working, PromiseStep,
      Promise!DeclineDelivery, Promise!Given
<1> QED BY <1>2, <1>3, <1>4, <1>5, <1>6, <1>7, <1>9, <1>10, <1>11 DEF Handler

LEMMA RemoteKeepsPromise ==
    ASSUME Sound, NEW p \in Purchases, Remote(p)
    PROVE  PromiseStep(p)
<1>1. SoundAt(p) BY DEF Sound
<1>2. CASE ProviderDebits(p) \/ LateDebit(p)
  BY <1>1, <1>2
  DEF ProviderDebits, LateDebit, declined, SoundAt, RowSound, HandlerSound, LateSound, Working,
      PromiseStep, Promise!Debit, Promise!Taken
<1>3. CASE BillerFulfils(p) \/ LateFulfilment(p)
  BY <1>1, <1>3
  DEF BillerFulfils, LateFulfilment, declined, SoundAt, RowSound, HandlerSound, LateSound, Working,
      PromiseStep, Promise!Deliver, Promise!Given
<1>4. CASE ProviderCredits(p) \/ LateRefund(p)
  BY <1>1, <1>4
  DEF ProviderCredits, LateRefund, declined, SoundAt, RowSound, HandlerSound, LateSound, Working,
      PromiseStep, Promise!Refund, Promise!Taken
<1> QED BY <1>2, <1>3, <1>4 DEF Remote

\* Every step keeps the promise: effects happen once, closed transactions stay
\* closed, and a status means what the promise says it means.
THEOREM PurchasesKeepPromise == Spec => KeepsPromise
<1>1. Init => Promise!Init BY DEF Init, Promise!Init
<1>2. Sound /\ [Next]_vars => [Promise!Next]_(Promise!vars)
  <2>1. ASSUME Sound, Next PROVE [Promise!Next]_(Promise!vars)
    <3>1. PICK p \in Purchases : Start(p) \/ Handler(p) \/ Remote(p) BY <2>1 DEF Next
    <3>2. PromiseStep(p) BY <2>1, <3>1, HandlerKeepsPromise, RemoteKeepsPromise
    <3> QED BY <3>2 DEF PromiseStep, Promise!Next, Promise!vars
  <2>2. UNCHANGED vars => UNCHANGED Promise!vars BY DEF vars, effects, declined, Promise!vars
  <2> QED BY <2>1, <2>2
<1> QED BY <1>1, <1>2, SoundPurchases, PTL DEF Spec, KeepsPromise, Promise!Spec
=============================================================================
