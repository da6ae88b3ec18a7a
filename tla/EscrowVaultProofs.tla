-------------------------- MODULE EscrowVaultProofs --------------------------
(***************************************************************************)
(* Theorems about EscrowVault, for every set of escrows, terms, accounts   *)
(* and cases: how an escrow ends, through re-entrant calls and rollbacks.  *)
(***************************************************************************)
EXTENDS EscrowVault, FiniteSetTheorems, TLAPS

\* Status and terminal events agree: EndsOnce of one escrow's status and log.
Ended(s, events) == Len(events) = IF s \in Terminal THEN 1 ELSE 0

\* What withdraw() would restore is a state EndsOnce accepts, whose terms are
\* still those stored, and whose terminal events are still in the log.
RollbackOK ==
    \A i \in DOMAIN frames :
        LET saved == frames[i].saved
        IN  \A h \in Handoff :
                /\ Ended(saved.status[h], saved.log[h])
                /\ saved.status[h] # "NONE" => terms[h] \in Terms
                /\ saved.log[h] # <<>> => log[h] = saved.log[h]

\* The inductive invariant: a rollback must be as good as the state it undoes.
IInv == TypeOK /\ EndsOnce /\ RollbackOK

-----------------------------------------------------------------------------
\* The first element of a sequence that has one.
LEMMA HeadOfSeq ==
    ASSUME NEW S, NEW q \in Seq(S), q # <<>>
    PROVE  1 \in DOMAIN q /\ q[1] = Head(q) /\ Head(q) \in S
OBVIOUS

\* Crediting an account keeps the claims a function to natural numbers.
LEMMA CreditType ==
    ASSUME NEW claims \in [Account -> Nat], NEW a \in Account, NEW n \in Nat
    PROVE  Credit(claims, a, n) \in [Account -> Nat]
BY DEF Credit

\* The three consequences only credit the two parties of the escrow.
LEMMA ConsequenceType ==
    ASSUME NEW claims \in [Account -> Nat], NEW t \in Terms, NEW r \in Rule
    PROVE  Consequence(claims, t, r) \in [Account -> Nat]
<1>1. t.requester \in Account /\ t.provider \in Account /\ t.principal \in Nat /\ t.bond \in Nat
  BY DEF Terms
<1>2. t.principal + t.bond \in Nat
  BY <1>1
<1>3. Credit(claims, t.requester, t.principal) \in [Account -> Nat]
  BY <1>1, CreditType
<1>4. Credit(Credit(claims, t.requester, t.principal), t.provider, t.bond) \in [Account -> Nat]
  BY <1>1, <1>3, CreditType
<1>5. /\ Credit(claims, t.provider, t.principal + t.bond) \in [Account -> Nat]
      /\ Credit(claims, t.requester, t.principal + t.bond) \in [Account -> Nat]
  BY <1>1, <1>2, CreditType
<1> QED
  BY <1>4, <1>5 DEF Consequence

\* Ending an escrow that has not ended emits its one terminal event.
LEMMA CloseEnds ==
    ASSUME TypeOK, EndsOnce, RollbackOK, NEW h \in Handoff, status[h] \notin Terminal,
           NEW s \in Terminal, NEW e \in TerminalEvent, Close(h, s, e),
           frames' = frames, terms' = terms
    PROVE  /\ status' \in [Handoff -> Status]
           /\ log' \in [Handoff -> Seq(TerminalEvent)]
           /\ EndsOnce'
           /\ RollbackOK'
<1> USE DEF TypeOK, Close
<1>1. /\ log[h] \in Seq(TerminalEvent)
      /\ Len(log[h]) = 0
  BY DEF EndsOnce
<1>2. /\ Append(log[h], e) \in Seq(TerminalEvent)
      /\ Len(Append(log[h], e)) = 1
  BY <1>1
<1>3. /\ status' \in [Handoff -> Status]
      /\ log' \in [Handoff -> Seq(TerminalEvent)]
  BY <1>2 DEF Terminal, Status
<1>4. EndsOnce'
  BY <1>2 DEF EndsOnce
<1>5. RollbackOK'
  <2> SUFFICES ASSUME NEW i \in DOMAIN frames, NEW k \in Handoff,
                      frames[i].saved.log[k] # <<>>
               PROVE  log'[k] = frames[i].saved.log[k]
    BY DEF RollbackOK
  <2>1. log[k] = frames[i].saved.log[k]
    BY DEF RollbackOK
  <2>2. k # h
    BY <1>1, <2>1
  <2> QED BY <2>1, <2>2
<1> QED BY <1>3, <1>4, <1>5

-----------------------------------------------------------------------------
LEMMA InitIInv == Init => IInv
<1> SUFFICES ASSUME Init PROVE IInv
  OBVIOUS
<1> USE DEF Init
<1>1. TypeOK
  BY DEF TypeOK, Status
<1>2. EndsOnce
  BY DEF EndsOnce, Terminal
<1>3. RollbackOK
  BY DEF RollbackOK
<1> QED BY <1>1, <1>2, <1>3 DEF IInv

\* The terms of a registered escrow, as a lemma for the actions that pay them out.
LEMMA RegisteredTerms ==
    ASSUME TypeOK, NEW h \in Handoff, status[h] # "NONE"
    PROVE  /\ terms[h] \in Terms
           /\ terms[h].requester \in Account /\ terms[h].provider \in Account
           /\ terms[h].principal \in Nat /\ terms[h].bond \in Nat
           /\ terms[h].principal + terms[h].bond \in Nat
<1>1. terms[h] \in Terms
  BY DEF TypeOK
<1> QED BY <1>1 DEF Terms

\* The events the four payout paths emit.
LEMMA EventTypes ==
    /\ HandoffCompleted \in TerminalEvent
    /\ \A c \in Case, r \in Rule : VerdictApplied(c, r) \in TerminalEvent
    /\ \A w \in {"UNFUNDED_EXPIRED", "BOND_NOT_POSTED", "FINAL_VERDICT_DEADLINE_EXPIRED"} :
          EscrowRecovered(w) \in TerminalEvent
BY DEF TerminalEvent

\* The four payout paths, once their claims are known to be well typed.
LEMMA PayoutIInv ==
    ASSUME IInv, NEW h \in Handoff, status[h] \notin Terminal \cup {"NONE"},
           NEW s \in Terminal, NEW e \in TerminalEvent, Close(h, s, e),
           claimable' \in [Account -> Nat], processed' \subseteq Case,
           UNCHANGED <<now, terms, balance, paid, frames>>
    PROVE  IInv'
<1>1. /\ status' \in [Handoff -> Status]
      /\ log' \in [Handoff -> Seq(TerminalEvent)]
      /\ EndsOnce'
      /\ RollbackOK'
  BY CloseEnds DEF IInv
<1>2. \A k \in Handoff : status'[k] # "NONE" => terms[k] \in Terms
  BY DEF IInv, TypeOK, Close
<1>3. TypeOK'
  BY <1>1, <1>2 DEF IInv, TypeOK
<1> QED BY <1>1, <1>3 DEF IInv

\* Funding and bonding move an escrow between states that are not terminal.
LEMMA DepositIInv ==
    ASSUME IInv, NEW h \in Handoff, status[h] \notin Terminal \cup {"NONE"},
           NEW s \in {"FUNDED", "ACTIVE"}, status' = [status EXCEPT ![h] = s],
           balance' \in Int, UNCHANGED <<now, terms, processed, claimable, paid, log, frames>>
    PROVE  IInv'
<1> USE DEF IInv
<1>1. TypeOK'
  BY DEF TypeOK, Status
<1>2. EndsOnce'
  BY DEF TypeOK, EndsOnce, Terminal
<1>3. RollbackOK'
  BY DEF RollbackOK
<1> QED BY <1>1, <1>2, <1>3

LEMMA RegisterIInv ==
    ASSUME IInv, NEW h \in Handoff, NEW t \in Offered, RegisterHandoff(h, t)
    PROVE  IInv'
<1> USE OfferedAssumption DEF IInv, RegisterHandoff
<1>1. TypeOK'
  BY DEF TypeOK, Status
<1>2. EndsOnce'
  BY DEF TypeOK, EndsOnce, Terminal
<1>3. RollbackOK'
  BY DEF RollbackOK, TopLevel
<1> QED BY <1>1, <1>2, <1>3

\* Opening a withdrawal saves the state it may have to restore.
LEMMA WithdrawIInv ==
    ASSUME IInv, NEW a \in Account, Withdraw(a)
    PROVE  IInv'
<1> USE DEF IInv, TypeOK
<1> DEFINE frame == [account |-> a, saved |-> Saved]
<1>1. frames = <<>> /\ frames' = <<frame>>
  BY DEF Withdraw, NonReentrant
<1>2. Saved \in SavedState
  BY DEF Saved, SavedState
<1>3. frame \in [account : Account, saved : SavedState]
  BY <1>2
<1>4. TypeOK'
  BY <1>1, <1>3 DEF Withdraw
<1>5. EndsOnce'
  BY DEF Withdraw, EndsOnce
<1>6. RollbackOK'
  <2> SUFFICES ASSUME NEW i \in DOMAIN frames', NEW h \in Handoff
               PROVE  /\ Ended(frames'[i].saved.status[h], frames'[i].saved.log[h])
                      /\ frames'[i].saved.status[h] # "NONE" => terms'[h] \in Terms
                      /\ frames'[i].saved.log[h] # <<>> => log'[h] = frames'[i].saved.log[h]
    BY DEF RollbackOK
  <2>1. frames'[i] = frame
    BY <1>1
  <2>2. frames'[i].saved.status = status /\ frames'[i].saved.log = log
    BY <2>1 DEF Saved
  <2>3. terms' = terms /\ log' = log
    BY DEF Withdraw
  <2> QED BY <2>2, <2>3 DEF EndsOnce, Ended
<1> QED BY <1>4, <1>5, <1>6

\* Closing it, by return or by rollback, leaves a state as good as before.
LEMMA ReturnIInv ==
    ASSUME IInv, WithdrawReturns \/ WithdrawReverts
    PROVE  IInv'
<1> USE DEF IInv
<1>1. frames # <<>> /\ frames' = <<>>
  BY DEF TypeOK, WithdrawReturns, WithdrawReverts
<1>2. RollbackOK'
  BY <1>1 DEF RollbackOK
<1>3. CASE WithdrawReturns
  <2>1. TypeOK'
    BY <1>1, <1>3 DEF TypeOK, WithdrawReturns
  <2>2. EndsOnce'
    BY <1>3 DEF EndsOnce, WithdrawReturns
  <2> QED BY <1>2, <2>1, <2>2
<1>4. CASE WithdrawReverts
  <2> DEFINE saved == Head(frames).saved
  <2>1. /\ 1 \in DOMAIN frames /\ frames[1].saved = saved
        /\ saved \in SavedState
    <3>1. /\ 1 \in DOMAIN frames
          /\ frames[1] = Head(frames)
          /\ Head(frames) \in [account : Account, saved : SavedState]
      BY <1>1, HeadOfSeq DEF TypeOK
    <3>2. Head(frames).saved \in SavedState
      BY <3>1
    <3> QED BY <3>1, <3>2
  <2>2. /\ status' = saved.status /\ claimable' = saved.claimable /\ balance' = saved.balance
        /\ paid' = saved.paid /\ log' = saved.log
        /\ UNCHANGED <<now, terms, processed>>
    BY <1>4 DEF WithdrawReverts
  <2>3. \A h \in Handoff : /\ Ended(saved.status[h], saved.log[h])
                           /\ saved.status[h] # "NONE" => terms[h] \in Terms
    BY <2>1 DEF RollbackOK
  <2>4. TypeOK'
    BY <1>1, <2>1, <2>2, <2>3 DEF TypeOK, SavedState
  <2>5. EndsOnce'
    BY <2>2, <2>3 DEF EndsOnce, Ended
  <2> QED BY <1>2, <2>4, <2>5
<1> QED BY <1>3, <1>4

LEMMA NextIInv == IInv /\ [Next]_vars => IInv'
<1> SUFFICES ASSUME IInv, [Next]_vars PROVE IInv'
  OBVIOUS
<1>0. TypeOK
  BY DEF IInv
<1>1. CASE Tick
  <2>1. TypeOK'
    BY <1>0, <1>1 DEF TypeOK, Tick
  <2>2. EndsOnce' /\ RollbackOK'
    BY <1>1 DEF IInv, EndsOnce, RollbackOK, Tick
  <2> QED BY <2>1, <2>2 DEF IInv
<1>2. ASSUME NEW h \in Handoff, NEW t \in Offered, RegisterHandoff(h, t)
      PROVE  IInv'
  BY <1>2, RegisterIInv
<1>3. ASSUME NEW h \in Handoff, NEW b \in Binding, ApplyHandoffCompletion(h, b)
      PROVE  IInv'
  <2>1. status[h] = "ACTIVE"
    BY <1>3 DEF ApplyHandoffCompletion
  <2>2. claimable' \in [Account -> Nat]
    BY <1>0, <1>3, <2>1, RegisteredTerms, CreditType DEF ApplyHandoffCompletion, TypeOK
  <2>3. Close(h, "SETTLED", HandoffCompleted) /\ processed' \subseteq Case
        /\ UNCHANGED <<now, terms, balance, paid, frames>>
    BY <1>0, <1>3 DEF ApplyHandoffCompletion, TypeOK
  <2> QED BY <2>1, <2>2, <2>3, EventTypes, PayoutIInv DEF Terminal
<1>4. ASSUME NEW h \in Handoff, NEW c \in Case, NEW b \in Binding, NEW r \in Rule,
             ApplyFinalVerdict(c, h, b, r)
      PROVE  IInv'
  <2>1. status[h] = "ACTIVE"
    BY <1>4 DEF ApplyFinalVerdict
  <2>2. claimable' \in [Account -> Nat]
    BY <1>0, <1>4, <2>1, RegisteredTerms, ConsequenceType DEF ApplyFinalVerdict, TypeOK
  <2>3. Close(h, "SETTLED", VerdictApplied(c, r)) /\ processed' \subseteq Case
        /\ UNCHANGED <<now, terms, balance, paid, frames>>
    BY <1>0, <1>4 DEF ApplyFinalVerdict, TypeOK
  <2> QED BY <2>1, <2>2, <2>3, EventTypes, PayoutIInv DEF Terminal
<1>5. ASSUME NEW h \in Handoff, NEW a \in Account, FundHandoff(h, a)
      PROVE  IInv'
  <2>1. status[h] = "REGISTERED"
    BY <1>5 DEF FundHandoff
  <2>2. balance' \in Int
    BY <1>0, <1>5, <2>1, RegisteredTerms DEF FundHandoff, TypeOK
  <2> QED BY <1>5, <2>1, <2>2, DepositIInv DEF FundHandoff, Terminal
<1>6. ASSUME NEW h \in Handoff, NEW a \in Account, PostBond(h, a)
      PROVE  IInv'
  <2>1. status[h] = "FUNDED"
    BY <1>6 DEF PostBond
  <2>2. balance' \in Int
    BY <1>0, <1>6, <2>1, RegisteredTerms DEF PostBond, TypeOK
  <2> QED BY <1>6, <2>1, <2>2, DepositIInv DEF PostBond, Terminal
<1>7. ASSUME NEW h \in Handoff, RecoverUnactivated(h)
      PROVE  IInv'
  <2>1. status[h] \in {"REGISTERED", "FUNDED"}
    BY <1>7 DEF RecoverUnactivated
  <2>2. claimable' \in [Account -> Nat]
    <3>1. claimable \in [Account -> Nat]
      BY <1>0 DEF TypeOK
    <3>2. Credit(claimable, terms[h].requester, terms[h].principal) \in [Account -> Nat]
      BY <1>0, <2>1, <3>1, RegisteredTerms, CreditType
    <3> QED BY <1>7, <3>1, <3>2 DEF RecoverUnactivated
  <2>3. processed' \subseteq Case /\ UNCHANGED <<now, terms, balance, paid, frames>>
    BY <1>0, <1>7 DEF RecoverUnactivated, TypeOK
  <2>4. PICK e \in TerminalEvent : Close(h, "RECOVERED", e)
    BY <1>7, EventTypes DEF RecoverUnactivated
  <2>5. status[h] \notin Terminal \cup {"NONE"}
    BY <2>1 DEF Terminal
  <2> QED BY <2>2, <2>3, <2>4, <2>5, PayoutIInv DEF Terminal
<1>8. ASSUME NEW h \in Handoff, RecoverActive(h)
      PROVE  IInv'
  <2>1. status[h] = "ACTIVE"
    BY <1>8 DEF RecoverActive
  <2>2. claimable' \in [Account -> Nat]
    BY <1>0, <1>8, <2>1, RegisteredTerms, CreditType DEF RecoverActive, TypeOK
  <2>3. /\ Close(h, "RECOVERED", EscrowRecovered("FINAL_VERDICT_DEADLINE_EXPIRED"))
        /\ processed' \subseteq Case
        /\ UNCHANGED <<now, terms, balance, paid, frames>>
    BY <1>0, <1>8 DEF RecoverActive, TypeOK
  <2> QED BY <2>1, <2>2, <2>3, EventTypes, PayoutIInv DEF Terminal
<1>9. ASSUME NEW a \in Account, Withdraw(a)
      PROVE  IInv'
  BY <1>9, WithdrawIInv
<1>10. CASE WithdrawReturns \/ WithdrawReverts
  BY <1>10, ReturnIInv
<1>11. CASE UNCHANGED vars
  <2>1. TypeOK'
    BY <1>0, <1>11 DEF TypeOK, vars
  <2>2. EndsOnce' /\ RollbackOK'
    BY <1>11 DEF IInv, EndsOnce, RollbackOK, vars
  <2> QED BY <2>1, <2>2 DEF IInv
<1> QED
  BY <1>1, <1>2, <1>3, <1>4, <1>5, <1>6, <1>7, <1>8, <1>9, <1>10, <1>11
  DEF Next, ControllerMessage, AccountCall, RegistrationIgnored, CompletionIgnored, VerdictIgnored

LEMMA SpecIInv == Spec => []IInv
BY InitIInv, NextIInv, PTL DEF Spec

-----------------------------------------------------------------------------
\* The vault's state always ranges over its types; at most one withdraw() is open.
THEOREM TypeCorrect == Spec => []TypeOK
<1>1. IInv => TypeOK
  BY DEF IInv
<1> QED BY SpecIInv, <1>1, PTL

\* Every escrow emits its one terminal event exactly when it becomes terminal.
THEOREM EscrowEndsOnce == Spec => []EndsOnce
<1>1. IInv => EndsOnce
  BY DEF IInv
<1> QED BY SpecIInv, <1>1, PTL

\* A committed ending is never replaced or withdrawn, not by a rollback either.
THEOREM EndingIsFinal == Spec => EndIsFinal
<1> DEFINE Final == \A h \in Handoff : CommittedLog[h] # <<>> => CommittedLog'[h] = CommittedLog[h]
<1>1. ASSUME IInv, [Next]_vars
      PROVE  Final
  <2> SUFFICES ASSUME NEW h \in Handoff, CommittedLog[h] # <<>>
               PROVE  CommittedLog'[h] = CommittedLog[h]
    OBVIOUS
  <2>0. TypeOK /\ IInv'
    BY <1>1, NextIInv DEF IInv
  <2>1. CASE frames' = frames /\ frames # <<>>
    BY <2>1 DEF CommittedLog
  <2>2. CASE frames' = frames /\ frames = <<>>
    <3>1. log[h] # <<>> /\ CommittedLog[h] = log[h] /\ CommittedLog'[h] = log'[h]
      BY <2>2 DEF CommittedLog
    <3>2. status[h] \in Terminal
      BY <1>1, <2>0, <3>1 DEF IInv, EndsOnce, TypeOK
    <3>3. log'[h] = log[h]
      BY <1>1, <2>0, <2>2, <3>2
      DEF TypeOK, Terminal, Close, Next, ControllerMessage, AccountCall, Tick, RegisterHandoff,
          RegistrationIgnored, ApplyHandoffCompletion, CompletionIgnored, ApplyFinalVerdict,
          VerdictIgnored, FundHandoff, PostBond, RecoverUnactivated, RecoverActive,
          Withdraw, WithdrawReturns, WithdrawReverts, vars
    <3> QED BY <3>1, <3>3
  <2>3. CASE frames' # frames
    <3>1. \/ \E a \in Account : Withdraw(a)
          \/ WithdrawReturns
          \/ WithdrawReverts
      BY <1>1, <2>3
      DEF Next, ControllerMessage, AccountCall, Tick, RegisterHandoff, RegistrationIgnored,
          ApplyHandoffCompletion, CompletionIgnored, ApplyFinalVerdict, VerdictIgnored,
          FundHandoff, PostBond, RecoverUnactivated, RecoverActive, vars
    <3>2. ASSUME NEW a \in Account, Withdraw(a)
          PROVE  CommittedLog'[h] = CommittedLog[h]
      <4>1. frames = <<>> /\ frames' = <<[account |-> a, saved |-> Saved]>>
        BY <3>2 DEF Withdraw, NonReentrant
      <4>2. Head(frames').saved.log = log
        BY <4>1 DEF Saved
      <4> QED BY <4>1, <4>2 DEF CommittedLog
    <3>3. CASE WithdrawReturns \/ WithdrawReverts
      <4> DEFINE saved == Head(frames).saved
      <4>1. frames # <<>> /\ frames' = <<>>
        BY <2>0, <3>3 DEF TypeOK, WithdrawReturns, WithdrawReverts
      <4>2. saved.log[h] # <<>> /\ CommittedLog[h] = saved.log[h] /\ CommittedLog'[h] = log'[h]
        BY <4>1 DEF CommittedLog
      <4>3. 1 \in DOMAIN frames /\ frames[1].saved = saved
        BY <2>0, <4>1, HeadOfSeq DEF TypeOK
      <4>4. log[h] = saved.log[h]
        BY <1>1, <4>2, <4>3 DEF IInv, RollbackOK
      <4>5. log'[h] = log[h] \/ log'[h] = saved.log[h]
        BY <3>3 DEF WithdrawReturns, WithdrawReverts
      <4> QED BY <4>2, <4>4, <4>5
    <3> QED BY <3>1, <3>2, <3>3
  <2> QED BY <2>1, <2>2, <2>3
<1>2. IInv /\ [Next]_vars => [Final]_vars
  BY <1>1
<1> QED BY SpecIInv, <1>2, PTL DEF Spec, EndIsFinal

-----------------------------------------------------------------------------
(* Sums over finite sets.  A recursive function is a CHOOSE, so that the   *)
(* sum satisfies its recursion has to be proved; induction is the choice   *)
(* of a minimal exception, which needs no operator parameter.              *)

\* The element of s a sum over s begins with.
First(s) == CHOOSE x \in s : TRUE

\* A sum of f as its recursive definition sees it: g is the sum on every subset of T.
Summing(f, T, g) ==
    g = [s \in SUBSET T |-> IF s = {} THEN 0 ELSE f[First(s)] + g[s \ {First(s)}]]

LEMMA SumIsSumming ==
    ASSUME NEW f, NEW S
    PROVE  SumFunctionOnSet(f, S) = (CHOOSE p : Summing(f, S, p))[S]
BY DEF SumFunctionOnSet, FoldFunctionOnSet, MapThenFoldSet, Summing, First

LEMMA FirstIn ==
    ASSUME NEW s, s # {}
    PROVE  First(s) \in s
BY DEF First

\* Induction over the subsets of a finite set, as the minimal exception.
LEMMA MinimalSubset ==
    ASSUME NEW S, IsFiniteSet(S), NEW B \in SUBSET (SUBSET S), B # {}
    PROVE  \E T \in B : \A U \in B : U \subseteq T => U = T
<1>1. IsWellFoundedOn(StrictSubsetOrdering(S), SUBSET S)
  BY FS_StrictSubsetOrderingWellFounded, FS_FiniteSubsetsOfFinite
<1>2. PICK T \in B : \A U \in B : ~(<<U, T>> \in StrictSubsetOrdering(S))
  BY <1>1, WFMin
<1>3. ASSUME NEW U \in B, U \subseteq T
      PROVE  U = T
  BY <1>2, <1>3 DEF StrictSubsetOrdering
<1> QED BY <1>3

LEMMA SummingEquals ==
    ASSUME NEW f, NEW T, NEW g, Summing(f, T, g)
    PROVE  /\ {} \in SUBSET T => g[{}] = 0
           /\ \A s \in SUBSET T : s # {} => g[s] = f[First(s)] + g[s \ {First(s)}]
<1> DEFINE e(s) == IF s = {} THEN 0 ELSE f[First(s)] + g[s \ {First(s)}]
<1>1. g = [s \in SUBSET T |-> e(s)]
  BY DEF Summing
<1> HIDE DEF e
<1>2. \A s \in SUBSET T : g[s] = e(s)
  BY <1>1
<1> QED BY <1>2 DEF e

\* Functions that agree on S, summed in the same way, have the same sums.
LEMMA SummingUnique ==
    ASSUME NEW S, IsFiniteSet(S), NEW f, NEW e, \A x \in S : f[x] = e[x],
           NEW T, NEW U, NEW g, NEW h, S \subseteq T, S \subseteq U,
           Summing(f, T, g), Summing(e, U, h)
    PROVE  g[S] = h[S]
<1> DEFINE B == {s \in SUBSET S : g[s] # h[s]}
<1>1. SUFFICES ASSUME B # {} PROVE FALSE
  OBVIOUS
<1>2. PICK s \in B : \A u \in B : u \subseteq s => u = s
  <2>1. B \in SUBSET (SUBSET S)
    OBVIOUS
  <2> HIDE DEF B
  <2> QED BY <1>1, <2>1, MinimalSubset
<1>3. s # {}
  BY SummingEquals
<1>4. First(s) \in s
  BY <1>3, FirstIn
<1>5. s \ {First(s)} \notin B /\ s \ {First(s)} \in SUBSET S
  BY <1>2, <1>4
<1>6. /\ g[s] = f[First(s)] + g[s \ {First(s)}]
      /\ h[s] = e[First(s)] + h[s \ {First(s)}]
  <2>1. s \in SUBSET T /\ s \in SUBSET U
    BY <1>2
  <2>2. g[s] = f[First(s)] + g[s \ {First(s)}]
    BY <1>3, <2>1, SummingEquals
  <2>3. h[s] = e[First(s)] + h[s \ {First(s)}]
    BY <1>3, <2>1, SummingEquals
  <2> QED BY <2>2, <2>3
<1> QED BY <1>2, <1>4, <1>5, <1>6

\* The recursive definition of a sum over a finite set has a solution.
LEMMA SummingExists ==
    ASSUME NEW S, IsFiniteSet(S), NEW f
    PROVE  \E g : Summing(f, S, g)
<1> DEFINE B == {T \in SUBSET S : ~ \E g : Summing(f, T, g)}
<1>1. SUFFICES ASSUME B # {} PROVE FALSE
  OBVIOUS
<1>2. PICK T \in B : \A U \in B : U \subseteq T => U = T
  <2>1. B \in SUBSET (SUBSET S)
    OBVIOUS
  <2> HIDE DEF B
  <2> QED BY <1>1, <2>1, MinimalSubset
<1> DEFINE sol(U) == CHOOSE p : Summing(f, U, p)
           sum(U) == sol(U)[U]
           e(s) == IF s = {} THEN 0 ELSE f[First(s)] + sum(s \ {First(s)})
           G == [s \in SUBSET T |-> e(s)]
<1>3. \A U \in SUBSET T : U # T => Summing(f, U, sol(U))
  BY <1>2
<1> HIDE DEF sol
<1>4. ASSUME NEW U \in SUBSET T, U # T
      PROVE  e(U) = sum(U)
  <2>1. Summing(f, U, sol(U))
    BY <1>3, <1>4
  <2>2. CASE U = {}
    BY <2>1, <2>2, SummingEquals
  <2>3. CASE U # {}
    <3> DEFINE V == U \ {First(U)}
    <3>1. First(U) \in U
      BY <2>3, FirstIn
    <3>2. V \in SUBSET T /\ V # T /\ V \subseteq U /\ V \subseteq V
      BY <3>1
    <3>3. Summing(f, V, sol(V))
      BY <1>3, <3>2
    <3>4. IsFiniteSet(V)
      BY <3>2, FS_Subset
    <3>5. sol(U)[V] = sol(V)[V]
      BY <2>1, <3>2, <3>3, <3>4, SummingUnique
    <3>6. sol(U)[U] = f[First(U)] + sol(U)[V]
      BY <2>1, <2>3, SummingEquals
    <3> QED BY <2>3, <3>5, <3>6
  <2> QED BY <2>2, <2>3
<1>5. ASSUME NEW s \in SUBSET T
      PROVE  e(s) = IF s = {} THEN 0 ELSE f[First(s)] + G[s \ {First(s)}]
  <2>1. CASE s = {}
    BY <2>1
  <2>2. CASE s # {}
    <3> DEFINE V == s \ {First(s)}
    <3>1. First(s) \in s
      BY <2>2, FirstIn
    <3>2. V \in SUBSET T /\ V # T
      BY <3>1
    <3>3. e(V) = sum(V)
      BY <1>4, <3>2
    <3> HIDE DEF e
    <3>4. G[V] = e(V)
      BY <3>2
    <3> QED BY <2>2, <3>3, <3>4 DEF e
  <2> QED BY <2>1, <2>2
<1>6. Summing(f, T, G)
  <2> DEFINE d(s) == IF s = {} THEN 0 ELSE f[First(s)] + G[s \ {First(s)}]
  <2>1. \A s \in SUBSET T : e(s) = d(s)
    BY <1>5
  <2> HIDE DEF e
  <2>2. G = [s \in SUBSET T |-> d(s)]
    <3> HIDE DEF d
    <3> QED BY <2>1
  <2> HIDE DEF G
  <2> QED BY <2>2 DEF Summing
<1> QED BY <1>2, <1>6

\* The sum over the empty set, and over a set that is not, by its first element.
LEMMA SumUnrolled ==
    ASSUME NEW S, IsFiniteSet(S), NEW f
    PROVE  /\ S = {} => SumFunctionOnSet(f, S) = 0
           /\ S # {} => SumFunctionOnSet(f, S) = f[First(S)] + SumFunctionOnSet(f, S \ {First(S)})
<1> DEFINE g == CHOOSE p : Summing(f, S, p)
           R == S \ {First(S)}
           h == CHOOSE p : Summing(f, R, p)
<1>1. Summing(f, S, g) /\ SumFunctionOnSet(f, S) = g[S]
  BY SummingExists, SumIsSumming
<1>2. IsFiniteSet(R)
  BY FS_RemoveElement
<1>3. Summing(f, R, h) /\ SumFunctionOnSet(f, R) = h[R]
  BY <1>2, SummingExists, SumIsSumming
<1>4. g[R] = h[R]
  <2> HIDE DEF g, h
  <2>1. R \subseteq S /\ R \subseteq R
    OBVIOUS
  <2> QED BY <1>1, <1>2, <1>3, <2>1, SummingUnique
<1> HIDE DEF g, h
<1>5. S \in SUBSET S /\ {} \in SUBSET S
  OBVIOUS
<1>6. /\ g[{}] = 0
      /\ S # {} => g[S] = f[First(S)] + g[R]
  BY <1>1, <1>5, SummingEquals
<1> QED BY <1>1, <1>3, <1>4, <1>6

\* A sum depends on the values at the elements summed over only.
LEMMA SumOfEqual ==
    ASSUME NEW S, IsFiniteSet(S), NEW f, NEW e, \A x \in S : f[x] = e[x]
    PROVE  SumFunctionOnSet(f, S) = SumFunctionOnSet(e, S)
<1> DEFINE g == CHOOSE p : Summing(f, S, p)
           h == CHOOSE p : Summing(e, S, p)
<1>1. /\ Summing(f, S, g) /\ SumFunctionOnSet(f, S) = g[S]
      /\ Summing(e, S, h) /\ SumFunctionOnSet(e, S) = h[S]
  BY SummingExists, SumIsSumming
<1> HIDE DEF g, h
<1>2. S \subseteq S
  OBVIOUS
<1> QED BY <1>1, <1>2, SummingUnique

\* A sum of integers is one.
LEMMA SumType ==
    ASSUME NEW S, IsFiniteSet(S), NEW f, \A x \in S : f[x] \in Int
    PROVE  SumFunctionOnSet(f, S) \in Int
<1> DEFINE sum(T) == SumFunctionOnSet(f, T)
           B == {T \in SUBSET S : sum(T) \notin Int}
<1> SUFFICES ASSUME B # {} PROVE FALSE
  OBVIOUS
<1>1. PICK T \in B : \A U \in B : U \subseteq T => U = T
  <2>1. B \in SUBSET (SUBSET S)
    OBVIOUS
  <2> HIDE DEF B
  <2> QED BY <2>1, MinimalSubset
<1>2. IsFiniteSet(T)
  BY <1>1, FS_Subset
<1>3. T # {}
  <2>1. T = {} => sum(T) = 0
    BY <1>2, SumUnrolled
  <2> QED BY <1>1, <2>1
<1>4. First(T) \in T
  BY <1>3, FirstIn
<1>5. sum(T) = f[First(T)] + sum(T \ {First(T)})
  BY <1>2, <1>3, SumUnrolled
<1>6. sum(T \ {First(T)}) \in Int
  BY <1>1, <1>4
<1> QED BY <1>1, <1>4, <1>5, <1>6

\* Any element can be taken out of a sum.
LEMMA SumWithout ==
    ASSUME NEW S, IsFiniteSet(S), NEW f, \A x \in S : f[x] \in Int, NEW a \in S
    PROVE  SumFunctionOnSet(f, S) = f[a] + SumFunctionOnSet(f, S \ {a})
<1> DEFINE sum(T) == SumFunctionOnSet(f, T)
           B == {T \in SUBSET S : \E x \in T : sum(T) # f[x] + sum(T \ {x})}
<1> SUFFICES ASSUME B # {} PROVE FALSE
  OBVIOUS
<1>1. PICK T \in B : \A U \in B : U \subseteq T => U = T
  <2>1. B \in SUBSET (SUBSET S)
    OBVIOUS
  <2> HIDE DEF B
  <2> QED BY <2>1, MinimalSubset
<1>2. PICK y \in T : sum(T) # f[y] + sum(T \ {y})
  BY <1>1
<1> DEFINE x == First(T)
           R == T \ {x}
           Q == T \ {y}
<1>3. /\ IsFiniteSet(T) /\ IsFiniteSet(R \ {y})
  BY <1>1, FS_Subset
<1>4. x \in T /\ T \subseteq S
  BY <1>1, <1>2, FirstIn
<1>5. sum(T) = f[x] + sum(R)
  BY <1>3, <1>4, SumUnrolled
<1>6. x # y
  BY <1>2, <1>5
<1>7. sum(R) = f[y] + sum(R \ {y}) /\ sum(Q) = f[x] + sum(Q \ {x})
  <2> HIDE DEF x
  <2>1. R \notin B /\ Q \notin B
    BY <1>1, <1>2, <1>4
  <2>2. R \in SUBSET S /\ Q \in SUBSET S /\ y \in R /\ x \in Q
    BY <1>4, <1>6
  <2> QED BY <2>1, <2>2
<1> DEFINE N == sum(R \ {y})
<1>8. sum(Q) = f[x] + N
  <2>1. R \ {y} = Q \ {x}
    OBVIOUS
  <2> QED BY <1>7, <2>1
<1>9. N \in Int /\ f[x] \in Int /\ f[y] \in Int
  BY <1>3, <1>4, SumType
<1>10. sum(T) = f[y] + sum(Q)
  <2>1. \A i, j, k \in Int : i + (j + k) = j + (i + k)
    OBVIOUS
  <2> QED BY <1>5, <1>7, <1>8, <1>9, <2>1
<1> QED BY <1>2, <1>10

\* One value of the function changed.
LEMMA SumChanged ==
    ASSUME NEW S, IsFiniteSet(S), NEW f, NEW e, NEW a \in S,
           \A x \in S : f[x] \in Int /\ e[x] \in Int,
           \A x \in S \ {a} : e[x] = f[x]
    PROVE  SumFunctionOnSet(e, S) = SumFunctionOnSet(f, S) + e[a] - f[a]
<1> DEFINE R == S \ {a}
<1>1. IsFiniteSet(R)
  BY FS_RemoveElement
<1>2. SumFunctionOnSet(e, R) = SumFunctionOnSet(f, R)
  BY <1>1, SumOfEqual
<1>3. SumFunctionOnSet(f, R) \in Int
  BY <1>1, SumType
<1>4. /\ SumFunctionOnSet(f, S) = f[a] + SumFunctionOnSet(f, R)
      /\ SumFunctionOnSet(e, S) = e[a] + SumFunctionOnSet(e, R)
  BY SumWithout
<1> HIDE DEF R
<1> QED BY <1>2, <1>3, <1>4

\* A sum of zeros.
LEMMA SumOfZeros ==
    ASSUME NEW S, IsFiniteSet(S), NEW f, \A x \in S : f[x] = 0
    PROVE  SumFunctionOnSet(f, S) = 0
<1> DEFINE sum(T) == SumFunctionOnSet(f, T)
           B == {T \in SUBSET S : sum(T) # 0}
<1> SUFFICES ASSUME B # {} PROVE FALSE
  OBVIOUS
<1>1. PICK T \in B : \A U \in B : U \subseteq T => U = T
  <2>1. B \in SUBSET (SUBSET S)
    OBVIOUS
  <2> HIDE DEF B
  <2> QED BY <2>1, MinimalSubset
<1>2. IsFiniteSet(T)
  BY <1>1, FS_Subset
<1>3. T # {}
  BY <1>1, <1>2, SumUnrolled
<1>4. First(T) \in T
  BY <1>3, FirstIn
<1>5. sum(T) = f[First(T)] + sum(T \ {First(T)})
  BY <1>2, <1>3, SumUnrolled
<1>6. sum(T \ {First(T)}) = 0
  BY <1>1, <1>4
<1> QED BY <1>1, <1>4, <1>5, <1>6

-----------------------------------------------------------------------------
(* The books: what the contract holds and owes.                            *)

\* Solvent and ExactEntitlement of a state, the present one or a saved one.
Balanced(s) ==
    /\ s.balance = SumFunction(s.claimable)
                   + SumFunction([h \in Handoff |-> Locked(s.status[h], terms[h])])
    /\ \A a \in Account :
          s.claimable[a] + s.paid[a]
              = SumFunction([h \in Handoff |-> Share(a, terms[h], s.log[h])])

\* The inductive invariant: what a rollback restores is as balanced as what it undoes.
FramesBalanced == \A i \in DOMAIN frames : Balanced(frames[i].saved)
BooksInv == IInv /\ Balanced(Saved) /\ FramesBalanced

\* The amounts are natural numbers.
LEMMA LockedType ==
    ASSUME NEW s, NEW t, s # "NONE" => t \in Terms
    PROVE  Locked(s, t) \in Int
<1>1. CASE s = "NONE"
  BY <1>1 DEF Locked
<1>2. CASE t \in Terms
  <2>1. t.principal \in Int /\ t.bond \in Int /\ t.principal + t.bond \in Int
    BY <1>2 DEF Terms
  <2> QED BY <2>1 DEF Locked
<1> QED BY <1>1, <1>2

LEMMA DueType ==
    ASSUME NEW a, NEW t \in Terms, NEW e
    PROVE  DueTo(a, t, e) \in Int
<1>1. t.principal \in Int /\ t.bond \in Int /\ t.principal + t.bond \in Int
  BY DEF Terms
<1>2. Escrowed(t, e) \in Int
  BY <1>1 DEF Escrowed
<1>3. ToRequester(t, e) \in Int
  BY <1>1 DEF ToRequester
<1> QED BY <1>2, <1>3 DEF DueTo

\* Crediting n to one account adds n to the claims.
LEMMA SumCredited ==
    ASSUME NEW claims \in [Account -> Nat], NEW a \in Account, NEW n \in Nat
    PROVE  SumFunction(Credit(claims, a, n)) = SumFunction(claims) + n
<1> DEFINE e == Credit(claims, a, n)
<1>1. /\ DOMAIN claims = Account /\ DOMAIN e = Account
      /\ \A x \in Account : claims[x] \in Int /\ e[x] \in Int
      /\ e[a] = claims[a] + n /\ \A x \in Account \ {a} : e[x] = claims[x]
  BY DEF Credit
<1> HIDE DEF e
<1>2. SumFunctionOnSet(e, Account) = SumFunctionOnSet(claims, Account) + e[a] - claims[a]
  BY <1>1, FiniteAssumption, SumChanged
<1>3. SumFunctionOnSet(claims, Account) \in Int
  BY <1>1, FiniteAssumption, SumType
<1>4. SumFunction(e) = SumFunction(claims) + n
  BY <1>1, <1>2, <1>3 DEF SumFunction
<1> QED BY <1>4 DEF e

\* Moving one escrow moves what is locked by the difference of its two states.
LEMMA LockedMoves ==
    ASSUME TypeOK, TypeOK', NEW h \in Handoff,
           \A k \in Handoff \ {h} : status'[k] = status[k] /\ terms'[k] = terms[k]
    PROVE  /\ SumFunction([k \in Handoff |-> Locked(status[k], terms[k])]) \in Int
           /\ Locked(status[h], terms[h]) \in Int /\ Locked(status[h], terms[h])' \in Int
           /\ SumFunction([k \in Handoff |-> Locked(status[k], terms[k])])'
                 = SumFunction([k \in Handoff |-> Locked(status[k], terms[k])])
                   + Locked(status[h], terms[h])' - Locked(status[h], terms[h])
<1> DEFINE f == [k \in Handoff |-> Locked(status[k], terms[k])]
           g == [k \in Handoff |-> Locked(status'[k], terms'[k])]
<1>1. \A k \in Handoff : Locked(status[k], terms[k]) \in Int /\ Locked(status'[k], terms'[k]) \in Int
  BY LockedType DEF TypeOK
<1>2. \A k \in Handoff : /\ f[k] = Locked(status[k], terms[k])
                         /\ g[k] = Locked(status'[k], terms'[k])
  OBVIOUS
<1>3. DOMAIN f = Handoff /\ DOMAIN g = Handoff
  OBVIOUS
<1>4. \A k \in Handoff \ {h} : g[k] = f[k]
  BY <1>2
<1> HIDE DEF f, g
<1>5. SumFunctionOnSet(g, Handoff) = SumFunctionOnSet(f, Handoff) + g[h] - f[h]
  BY <1>1, <1>2, <1>4, FiniteAssumption, SumChanged
<1>6. SumFunctionOnSet(f, Handoff) \in Int
  BY <1>1, <1>2, FiniteAssumption, SumType
<1>7. /\ SumFunction(f) \in Int
      /\ SumFunction(g) = SumFunction(f) + Locked(status'[h], terms'[h]) - Locked(status[h], terms[h])
  BY <1>2, <1>3, <1>5, <1>6 DEF SumFunction
<1> QED BY <1>1, <1>7 DEF f, g

\* Before an escrow ended it brought nobody anything, afterwards what its event says.
LEMMA NotEnded ==
    ASSUME IInv, NEW h \in Handoff, status[h] \notin Terminal
    PROVE  log[h] = <<>>
<1>1. log[h] \in Seq(TerminalEvent) /\ Len(log[h]) = 0
  BY DEF IInv, TypeOK, EndsOnce
<1> QED BY <1>1

LEMMA ShareType ==
    ASSUME IInv, NEW a, NEW h \in Handoff
    PROVE  Share(a, terms[h], log[h]) \in Int
<1>1. CASE log[h] = <<>>
  BY <1>1 DEF Share
<1>2. CASE log[h] # <<>>
  <2>2. status[h] \in Terminal
    BY <1>2 DEF IInv, TypeOK, EndsOnce
  <2>3. terms[h] \in Terms
    BY <2>2 DEF IInv, TypeOK, Terminal
  <2>4. DueTo(a, terms[h], Head(log[h])) \in Int
    BY <2>3, DueType
  <2> QED BY <1>2, <2>4 DEF Share
<1> QED BY <1>1, <1>2

LEMMA SharesMove ==
    ASSUME IInv, IInv', NEW a, NEW h \in Handoff,
           \A k \in Handoff \ {h} : log'[k] = log[k] /\ terms'[k] = terms[k]
    PROVE  /\ SumFunction([k \in Handoff |-> Share(a, terms[k], log[k])]) \in Int
           /\ Share(a, terms[h], log[h]) \in Int /\ Share(a, terms'[h], log'[h]) \in Int
           /\ SumFunction([k \in Handoff |-> Share(a, terms'[k], log'[k])])
                 = SumFunction([k \in Handoff |-> Share(a, terms[k], log[k])])
                   + Share(a, terms'[h], log'[h]) - Share(a, terms[h], log[h])
<1> DEFINE f == [k \in Handoff |-> Share(a, terms[k], log[k])]
           g == [k \in Handoff |-> Share(a, terms'[k], log'[k])]
<1>1. \A k \in Handoff : Share(a, terms[k], log[k]) \in Int /\ Share(a, terms'[k], log'[k]) \in Int
  <2>1. \A k \in Handoff : Share(a, terms[k], log[k]) \in Int
    BY ShareType
  <2> SUFFICES ASSUME NEW k \in Handoff PROVE Share(a, terms'[k], log'[k]) \in Int
    BY <2>1
  <2>2. CASE log'[k] = <<>>
    BY <2>2 DEF Share
  <2>3. CASE log'[k] # <<>>
    <3>2. status'[k] \in Terminal
      BY <2>3 DEF IInv, TypeOK, EndsOnce
    <3>3. terms'[k] \in Terms
      BY <3>2 DEF IInv, TypeOK, Terminal
    <3>4. DueTo(a, terms'[k], Head(log'[k])) \in Int
      BY <3>3, DueType
    <3> QED BY <2>3, <3>4 DEF Share
  <2> QED BY <2>2, <2>3
<1>2. \A k \in Handoff : /\ f[k] = Share(a, terms[k], log[k])
                         /\ g[k] = Share(a, terms'[k], log'[k])
  OBVIOUS
<1>3. DOMAIN f = Handoff /\ DOMAIN g = Handoff
  OBVIOUS
<1>4. \A k \in Handoff \ {h} : g[k] = f[k]
  BY <1>2
<1> HIDE DEF f, g
<1>5. SumFunctionOnSet(g, Handoff) = SumFunctionOnSet(f, Handoff) + g[h] - f[h]
  BY <1>1, <1>2, <1>4, FiniteAssumption, SumChanged
<1>6. SumFunctionOnSet(f, Handoff) \in Int
  BY <1>1, <1>2, FiniteAssumption, SumType
<1>7. /\ SumFunction(f) \in Int
      /\ SumFunction(g) = SumFunction(f) + Share(a, terms'[h], log'[h]) - Share(a, terms[h], log[h])
  BY <1>2, <1>3, <1>5, <1>6 DEF SumFunction
<1> QED BY <1>1, <1>7 DEF f, g

LEMMA ClaimsType ==
    ASSUME TypeOK
    PROVE  SumFunction(claimable) \in Int
<1>1. DOMAIN claimable = Account /\ \A a \in Account : claimable[a] \in Int
  BY DEF TypeOK
<1> QED BY <1>1, FiniteAssumption, SumType DEF SumFunction

LEMMA LockedSumType ==
    ASSUME TypeOK
    PROVE  SumFunction([h \in Handoff |-> Locked(status[h], terms[h])]) \in Int
<1> DEFINE f == [h \in Handoff |-> Locked(status[h], terms[h])]
<1>1. DOMAIN f = Handoff /\ \A h \in Handoff : f[h] \in Int
  BY LockedType DEF TypeOK
<1> HIDE DEF f
<1>2. SumFunction(f) \in Int
  BY <1>1, FiniteAssumption, SumType DEF SumFunction
<1> QED BY <1>2 DEF f

LEMMA BalancedNow == Balanced(Saved) <=> Solvent /\ ExactEntitlement
<1>1. /\ Saved.balance = balance /\ Saved.claimable = claimable /\ Saved.status = status
      /\ Saved.paid = paid /\ Saved.log = log
  BY DEF Saved
<1> HIDE DEF Saved
<1> QED BY <1>1 DEF Balanced, Solvent, ExactEntitlement

\* A step that touches neither terms nor the open call keeps what it would restore balanced.
LEMMA SavedStays ==
    ASSUME BooksInv, frames' = frames, terms' = terms
    PROVE  FramesBalanced'
BY DEF BooksInv, FramesBalanced, Balanced

\* A step that moves no money.
LEMMA BooksRest ==
    ASSUME BooksInv, IInv', UNCHANGED <<status, terms, claimable, balance, paid, log, frames>>
    PROVE  BooksInv'
<1>1. Solvent' /\ ExactEntitlement'
  BY BalancedNow DEF BooksInv, Solvent, ExactEntitlement
<1>2. Balanced(Saved)'
  BY <1>1, BalancedNow, PTL
<1> QED BY <1>2, SavedStays DEF BooksInv

\* An escrow of status NONE or REGISTERED holds nothing and has brought nobody anything.
LEMMA RegisterBooks ==
    ASSUME BooksInv, IInv', NEW h \in Handoff, NEW t \in Offered, RegisterHandoff(h, t)
    PROVE  BooksInv'
<1>1. /\ frames = <<>> /\ frames' = <<>> /\ status[h] = "NONE"
      /\ UNCHANGED <<claimable, balance, paid, log>>
  BY DEF RegisterHandoff, TopLevel
<1>2. \A k \in Handoff \ {h} : status'[k] = status[k] /\ terms'[k] = terms[k]
  BY DEF RegisterHandoff, BooksInv, IInv, TypeOK
<1>3. status'[h] = "REGISTERED"
  BY DEF RegisterHandoff, BooksInv, IInv, TypeOK
<1>4. log[h] = <<>>
  BY <1>1, NotEnded DEF BooksInv, Terminal
<1>5. Solvent'
  <2>1. Locked(status[h], terms[h]) = 0 /\ Locked(status[h], terms[h])' = 0
    BY <1>1, <1>3 DEF Locked
  <2>2. SumFunction([k \in Handoff |-> Locked(status[k], terms[k])])'
           = SumFunction([k \in Handoff |-> Locked(status[k], terms[k])])
    BY <1>2, <2>1, LockedMoves DEF BooksInv, IInv
  <2> QED BY <1>1, <2>2, BalancedNow DEF BooksInv, Solvent
<1>6. ExactEntitlement'
  <2> SUFFICES ASSUME NEW a \in Account
               PROVE  SumFunction([k \in Handoff |-> Share(a, terms'[k], log'[k])])
                         = SumFunction([k \in Handoff |-> Share(a, terms[k], log[k])])
    BY <1>1, BalancedNow DEF BooksInv, ExactEntitlement
  <2>1. Share(a, terms[h], log[h]) = 0 /\ Share(a, terms'[h], log'[h]) = 0
    BY <1>1, <1>4 DEF Share
  <2> QED BY <1>1, <1>2, <2>1, SharesMove DEF BooksInv
<1>7. Balanced(Saved)'
  BY <1>5, <1>6, BalancedNow, PTL
<1>8. FramesBalanced'
  BY <1>1 DEF FramesBalanced
<1> QED BY <1>7, <1>8 DEF BooksInv

\* Funding and bonding lock what they bring.
LEMMA DepositBooks ==
    ASSUME BooksInv, IInv', NEW h \in Handoff, NEW s, NEW n \in Nat,
           status' = [status EXCEPT ![h] = s], balance' = balance + n,
           Locked(s, terms[h]) = Locked(status[h], terms[h]) + n,
           UNCHANGED <<terms, claimable, paid, log, frames>>
    PROVE  BooksInv'
<1>1. status'[h] = s /\ \A k \in Handoff \ {h} : status'[k] = status[k] /\ terms'[k] = terms[k]
  BY DEF BooksInv, IInv, TypeOK
<1>2. Solvent'
  <2> DEFINE locked == SumFunction([k \in Handoff |-> Locked(status[k], terms[k])])
  <2>1. /\ locked \in Int /\ Locked(status[h], terms[h]) \in Int
        /\ locked' = locked + Locked(status[h], terms[h])' - Locked(status[h], terms[h])
    BY <1>1, LockedMoves DEF BooksInv, IInv
  <2>2. Locked(status[h], terms[h])' = Locked(status[h], terms[h]) + n
    BY <1>1
  <2>3. SumFunction(claimable) \in Int /\ SumFunction(claimable)' = SumFunction(claimable)
    BY ClaimsType DEF BooksInv, IInv
  <2>4. balance = SumFunction(claimable) + locked
    BY BalancedNow DEF BooksInv, Solvent
  <2>5. balance' = SumFunction(claimable)' + locked'
    <3> HIDE DEF locked
    <3> QED BY <2>1, <2>2, <2>3, <2>4
  <2> QED BY <2>5 DEF Solvent
<1>3. ExactEntitlement'
  BY BalancedNow DEF BooksInv, ExactEntitlement
<1>4. Balanced(Saved)'
  BY <1>2, <1>3, BalancedNow, PTL
<1> QED BY <1>4, SavedStays DEF BooksInv

\* An ending credits what was locked, to each account what its event says.
LEMMA PayoutBooks ==
    ASSUME BooksInv, IInv', NEW h \in Handoff, status[h] \notin Terminal,
           NEW s \in Terminal, NEW e \in TerminalEvent, Close(h, s, e),
           SumFunction(claimable') = SumFunction(claimable) + Locked(status[h], terms[h]),
           \A a \in Account : claimable'[a] = claimable[a] + DueTo(a, terms[h], e),
           UNCHANGED <<terms, balance, paid, frames>>
    PROVE  BooksInv'
<1>1. log[h] = <<>>
  BY NotEnded DEF BooksInv
<1>2. /\ status'[h] = s /\ log'[h] = <<e>>
      /\ \A k \in Handoff \ {h} : status'[k] = status[k] /\ log'[k] = log[k] /\ terms'[k] = terms[k]
  BY <1>1 DEF Close, BooksInv, IInv, TypeOK
<1>3. Solvent'
  <2> DEFINE locked == SumFunction([k \in Handoff |-> Locked(status[k], terms[k])])
  <2>1. /\ locked \in Int /\ Locked(status[h], terms[h]) \in Int
        /\ locked' = locked + Locked(status[h], terms[h])' - Locked(status[h], terms[h])
    BY <1>2, LockedMoves DEF BooksInv, IInv
  <2>2. Locked(status[h], terms[h])' = 0
    BY <1>2 DEF Locked, Terminal
  <2>3. SumFunction(claimable) \in Int
    BY ClaimsType DEF BooksInv, IInv
  <2>4. balance = SumFunction(claimable) + locked
    BY BalancedNow DEF BooksInv, Solvent
  <2>5. balance' = SumFunction(claimable') + locked'
    <3> HIDE DEF locked
    <3> QED BY <2>1, <2>2, <2>3, <2>4
  <2> QED BY <2>5 DEF Solvent
<1>4. ExactEntitlement'
  <2> SUFFICES ASSUME NEW a \in Account
               PROVE  claimable'[a] + paid'[a]
                         = SumFunction([k \in Handoff |-> Share(a, terms'[k], log'[k])])
    BY DEF ExactEntitlement
  <2> DEFINE shares == SumFunction([k \in Handoff |-> Share(a, terms[k], log[k])])
             after == SumFunction([k \in Handoff |-> Share(a, terms'[k], log'[k])])
  <2>1. /\ shares \in Int /\ Share(a, terms[h], log[h]) \in Int
        /\ Share(a, terms'[h], log'[h]) \in Int
        /\ after = shares + Share(a, terms'[h], log'[h]) - Share(a, terms[h], log[h])
    BY <1>2, SharesMove DEF BooksInv
  <2>2. Share(a, terms[h], log[h]) = 0
    BY <1>1 DEF Share
  <2>3. Share(a, terms'[h], log'[h]) = DueTo(a, terms[h], e)
    <3>1. Head(<<e>>) = e /\ <<e>> # <<>>
      OBVIOUS
    <3> QED BY <1>2, <3>1 DEF Share
  <2>4. claimable[a] + paid[a] = shares
    BY BalancedNow DEF BooksInv, ExactEntitlement
  <2>5. claimable[a] \in Int /\ paid[a] \in Int
    BY DEF BooksInv, IInv, TypeOK
  <2> HIDE DEF shares, after
  <2> QED BY <2>1, <2>2, <2>3, <2>4, <2>5 DEF after
<1>5. Balanced(Saved)'
  BY <1>3, <1>4, BalancedNow, PTL
<1> QED BY <1>5, SavedStays DEF BooksInv

\* A withdrawal pays out one claim, and would restore the books it found.
LEMMA WithdrawBooks ==
    ASSUME BooksInv, IInv', NEW a \in Account, Withdraw(a)
    PROVE  BooksInv'
<1> DEFINE frame == [account |-> a, saved |-> Saved]
<1>1. /\ frames' = <<frame>> /\ UNCHANGED <<status, terms, log>>
      /\ claimable' = [claimable EXCEPT ![a] = 0]
      /\ paid' = [paid EXCEPT ![a] = @ + claimable[a]]
      /\ balance' = balance - claimable[a]
  BY DEF Withdraw, NonReentrant
<1>2. /\ claimable \in [Account -> Nat] /\ paid \in [Account -> Nat] /\ claimable[a] \in Int
      /\ claimable' \in [Account -> Nat] /\ paid' \in [Account -> Nat]
  BY DEF BooksInv, IInv, TypeOK
<1>3. Solvent'
  <2> DEFINE locked == SumFunction([k \in Handoff |-> Locked(status[k], terms[k])])
             claims == SumFunction(claimable)
  <2>1. locked \in Int /\ locked' = locked
    BY <1>1, LockedSumType DEF BooksInv, IInv
  <2>2. claims \in Int /\ claims' = claims - claimable[a]
    <3>1. /\ \A x \in Account : claimable[x] \in Int /\ claimable'[x] \in Int
          /\ \A x \in Account \ {a} : claimable'[x] = claimable[x]
          /\ claimable'[a] = 0 /\ DOMAIN claimable = Account /\ DOMAIN claimable' = Account
      BY <1>1, <1>2
    <3>2. SumFunctionOnSet(claimable', Account)
             = SumFunctionOnSet(claimable, Account) + claimable'[a] - claimable[a]
      BY <3>1, FiniteAssumption, SumChanged
    <3>3. SumFunctionOnSet(claimable, Account) \in Int
      BY <3>1, FiniteAssumption, SumType
    <3>4. SumFunctionOnSet(claimable', Account) = SumFunctionOnSet(claimable, Account) - claimable[a]
      BY <1>2, <3>1, <3>2, <3>3
    <3> QED BY <3>1, <3>3, <3>4 DEF SumFunction
  <2>3. balance = claims + locked
    BY BalancedNow DEF BooksInv, Solvent
  <2>4. balance' = claims' + locked'
    <3> HIDE DEF claims, locked
    <3> QED BY <1>1, <1>2, <2>1, <2>2, <2>3
  <2> QED BY <2>4 DEF Solvent
<1>4. ExactEntitlement'
  <2> SUFFICES ASSUME NEW x \in Account
               PROVE  claimable'[x] + paid'[x] = claimable[x] + paid[x]
    BY <1>1, BalancedNow DEF BooksInv, ExactEntitlement
  <2> QED BY <1>1, <1>2
<1>5. Balanced(Saved)'
  BY <1>3, <1>4, BalancedNow, PTL
<1>6. FramesBalanced'
  <2>1. \A i \in DOMAIN frames' : frames'[i].saved = Saved
    BY <1>1
  <2>2. Solvent /\ ExactEntitlement
    BY BalancedNow DEF BooksInv
  <2>3. /\ Saved.balance = balance /\ Saved.claimable = claimable /\ Saved.status = status
        /\ Saved.paid = paid /\ Saved.log = log
    BY DEF Saved
  <2> HIDE DEF Saved
  <2> QED BY <1>1, <2>1, <2>2, <2>3 DEF FramesBalanced, Balanced, Solvent, ExactEntitlement
<1> QED BY <1>5, <1>6 DEF BooksInv

\* A rollback restores balanced books, a return keeps them.
LEMMA ReturnBooks ==
    ASSUME BooksInv, IInv', WithdrawReturns \/ WithdrawReverts
    PROVE  BooksInv'
<1>1. frames # <<>> /\ frames' = <<>> /\ terms' = terms
  BY DEF BooksInv, IInv, TypeOK, WithdrawReturns, WithdrawReverts
<1>2. FramesBalanced'
  BY <1>1 DEF FramesBalanced
<1>3. CASE WithdrawReturns
  <2>1. Solvent' /\ ExactEntitlement'
    BY <1>3, BalancedNow DEF BooksInv, Solvent, ExactEntitlement, WithdrawReturns
  <2>2. Balanced(Saved)'
    BY <2>1, BalancedNow, PTL
  <2> QED BY <1>2, <2>2 DEF BooksInv
<1>4. CASE WithdrawReverts
  <2> DEFINE saved == Head(frames).saved
  <2>1. 1 \in DOMAIN frames /\ frames[1] = Head(frames)
    BY <1>1, HeadOfSeq DEF BooksInv, IInv, TypeOK
  <2>2. Balanced(saved)
    BY <2>1 DEF BooksInv, FramesBalanced
  <2>3. /\ status' = saved.status /\ claimable' = saved.claimable /\ balance' = saved.balance
        /\ paid' = saved.paid /\ log' = saved.log
    BY <1>4 DEF WithdrawReverts
  <2> HIDE DEF saved
  <2>4. Solvent' /\ ExactEntitlement'
    BY <1>1, <2>2, <2>3 DEF Balanced, Solvent, ExactEntitlement
  <2>5. Balanced(Saved)'
    BY <2>4, BalancedNow, PTL
  <2> QED BY <1>2, <2>5 DEF BooksInv
<1> QED BY <1>3, <1>4

\* What an amount brings to account a if it is account b's.
To(a, b, n) == IF a = b THEN n ELSE 0

\* What each event gives to account a.
LEMMA DueCompletion ==
    ASSUME NEW a, NEW t \in Terms
    PROVE  DueTo(a, t, HandoffCompleted) = To(a, t.provider, t.principal + t.bond)
<1> DEFINE e == HandoffCompleted
           n == t.principal + t.bond
<1>1. n \in Int
  BY DEF Terms
<1>2. e.kind = "HandoffCompleted"
  BY DEF HandoffCompleted
<1> HIDE DEF e
<1>3. ToRequester(t, e) = 0 /\ Escrowed(t, e) = n
  BY <1>2 DEF ToRequester, Escrowed
<1> HIDE DEF n
<1>4. DueTo(a, t, e) = To(a, t.provider, n)
  BY <1>1, <1>3 DEF DueTo, To
<1> QED BY <1>4 DEF e, n

LEMMA DueVerdict ==
    ASSUME NEW a, NEW t \in Terms, NEW c, NEW r \in Rule
    PROVE  /\ r = 1 => DueTo(a, t, VerdictApplied(c, r)) = To(a, t.provider, t.principal + t.bond)
           /\ r = 2 => DueTo(a, t, VerdictApplied(c, r)) = To(a, t.requester, t.principal + t.bond)
           /\ r = 3 => DueTo(a, t, VerdictApplied(c, r))
                          = To(a, t.requester, t.principal) + To(a, t.provider, t.bond)
<1> DEFINE e == VerdictApplied(c, r)
           P == t.principal
           B == t.bond
<1>1. P \in Int /\ B \in Int /\ P + B \in Int
  BY DEF Terms
<1>2. e.kind = "VerdictApplied" /\ e.rule = r
  BY DEF VerdictApplied
<1> HIDE DEF e
<1>3. /\ Escrowed(t, e) = P + B
      /\ r = 1 => ToRequester(t, e) = 0
      /\ r = 2 => ToRequester(t, e) = P + B
      /\ r = 3 => ToRequester(t, e) = P
  BY <1>2 DEF ToRequester, Escrowed, RELEASE_PROVIDER, PROVIDER_BREACH
<1> HIDE DEF P, B
<1>4. /\ r = 1 => DueTo(a, t, e) = To(a, t.provider, P + B)
      /\ r = 2 => DueTo(a, t, e) = To(a, t.requester, P + B)
      /\ r = 3 => DueTo(a, t, e) = To(a, t.requester, P) + To(a, t.provider, B)
  BY <1>1, <1>3 DEF DueTo, To
<1> QED BY <1>4 DEF e, P, B

LEMMA DueRecovered ==
    ASSUME NEW a, NEW t \in Terms
    PROVE  /\ DueTo(a, t, EscrowRecovered("UNFUNDED_EXPIRED")) = 0
           /\ DueTo(a, t, EscrowRecovered("BOND_NOT_POSTED")) = To(a, t.requester, t.principal)
           /\ DueTo(a, t, EscrowRecovered("FINAL_VERDICT_DEADLINE_EXPIRED"))
                 = To(a, t.requester, t.principal) + To(a, t.provider, t.bond)
<1> DEFINE P == t.principal
           B == t.bond
<1>1. P \in Int /\ B \in Int /\ P + B \in Int
  BY DEF Terms
<1>2. \A w : /\ EscrowRecovered(w).kind = "EscrowRecovered"
             /\ EscrowRecovered(w).reason = w
  BY DEF EscrowRecovered
<1>3. ASSUME NEW w
      PROVE  /\ w = "UNFUNDED_EXPIRED"
                => ToRequester(t, EscrowRecovered(w)) = 0 /\ Escrowed(t, EscrowRecovered(w)) = 0
             /\ w = "BOND_NOT_POSTED"
                => ToRequester(t, EscrowRecovered(w)) = P /\ Escrowed(t, EscrowRecovered(w)) = P
             /\ w = "FINAL_VERDICT_DEADLINE_EXPIRED"
                => ToRequester(t, EscrowRecovered(w)) = P /\ Escrowed(t, EscrowRecovered(w)) = P + B
  <2> DEFINE e == EscrowRecovered(w)
  <2>1. e.kind = "EscrowRecovered" /\ e.reason = w
    BY <1>2
  <2> HIDE DEF e
  <2> QED BY <2>1 DEF ToRequester, Escrowed, e
<1> HIDE DEF P, B
<1>4. /\ DueTo(a, t, EscrowRecovered("UNFUNDED_EXPIRED")) = 0
      /\ DueTo(a, t, EscrowRecovered("BOND_NOT_POSTED")) = To(a, t.requester, P)
      /\ DueTo(a, t, EscrowRecovered("FINAL_VERDICT_DEADLINE_EXPIRED"))
            = To(a, t.requester, P) + To(a, t.provider, B)
  BY <1>1, <1>3 DEF DueTo, To
<1> QED BY <1>4 DEF P, B

\* Crediting one account.
LEMMA CreditOne ==
    ASSUME NEW claims \in [Account -> Nat], NEW b \in Account, NEW n \in Nat
    PROVE  /\ Credit(claims, b, n) \in [Account -> Nat]
           /\ \A a \in Account : Credit(claims, b, n)[a] = claims[a] + To(a, b, n)
BY CreditType DEF Credit, To

\* What the payout paths credit is what was locked, to whom their event names.
Pays(claims, h, e) ==
    /\ SumFunction(claims) = SumFunction(claimable) + Locked(status[h], terms[h])
    /\ \A a \in Account : claims[a] = claimable[a] + DueTo(a, terms[h], e)

LEMMA OnePaid ==
    ASSUME TypeOK, NEW claims, NEW h \in Handoff, NEW e, NEW b \in Account, NEW n \in Nat,
           claims = Credit(claimable, b, n), Locked(status[h], terms[h]) = n,
           \A a \in Account : DueTo(a, terms[h], e) = To(a, b, n)
    PROVE  Pays(claims, h, e)
<1>1. claimable \in [Account -> Nat]
  BY DEF TypeOK
<1>2. SumFunction(claims) = SumFunction(claimable) + n
  BY <1>1, SumCredited
<1>3. \A a \in Account : claims[a] = claimable[a] + To(a, b, n)
  BY <1>1, CreditOne
<1> QED BY <1>2, <1>3 DEF Pays

\* The two accounts may be the same one.
LEMMA TwoPaid ==
    ASSUME TypeOK, NEW claims, NEW h \in Handoff, NEW e,
           NEW b \in Account, NEW n \in Nat, NEW d \in Account, NEW m \in Nat,
           claims = Credit(Credit(claimable, b, n), d, m), Locked(status[h], terms[h]) = n + m,
           \A a \in Account : DueTo(a, terms[h], e) = To(a, b, n) + To(a, d, m)
    PROVE  Pays(claims, h, e)
<1> DEFINE one == Credit(claimable, b, n)
<1>1. claimable \in [Account -> Nat]
  BY DEF TypeOK
<1>2. one \in [Account -> Nat] /\ \A a \in Account : one[a] = claimable[a] + To(a, b, n)
  BY <1>1, CreditOne
<1>3. SumFunction(one) = SumFunction(claimable) + n
  BY <1>1, SumCredited
<1>4. claims = Credit(one, d, m)
  OBVIOUS
<1> HIDE DEF one
<1>5. \A a \in Account : claims[a] = one[a] + To(a, d, m)
  BY <1>2, <1>4, CreditOne
<1>6. SumFunction(claims) = SumFunction(one) + m
  BY <1>2, <1>4, SumCredited
<1>7. SumFunction(claims) = SumFunction(claimable) + Locked(status[h], terms[h])
  BY <1>3, <1>6, ClaimsType
<1>8. \A a \in Account : claims[a] = claimable[a] + DueTo(a, terms[h], e)
  <2> TAKE a \in Account
  <2>1. claimable[a] \in Int /\ To(a, b, n) \in Int /\ To(a, d, m) \in Int
    BY <1>1 DEF To
  <2>2. claims[a] = (claimable[a] + To(a, b, n)) + To(a, d, m)
    BY <1>2, <1>5
  <2> QED BY <2>1, <2>2
<1> QED BY <1>7, <1>8 DEF Pays

LEMMA CompletionBooks ==
    ASSUME BooksInv, IInv', NEW h \in Handoff, NEW b \in Binding, ApplyHandoffCompletion(h, b)
    PROVE  BooksInv'
<1>1. /\ status[h] = "ACTIVE" /\ Close(h, "SETTLED", HandoffCompleted)
      /\ claimable' = Credit(claimable, terms[h].provider, terms[h].principal + terms[h].bond)
      /\ UNCHANGED <<terms, balance, paid, frames>>
  BY DEF ApplyHandoffCompletion
<1>2. /\ TypeOK /\ terms[h] \in Terms /\ terms[h].provider \in Account
      /\ terms[h].principal + terms[h].bond \in Nat
  BY <1>1, RegisteredTerms DEF BooksInv, IInv
<1>3. Locked(status[h], terms[h]) = terms[h].principal + terms[h].bond
  BY <1>1 DEF Locked
<1>4. \A a \in Account : DueTo(a, terms[h], HandoffCompleted)
                            = To(a, terms[h].provider, terms[h].principal + terms[h].bond)
  BY <1>2, DueCompletion
<1>5. Pays(claimable', h, HandoffCompleted)
  BY <1>1, <1>2, <1>3, <1>4, OnePaid
<1>6. status[h] \notin Terminal /\ "SETTLED" \in Terminal
  BY <1>1 DEF Terminal
<1> QED BY <1>1, <1>5, <1>6, EventTypes, PayoutBooks DEF Pays

LEMMA VerdictBooks ==
    ASSUME BooksInv, IInv', NEW h \in Handoff, NEW c \in Case, NEW b \in Binding, NEW r \in Rule,
           ApplyFinalVerdict(c, h, b, r)
    PROVE  BooksInv'
<1> DEFINE e == VerdictApplied(c, r)
<1>1. /\ status[h] = "ACTIVE" /\ Close(h, "SETTLED", e)
      /\ claimable' = Consequence(claimable, terms[h], r)
      /\ UNCHANGED <<terms, balance, paid, frames>>
  BY DEF ApplyFinalVerdict
<1>2. /\ TypeOK /\ terms[h] \in Terms
      /\ terms[h].requester \in Account /\ terms[h].provider \in Account
      /\ terms[h].principal \in Nat /\ terms[h].bond \in Nat
      /\ terms[h].principal + terms[h].bond \in Nat
  BY <1>1, RegisteredTerms DEF BooksInv, IInv
<1>3. Locked(status[h], terms[h]) = terms[h].principal + terms[h].bond
  BY <1>1 DEF Locked
<1>4. e \in TerminalEvent
  BY EventTypes
<1>5. Pays(claimable', h, e)
  <2>1. CASE r = 1
    <3>1. claimable' = Credit(claimable, terms[h].provider, terms[h].principal + terms[h].bond)
      BY <1>1, <2>1 DEF Consequence, RELEASE_PROVIDER, PROVIDER_BREACH
    <3>2. \A a \in Account : DueTo(a, terms[h], e)
                                = To(a, terms[h].provider, terms[h].principal + terms[h].bond)
      BY <1>2, <2>1, DueVerdict
    <3> HIDE DEF e
    <3> QED BY <1>2, <1>3, <3>1, <3>2, OnePaid
  <2>2. CASE r = 2
    <3>1. claimable' = Credit(claimable, terms[h].requester, terms[h].principal + terms[h].bond)
      BY <1>1, <2>2 DEF Consequence, RELEASE_PROVIDER, PROVIDER_BREACH
    <3>2. \A a \in Account : DueTo(a, terms[h], e)
                                = To(a, terms[h].requester, terms[h].principal + terms[h].bond)
      BY <1>2, <2>2, DueVerdict
    <3> HIDE DEF e
    <3> QED BY <1>2, <1>3, <3>1, <3>2, OnePaid
  <2>3. CASE r = 3
    <3>1. claimable' = Credit(Credit(claimable, terms[h].requester, terms[h].principal),
                              terms[h].provider, terms[h].bond)
      BY <1>1, <2>3 DEF Consequence, RELEASE_PROVIDER, PROVIDER_BREACH
    <3>2. \A a \in Account : DueTo(a, terms[h], e)
                                = To(a, terms[h].requester, terms[h].principal)
                                  + To(a, terms[h].provider, terms[h].bond)
      BY <1>2, <2>3, DueVerdict
    <3> HIDE DEF e
    <3> QED BY <1>2, <1>3, <3>1, <3>2, TwoPaid
  <2> QED BY <2>1, <2>2, <2>3 DEF Rule
<1>6. status[h] \notin Terminal /\ "SETTLED" \in Terminal
  BY <1>1 DEF Terminal
<1> HIDE DEF e
<1> QED BY <1>1, <1>4, <1>5, <1>6, PayoutBooks DEF Pays

LEMMA UnactivatedBooks ==
    ASSUME BooksInv, IInv', NEW h \in Handoff, RecoverUnactivated(h)
    PROVE  BooksInv'
<1>1. UNCHANGED <<terms, balance, paid, frames>>
  BY DEF RecoverUnactivated
<1>2. TypeOK /\ claimable \in [Account -> Nat]
  BY DEF BooksInv, IInv, TypeOK
<1>3. CASE status[h] = "REGISTERED"
  <2> DEFINE e == EscrowRecovered("UNFUNDED_EXPIRED")
  <2>1. Close(h, "RECOVERED", e) /\ claimable' = claimable
    BY <1>3 DEF RecoverUnactivated
  <2>2. terms[h] \in Terms
    BY <1>2, <1>3, RegisteredTerms
  <2>3. Locked(status[h], terms[h]) = 0
    BY <1>3 DEF Locked
  <2>4. SumFunction(claimable') = SumFunction(claimable) + Locked(status[h], terms[h])
    BY <1>2, <2>1, <2>3, ClaimsType
  <2>5. \A a \in Account : DueTo(a, terms[h], e) = 0
    BY <2>2, DueRecovered
  <2>6. status[h] \notin Terminal /\ "RECOVERED" \in Terminal /\ e \in TerminalEvent
    BY <1>3, EventTypes DEF Terminal
  <2> HIDE DEF e
  <2>7. \A a \in Account : claimable'[a] = claimable[a] + DueTo(a, terms[h], e)
    BY <1>2, <2>1, <2>5
  <2> QED BY <1>1, <2>1, <2>4, <2>6, <2>7, PayoutBooks
<1>4. CASE status[h] = "FUNDED"
  <2> DEFINE e == EscrowRecovered("BOND_NOT_POSTED")
  <2>1. /\ Close(h, "RECOVERED", e)
        /\ claimable' = Credit(claimable, terms[h].requester, terms[h].principal)
    BY <1>4 DEF RecoverUnactivated
  <2>2. terms[h] \in Terms /\ terms[h].requester \in Account /\ terms[h].principal \in Nat
    BY <1>2, <1>4, RegisteredTerms
  <2>3. Locked(status[h], terms[h]) = terms[h].principal
    BY <1>4 DEF Locked
  <2>4. \A a \in Account : DueTo(a, terms[h], e) = To(a, terms[h].requester, terms[h].principal)
    BY <2>2, DueRecovered
  <2>5. status[h] \notin Terminal /\ "RECOVERED" \in Terminal /\ e \in TerminalEvent
    BY <1>4, EventTypes DEF Terminal
  <2> HIDE DEF e
  <2>6. Pays(claimable', h, e)
    BY <1>2, <2>1, <2>2, <2>3, <2>4, OnePaid
  <2> QED BY <1>1, <2>1, <2>5, <2>6, PayoutBooks DEF Pays
<1> QED BY <1>3, <1>4 DEF RecoverUnactivated

LEMMA ActiveBooks ==
    ASSUME BooksInv, IInv', NEW h \in Handoff, RecoverActive(h)
    PROVE  BooksInv'
<1> DEFINE e == EscrowRecovered("FINAL_VERDICT_DEADLINE_EXPIRED")
<1>1. /\ status[h] = "ACTIVE" /\ Close(h, "RECOVERED", e)
      /\ claimable' = Credit(Credit(claimable, terms[h].requester, terms[h].principal),
                             terms[h].provider, terms[h].bond)
      /\ UNCHANGED <<terms, balance, paid, frames>>
  BY DEF RecoverActive
<1>2. /\ TypeOK /\ terms[h] \in Terms
      /\ terms[h].requester \in Account /\ terms[h].provider \in Account
      /\ terms[h].principal \in Nat /\ terms[h].bond \in Nat
  BY <1>1, RegisteredTerms DEF BooksInv, IInv
<1>3. Locked(status[h], terms[h]) = terms[h].principal + terms[h].bond
  BY <1>1 DEF Locked
<1>4. \A a \in Account : DueTo(a, terms[h], e)
                            = To(a, terms[h].requester, terms[h].principal)
                              + To(a, terms[h].provider, terms[h].bond)
  BY <1>2, DueRecovered
<1>5. status[h] \notin Terminal /\ "RECOVERED" \in Terminal /\ e \in TerminalEvent
  BY <1>1, EventTypes DEF Terminal
<1> HIDE DEF e
<1>6. Pays(claimable', h, e)
  BY <1>1, <1>2, <1>3, <1>4, TwoPaid
<1> QED BY <1>1, <1>5, <1>6, PayoutBooks DEF Pays

LEMMA InitBooks == Init => BooksInv
<1> SUFFICES ASSUME Init PROVE BooksInv
  OBVIOUS
<1>1. IInv
  BY InitIInv
<1>2. SumFunction(claimable) = 0
  <2>1. DOMAIN claimable = Account /\ \A a \in Account : claimable[a] = 0
    BY DEF Init
  <2> QED BY <2>1, FiniteAssumption, SumOfZeros DEF SumFunction
<1>3. SumFunction([h \in Handoff |-> Locked(status[h], terms[h])]) = 0
  <2> DEFINE f == [h \in Handoff |-> Locked(status[h], terms[h])]
  <2>1. DOMAIN f = Handoff /\ \A h \in Handoff : f[h] = 0
    BY DEF Init, Locked
  <2> HIDE DEF f
  <2>2. SumFunction(f) = 0
    BY <2>1, FiniteAssumption, SumOfZeros DEF SumFunction
  <2> QED BY <2>2 DEF f
<1>4. \A a \in Account : SumFunction([h \in Handoff |-> Share(a, terms[h], log[h])]) = 0
  <2> TAKE a \in Account
  <2> DEFINE f == [h \in Handoff |-> Share(a, terms[h], log[h])]
  <2>1. DOMAIN f = Handoff /\ \A h \in Handoff : f[h] = 0
    BY DEF Init, Share
  <2> HIDE DEF f
  <2>2. SumFunction(f) = 0
    BY <2>1, FiniteAssumption, SumOfZeros DEF SumFunction
  <2> QED BY <2>2 DEF f
<1>5. Balanced(Saved)
  BY <1>2, <1>3, <1>4, BalancedNow DEF Init, Solvent, ExactEntitlement
<1>6. FramesBalanced
  BY DEF Init, FramesBalanced
<1> QED BY <1>1, <1>5, <1>6 DEF BooksInv

LEMMA NextBooks == BooksInv /\ [Next]_vars => BooksInv'
<1> SUFFICES ASSUME BooksInv, [Next]_vars PROVE BooksInv'
  OBVIOUS
<1>0. IInv /\ IInv' /\ TypeOK
  BY NextIInv DEF BooksInv, IInv
<1>1. CASE Tick
  BY <1>0, <1>1, BooksRest DEF Tick
<1>2. ASSUME NEW h \in Handoff, NEW t \in Offered, RegisterHandoff(h, t)
      PROVE  BooksInv'
  BY <1>0, <1>2, RegisterBooks
<1>3. ASSUME NEW h \in Handoff, NEW b \in Binding, ApplyHandoffCompletion(h, b)
      PROVE  BooksInv'
  BY <1>0, <1>3, CompletionBooks
<1>4. ASSUME NEW h \in Handoff, NEW c \in Case, NEW b \in Binding, NEW r \in Rule,
             ApplyFinalVerdict(c, h, b, r)
      PROVE  BooksInv'
  BY <1>0, <1>4, VerdictBooks
<1>5. ASSUME NEW h \in Handoff, NEW a \in Account, FundHandoff(h, a)
      PROVE  BooksInv'
  <2>1. /\ status[h] = "REGISTERED" /\ status' = [status EXCEPT ![h] = "FUNDED"]
        /\ balance' = balance + terms[h].principal
        /\ UNCHANGED <<terms, claimable, paid, log, frames>>
    BY <1>5 DEF FundHandoff
  <2>2. terms[h].principal \in Nat
    BY <1>0, <2>1, RegisteredTerms
  <2>3. Locked("FUNDED", terms[h]) = Locked(status[h], terms[h]) + terms[h].principal
    BY <2>1, <2>2 DEF Locked
  <2> QED BY <1>0, <2>1, <2>2, <2>3, DepositBooks
<1>6. ASSUME NEW h \in Handoff, NEW a \in Account, PostBond(h, a)
      PROVE  BooksInv'
  <2>1. /\ status[h] = "FUNDED" /\ status' = [status EXCEPT ![h] = "ACTIVE"]
        /\ balance' = balance + terms[h].bond
        /\ UNCHANGED <<terms, claimable, paid, log, frames>>
    BY <1>6 DEF PostBond
  <2>2. terms[h].bond \in Nat
    BY <1>0, <2>1, RegisteredTerms
  <2>3. Locked("ACTIVE", terms[h]) = Locked(status[h], terms[h]) + terms[h].bond
    BY <2>1 DEF Locked
  <2> QED BY <1>0, <2>1, <2>2, <2>3, DepositBooks
<1>7. ASSUME NEW h \in Handoff, RecoverUnactivated(h)
      PROVE  BooksInv'
  BY <1>0, <1>7, UnactivatedBooks
<1>8. ASSUME NEW h \in Handoff, RecoverActive(h)
      PROVE  BooksInv'
  BY <1>0, <1>8, ActiveBooks
<1>9. ASSUME NEW a \in Account, Withdraw(a)
      PROVE  BooksInv'
  BY <1>0, <1>9, WithdrawBooks
<1>10. CASE WithdrawReturns \/ WithdrawReverts
  BY <1>0, <1>10, ReturnBooks
<1>11. CASE UNCHANGED vars
  BY <1>0, <1>11, BooksRest DEF vars
<1> QED
  BY <1>1, <1>2, <1>3, <1>4, <1>5, <1>6, <1>7, <1>8, <1>9, <1>10, <1>11
  DEF Next, ControllerMessage, AccountCall, RegistrationIgnored, CompletionIgnored, VerdictIgnored

LEMMA SpecBooks == Spec => []BooksInv
BY InitBooks, NextBooks, PTL DEF Spec

\* The contract always holds exactly what it owes, for any number of escrows and
\* accounts and any amounts: also inside a withdrawal and after its rollback.
THEOREM VaultIsSolvent == Spec => []Solvent
<1>1. BooksInv => Solvent
  BY BalancedNow DEF BooksInv
<1> QED BY SpecBooks, <1>1, PTL

\* Every account has received or can claim exactly what the terminal events entitle
\* it to, after any interleaving of payouts, withdrawals and rollbacks.
THEOREM EntitlementIsExact == Spec => []ExactEntitlement
<1>1. BooksInv => ExactEntitlement
  BY BalancedNow DEF BooksInv
<1> QED BY SpecBooks, <1>1, PTL

-----------------------------------------------------------------------------
(* Which escrow a processed case settled.                                  *)

\* The escrows whose terminal event, in these logs, is a verdict of case c.
Settled(c, logs) == {h \in Handoff : \E r \in Rule : logs[h] = <<VerdictApplied(c, r)>>}

\* The inductive invariant: no verdict is applied inside a withdrawal, so that a
\* rollback neither forgets nor revives one.
CaseInv ==
    /\ IInv
    /\ \A c \in Case : IF c \in processed THEN \E h \in Handoff : Settled(c, log) = {h}
                                          ELSE Settled(c, log) = {}
    /\ \A i \in DOMAIN frames, c \in Case : Settled(c, frames[i].saved.log) = Settled(c, log)

\* A step that leaves every case with the escrows it had settled.
LEMMA CaseRest ==
    ASSUME CaseInv, IInv', processed' = processed, frames' \in {frames, <<>>},
           \A c \in Case : Settled(c, log') = Settled(c, log)
    PROVE  CaseInv'
<1>1. \A c \in Case : IF c \in processed' THEN \E h \in Handoff : Settled(c, log') = {h}
                                          ELSE Settled(c, log') = {}
  BY DEF CaseInv
<1>2. \A i \in DOMAIN frames', c \in Case : Settled(c, frames'[i].saved.log) = Settled(c, log')
  BY DEF CaseInv
<1> QED BY <1>1, <1>2 DEF CaseInv

\* An ending by completion or recovery settles no case.
LEMMA EndingSettlesNone ==
    ASSUME CaseInv, IInv', NEW h \in Handoff, status[h] \notin Terminal, NEW s, NEW e,
           Close(h, s, e), e.kind # "VerdictApplied", UNCHANGED <<processed, frames>>
    PROVE  CaseInv'
<1>1. log[h] = <<>>
  BY NotEnded DEF CaseInv
<1>2. log'[h] = <<e>> /\ \A k \in Handoff \ {h} : log'[k] = log[k]
  BY <1>1 DEF Close, CaseInv, IInv, TypeOK
<1>3. ASSUME NEW c, NEW r
      PROVE  <<>> # <<VerdictApplied(c, r)>> /\ <<e>> # <<VerdictApplied(c, r)>>
  <2>1. VerdictApplied(c, r).kind = "VerdictApplied"
    BY DEF VerdictApplied
  <2> QED BY <2>1
<1>4. \A c \in Case : Settled(c, log') = Settled(c, log)
  BY <1>1, <1>2, <1>3 DEF Settled
<1> QED BY <1>4, CaseRest

\* A verdict settles its own case, which had settled none, and no other.
LEMMA VerdictSettlesOne ==
    ASSUME CaseInv, IInv', NEW h \in Handoff, NEW c \in Case, NEW b \in Binding, NEW r \in Rule,
           ApplyFinalVerdict(c, h, b, r)
    PROVE  CaseInv'
<1>1. /\ frames = <<>> /\ frames' = <<>> /\ status[h] = "ACTIVE" /\ c \notin processed
      /\ processed' = processed \cup {c} /\ Close(h, "SETTLED", VerdictApplied(c, r))
  BY DEF ApplyFinalVerdict, TopLevel
<1>2. log[h] = <<>>
  BY <1>1, NotEnded DEF CaseInv, Terminal
<1>3. log'[h] = <<VerdictApplied(c, r)>> /\ \A k \in Handoff \ {h} : log'[k] = log[k]
  BY <1>1, <1>2 DEF Close, CaseInv, IInv, TypeOK
<1>4. \A d, q : /\ <<>> # <<VerdictApplied(d, q)>>
                /\ <<VerdictApplied(c, r)>> = <<VerdictApplied(d, q)>> => c = d
  <2>1. \A d, q : VerdictApplied(d, q).case = d
    BY DEF VerdictApplied
  <2> TAKE d, q
  <2>2. VerdictApplied(c, r).case = c /\ VerdictApplied(d, q).case = d
    BY <2>1
  <2> QED BY <2>2
<1>5. Settled(c, log') = {h}
  <2>1. Settled(c, log) = {}
    BY <1>1 DEF CaseInv
  <2>2. h \in Settled(c, log')
    BY <1>3 DEF Settled
  <2>3. ASSUME NEW k \in Settled(c, log')
        PROVE  k = h
    <3>1. k \in Handoff /\ k \notin Settled(c, log)
      BY <2>1 DEF Settled
    <3> QED BY <1>3, <3>1 DEF Settled
  <2> QED BY <2>2, <2>3
<1>6. ASSUME NEW d \in Case, d # c
      PROVE  Settled(d, log') = Settled(d, log)
  <2>1. h \notin Settled(d, log') /\ h \notin Settled(d, log)
    BY <1>2, <1>3, <1>4, <1>6 DEF Settled
  <2>2. \A k \in Handoff \ {h} : k \in Settled(d, log') <=> k \in Settled(d, log)
    BY <1>3 DEF Settled
  <2>3. Settled(d, log') \subseteq Handoff /\ Settled(d, log) \subseteq Handoff
    BY DEF Settled
  <2> QED BY <2>1, <2>2, <2>3
<1>7. ASSUME NEW d \in Case
      PROVE  IF d \in processed' THEN \E k \in Handoff : Settled(d, log') = {k}
                                 ELSE Settled(d, log') = {}
  <2>1. CASE d = c
    BY <1>1, <1>5, <2>1
  <2>2. CASE d # c
    BY <1>1, <1>6, <2>2 DEF CaseInv
  <2> QED BY <2>1, <2>2
<1> QED BY <1>1, <1>7 DEF CaseInv

LEMMA InitCases == Init => CaseInv
<1> SUFFICES ASSUME Init PROVE CaseInv
  OBVIOUS
<1>1. \A c, r : <<>> # <<VerdictApplied(c, r)>>
  OBVIOUS
<1>2. \A c \in Case : Settled(c, log) = {}
  BY <1>1 DEF Init, Settled
<1> QED BY <1>2, InitIInv DEF CaseInv, Init

LEMMA NextCases == CaseInv /\ [Next]_vars => CaseInv'
<1> SUFFICES ASSUME CaseInv, [Next]_vars PROVE CaseInv'
  OBVIOUS
<1>0. IInv /\ IInv' /\ TypeOK
  BY NextIInv DEF CaseInv, IInv
<1>1. CASE UNCHANGED <<processed, log, frames>>
  BY <1>0, <1>1, CaseRest
<1>2. ASSUME NEW h \in Handoff, NEW b \in Binding, ApplyHandoffCompletion(h, b)
      PROVE  CaseInv'
  <2>1. status[h] \notin Terminal /\ Close(h, "SETTLED", HandoffCompleted)
        /\ UNCHANGED <<processed, frames>>
    BY <1>2 DEF ApplyHandoffCompletion, Terminal
  <2>2. HandoffCompleted.kind # "VerdictApplied"
    BY DEF HandoffCompleted
  <2> QED BY <1>0, <2>1, <2>2, EndingSettlesNone
<1>3. ASSUME NEW h \in Handoff, NEW c \in Case, NEW b \in Binding, NEW r \in Rule,
             ApplyFinalVerdict(c, h, b, r)
      PROVE  CaseInv'
  BY <1>0, <1>3, VerdictSettlesOne
<1>4. ASSUME NEW h \in Handoff, RecoverUnactivated(h) \/ RecoverActive(h)
      PROVE  CaseInv'
  <2>1. status[h] \notin Terminal /\ UNCHANGED <<processed, frames>>
    BY <1>4 DEF RecoverUnactivated, RecoverActive, Terminal
  <2>2. PICK w : Close(h, "RECOVERED", EscrowRecovered(w))
    BY <1>4 DEF RecoverUnactivated, RecoverActive
  <2>3. EscrowRecovered(w).kind # "VerdictApplied"
    BY DEF EscrowRecovered
  <2> QED BY <1>0, <2>1, <2>2, <2>3, EndingSettlesNone
<1>5. ASSUME NEW a \in Account, Withdraw(a)
      PROVE  CaseInv'
  <2>1. /\ frames' = <<[account |-> a, saved |-> Saved]>> /\ Saved.log = log
        /\ log' = log /\ processed' = processed
    BY <1>5 DEF Withdraw, NonReentrant, Saved
  <2>2. \A i \in DOMAIN frames' : frames'[i].saved.log = log
    BY <2>1
  <2> QED BY <1>0, <2>1, <2>2 DEF CaseInv
<1>6. CASE WithdrawReturns \/ WithdrawReverts
  <2>1. frames # <<>> /\ frames' = <<>> /\ processed' = processed
    BY <1>0, <1>6 DEF TypeOK, WithdrawReturns, WithdrawReverts
  <2>2. 1 \in DOMAIN frames /\ frames[1] = Head(frames)
    BY <1>0, <2>1, HeadOfSeq DEF TypeOK
  <2>3. log' = log \/ log' = frames[1].saved.log
    BY <1>6, <2>2 DEF WithdrawReturns, WithdrawReverts
  <2>4. \A c \in Case : Settled(c, log') = Settled(c, log)
    BY <2>2, <2>3 DEF CaseInv
  <2> QED BY <1>0, <2>1, <2>4, CaseRest
<1> QED
  BY <1>1, <1>2, <1>3, <1>4, <1>5, <1>6
  DEF Next, ControllerMessage, AccountCall, Tick, RegisterHandoff, RegistrationIgnored,
      CompletionIgnored, VerdictIgnored, FundHandoff, PostBond, vars

\* Every processed case settled exactly one escrow, and a case that is not processed
\* none: whatever is delivered twice or early, and whatever a withdrawal rolls back.
THEOREM CaseSettlesOne == Spec => []ProcessedCaseSettledOne
<1>1. CaseInv => ProcessedCaseSettledOne
  <2> SUFFICES ASSUME CaseInv, NEW c \in Case
               PROVE  Cardinality(Settled(c, log)) = IF c \in processed THEN 1 ELSE 0
    BY DEF ProcessedCaseSettledOne, Settled
  <2>1. CASE c \in processed
    <3>1. PICK h \in Handoff : Settled(c, log) = {h}
      BY <2>1 DEF CaseInv
    <3> QED BY <2>1, <3>1, FS_Singleton
  <2>2. CASE c \notin processed
    <3>1. Settled(c, log) = {}
      BY <2>2 DEF CaseInv
    <3> QED BY <2>2, <3>1, FS_EmptySet
  <2> QED BY <2>1, <2>2
<1> QED BY InitCases, NextCases, <1>1, PTL DEF Spec
=============================================================================
