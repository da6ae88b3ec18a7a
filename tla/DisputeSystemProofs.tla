------------------------- MODULE DisputeSystemProofs -------------------------
(***************************************************************************)
(* The three contracts of the case protocol keep the promise of            *)
(* SettlementPromise, for every number of handoffs, accounts, records and  *)
(* revisions, and whatever is repeated, late, re-entrant or rolled back.   *)
(***************************************************************************)
EXTENDS DisputeSystem, TLAPS

\* What the proofs need of the constants.
LEMMA SystemFacts ==
    /\ ResponseWindow \in Nat /\ RepairWindow \in Nat /\ ReviewRecovery \in Nat
    /\ BreachRule \subseteq {2, 3}
    /\ \A h \in Handoff : Agreed[h].recoveryDeadline \in Nat
BY SystemAssumption DEF R!PolicyAssumption, R!AgreedAssumption, A!PolicyAssumption

\* The case of h is decided for rule r: by the queued verdict, or by recovery.
DecidedFor(h, r) ==
    \/ cases[h].queued /\ r = verdicts[cases[h].verdict].rule
    \/ ~cases[h].queued /\ cases[h].status = "RECOVERED" /\ r = A!NEUTRAL_RECOVERY

\* What the decisions rest on; the Vault's part follows below.
Typed ==
    /\ now \in Nat \ {0}
    /\ DOMAIN version = Handoff
    /\ acceptedAt \in [Handoff -> Nat]
    /\ context \in [Handoff -> R!Context \cup {R!NoContext}]
    /\ cases \in [Handoff -> A!CaseRecord]
    /\ \E S : verdicts \in Seq(S)
    /\ \A i \in DOMAIN verdicts : verdicts[i].rule \in 1..3

WithinHorizon ==
    \A h \in Handoff :
        R!HasCase(h) => context[h].recoveryDeadline <= Agreed[h].recoveryDeadline

\* A case exists only once the dispute lock is set, and copies its horizon; a
\* queued case is reviewed, a reviewed one has a verdict on the current delivery.
CaseSound(h, r) ==
    /\ r.status # "NONE" =>
          R!HasCase(h) /\ r.recoveryDeadline = context[h].recoveryDeadline
    /\ r.queued => r.status = "REVIEWED"
    /\ r.status = "REVIEWED" =>
          r.verdict \in DOMAIN verdicts /\ verdicts[r.verdict].delivery = version[h]
CasesSound == \A h \in Handoff : CaseSound(h, cases[h])

\* Every message under way has its reason.
InstructionsSound ==
    \A h \in Handoff : \A x :
        /\ R!Initialize(h) \in net => R!HasCase(h)
        /\ R!Complete(h, x) \in net => R!Accepted(h)
        /\ A!ApplyVerdict(h, x) \in net => DecidedFor(h, x)

FatesSound == Typed /\ R!AcceptXorDispute /\ WithinHorizon /\ CasesSound /\ InstructionsSound

\* What is settled between the parties stays so, and time does not go back.
Persists ==
    /\ now' >= now
    /\ \A h \in Handoff :
        /\ R!Accepted(h) => R!Accepted(h)'
        /\ R!HasCase(h) => context'[h] = context[h]
        /\ \A r : DecidedFor(h, r) => DecidedFor(h, r)'

-----------------------------------------------------------------------------
(* Messages.                                                               *)

\* A step that sends nothing, or one message with its reason.
LEMMA NothingSent ==
    ASSUME InstructionsSound, Persists, net' = net
    PROVE  InstructionsSound'
BY DEF InstructionsSound, Persists, R!HasCase

LEMMA MessageSent ==
    ASSUME InstructionsSound, Persists, NEW k \in Handoff, NEW m, net' = net \cup {m},
           \/ m = R!Register(k)
           \/ m = R!Initialize(k) /\ R!HasCase(k)'
           \/ \E v : m = R!Complete(k, v) /\ R!Accepted(k)'
           \/ \E r : m = A!ApplyVerdict(k, r) /\ DecidedFor(k, r)'
    PROVE  InstructionsSound'
<1> SUFFICES ASSUME NEW h \in Handoff, NEW x
             PROVE  /\ R!Initialize(h) \in net' => R!HasCase(h)'
                    /\ R!Complete(h, x) \in net' => R!Accepted(h)'
                    /\ A!ApplyVerdict(h, x) \in net' => DecidedFor(h, x)'
  BY DEF InstructionsSound
<1>1. /\ R!Initialize(h) \in net => R!HasCase(h)'
      /\ R!Complete(h, x) \in net => R!Accepted(h)'
      /\ A!ApplyVerdict(h, x) \in net => DecidedFor(h, x)'
  BY DEF InstructionsSound, Persists, R!HasCase
<1>2. /\ R!Initialize(h) = m => R!HasCase(h)'
      /\ R!Complete(h, x) = m => R!Accepted(h)'
      /\ A!ApplyVerdict(h, x) = m => DecidedFor(h, x)'
  <2>1. \A v : /\ R!Initialize(h).type = "initialize" /\ R!Initialize(h).handoff = h
               /\ R!Complete(h, v).type = "complete" /\ R!Complete(h, v).handoff = h
               /\ A!ApplyVerdict(h, v).type = "verdict" /\ A!ApplyVerdict(h, v).handoff = h
               /\ A!ApplyVerdict(h, v).rule = v
    BY DEF R!Initialize, R!Complete, A!ApplyVerdict
  <2>2. \A v : /\ R!Register(k).type = "register"
               /\ R!Initialize(k).type = "initialize" /\ R!Initialize(k).handoff = k
               /\ R!Complete(k, v).type = "complete" /\ R!Complete(k, v).handoff = k
               /\ A!ApplyVerdict(k, v).type = "verdict" /\ A!ApplyVerdict(k, v).handoff = k
               /\ A!ApplyVerdict(k, v).rule = v
    BY DEF R!Register, R!Initialize, R!Complete, A!ApplyVerdict
  <2> QED BY <2>1, <2>2
<1> QED BY <1>1, <1>2

-----------------------------------------------------------------------------
(* The Registry.                                                           *)

\* What the promise sees of a handoff's fate.
FateOf(h) ==
    IF R!Accepted(h) THEN "accepted"
    ELSE IF cases[h].queued THEN RuleName[verdicts[cases[h].verdict].rule]
    ELSE IF cases[h].status = "RECOVERED" THEN "neutral"
    ELSE IF R!HasCase(h) THEN "disputed"
    ELSE "open"
SameFates == \A h \in Handoff : FateOf(h)' = FateOf(h)

\* Handoff h moves from one fate to another, the others keep theirs.
Moves(h, from, to) ==
    /\ FateOf(h) = from
    /\ FateOf(h)' = to
    /\ \A k \in Handoff \ {h} : FateOf(k)' = FateOf(k)
Progress ==
    \/ SameFates
    \/ \E h \in Handoff :
        \/ Moves(h, "open", "accepted")
        \/ Moves(h, "open", "disputed")
        \/ \E c \in P!Consequence : Moves(h, "disputed", c)

\* A step that leaves acceptances, cases and disputes alone: a delivery may
\* change only where no review is about it.
LEMMA RegistryRests ==
    ASSUME FatesSound, UNCHANGED <<acceptedAt, context, cases, verdicts>>,
           now' \in Nat, now' >= now, DOMAIN version' = Handoff,
           \A h \in Handoff : version'[h] = version[h] \/ cases[h].status # "REVIEWED"
    PROVE  /\ Persists /\ SameFates
           /\ Typed' /\ R!AcceptXorDispute' /\ WithinHorizon' /\ CasesSound'
<1>1. Typed' /\ R!AcceptXorDispute' /\ WithinHorizon'
  BY DEF FatesSound, Typed, R!AcceptXorDispute, R!Accepted, R!HasCase, WithinHorizon
<1>2. CasesSound'
  BY DEF FatesSound, CasesSound, CaseSound, R!HasCase
<1>3. Persists /\ SameFates
  BY DEF Persists, SameFates, FateOf, R!Accepted, R!HasCase, DecidedFor
<1> QED BY <1>1, <1>2, <1>3

LEMMA AcceptKept ==
    ASSUME FatesSound, NEW h \in Handoff, NEW who, R!AcceptHandoffDelivery(h, who),
           UNCHANGED adjudicatorVars
    PROVE  FatesSound' /\ Persists /\ Moves(h, "open", "accepted")
<1> USE DEF FatesSound, Typed
<1>1. /\ ~R!Accepted(h) /\ ~R!HasCase(h)
      /\ acceptedAt' = [acceptedAt EXCEPT ![h] = now]
      /\ UNCHANGED <<now, version, context, cases, verdicts>>
  BY DEF R!AcceptHandoffDelivery, R!Undecided, adjudicatorVars
<1>2. /\ R!Accepted(h)' /\ ~R!HasCase(h)'
      /\ \A k \in Handoff : /\ R!HasCase(k)' = R!HasCase(k)
                            /\ k # h => R!Accepted(k)' = R!Accepted(k)
  BY <1>1 DEF R!Accepted, R!HasCase
<1>3. cases[h].status = "NONE" /\ ~cases[h].queued
  BY <1>1 DEF CasesSound, CaseSound
<1>4. Moves(h, "open", "accepted")
  BY <1>1, <1>2, <1>3 DEF Moves, FateOf
<1>5. Persists
  BY <1>1, <1>2 DEF Persists, DecidedFor
<1>6. Typed' /\ R!AcceptXorDispute' /\ WithinHorizon' /\ CasesSound'
  BY <1>1, <1>2 DEF R!AcceptXorDispute, WithinHorizon, CasesSound, CaseSound
<1>7. InstructionsSound'
  <2>1. CASE net' = net
    BY <1>5, <2>1, NothingSent
  <2>2. CASE net' = net \cup {R!Complete(h, version[h])}
    BY <1>2, <1>5, <2>2, MessageSent
  <2> QED BY <2>1, <2>2 DEF R!AcceptHandoffDelivery, R!Emit
<1> QED BY <1>4, <1>5, <1>6, <1>7

LEMMA OpenKept ==
    ASSUME FatesSound, NEW h \in Handoff, NEW who \in Account, R!OpenCase(h, who),
           UNCHANGED adjudicatorVars
    PROVE  FatesSound' /\ Persists /\ Moves(h, "open", "disputed")
<1> USE DEF FatesSound, Typed
<1> DEFINE new == [opener |-> who, responseDeadline |-> now + ResponseWindow,
                   recoveryDeadline |-> now + ReviewRecovery]
<1>1. /\ ~R!Accepted(h) /\ ~R!HasCase(h)
      /\ now + ReviewRecovery <= Agreed[h].recoveryDeadline
      /\ context' = [context EXCEPT ![h] = new]
      /\ UNCHANGED <<now, version, acceptedAt, cases, verdicts>>
  BY DEF R!OpenCase, R!Undecided, R!FitsHorizon, adjudicatorVars
<1>2. /\ new \in R!Context /\ new.recoveryDeadline = now + ReviewRecovery
      /\ new # R!NoContext
  <2>1. new \in R!Context /\ new.recoveryDeadline = now + ReviewRecovery /\ new.opener = who
    BY SystemFacts DEF R!Context
  <2>2. "opener" \in DOMAIN new /\ "opener" \notin DOMAIN R!NoContext
    BY DEF R!NoContext
  <2> QED BY <2>1, <2>2
<1> HIDE DEF new
<1>3. /\ R!HasCase(h)' /\ context'[h] = new
      /\ \A k \in Handoff : /\ R!Accepted(k)' = R!Accepted(k)
                            /\ k # h => context'[k] = context[k] /\ R!HasCase(k)' = R!HasCase(k)
  BY <1>1, <1>2 DEF R!Accepted, R!HasCase
<1>4. cases[h].status = "NONE" /\ ~cases[h].queued
  BY <1>1 DEF CasesSound, CaseSound
<1>5. Moves(h, "open", "disputed")
  BY <1>1, <1>3, <1>4 DEF Moves, FateOf
<1>6. Persists
  BY <1>1, <1>3 DEF Persists, DecidedFor
<1>7. Typed' /\ R!AcceptXorDispute' /\ WithinHorizon'
  BY <1>1, <1>2, <1>3 DEF R!AcceptXorDispute, WithinHorizon
<1>8. CasesSound'
  BY <1>1, <1>3, <1>4 DEF CasesSound, CaseSound
<1>9. InstructionsSound'
  <2>1. net' = net \cup {R!Initialize(h)}
    BY DEF R!OpenCase, R!Emit
  <2> QED BY <1>3, <1>6, <2>1, MessageSent
<1> QED BY <1>5, <1>6, <1>7, <1>8, <1>9

\* Every call of the Registry keeps what is decided and decides at most one fate.
LEMMA RegistryKept ==
    ASSUME FatesSound, R!RegistryStep, UNCHANGED adjudicatorVars
    PROVE  FatesSound' /\ Persists /\ Progress
<1> USE DEF Progress
<1>1. ASSUME NEW h \in Handoff, NEW who \in Account, R!AcceptHandoffDelivery(h, who)
      PROVE  FatesSound' /\ Persists /\ Progress
  BY <1>1, AcceptKept
<1>2. ASSUME NEW h \in Handoff, NEW who \in Account, R!OpenCase(h, who)
      PROVE  FatesSound' /\ Persists /\ Progress
  BY <1>2, OpenKept
<1>3. ASSUME NEW who \in Account,
             \/ R!BindAdjudicator(who) \/ R!BindVault(who)
             \/ R!ActivateWorkflow(who) \/ R!CloseWorkflow(who)
             \/ \E h \in Handoff : R!SubmitHandoffDelivery(h, who)
      PROVE  FatesSound' /\ Persists /\ Progress
  <2>1. /\ UNCHANGED <<acceptedAt, context, cases, verdicts, now, net>>
        /\ DOMAIN version' = DOMAIN version
        /\ \A h \in Handoff : version'[h] = version[h] \/ ~R!HasCase(h)
    BY <1>3 DEF R!BindAdjudicator, R!BindVault, R!ActivateWorkflow, R!CloseWorkflow,
       R!SubmitHandoffDelivery, R!Undecided, adjudicatorVars, FatesSound, Typed
  <2>2. \A h \in Handoff : version'[h] = version[h] \/ cases[h].status # "REVIEWED"
    BY <2>1 DEF FatesSound, CasesSound, CaseSound
  <2>3. /\ Persists /\ SameFates
        /\ Typed' /\ R!AcceptXorDispute' /\ WithinHorizon' /\ CasesSound'
    BY <2>1, <2>2, RegistryRests DEF FatesSound, Typed
  <2>4. InstructionsSound'
    BY <2>1, <2>3, NothingSent DEF FatesSound
  <2> QED BY <2>3, <2>4 DEF FatesSound
<1>4. ASSUME NEW h \in Handoff, NEW who \in Account,
             \/ R!RegisterHandoffInVault(h, who)
             \/ R!RetryHandoffCompletion(h, who)
             \/ R!RetryCaseInitialization(h, who)
      PROVE  FatesSound' /\ Persists /\ Progress
  <2>1. UNCHANGED <<acceptedAt, context, version, cases, verdicts, now>>
    BY <1>4 DEF R!RegisterHandoffInVault, R!RetryHandoffCompletion,
       R!RetryCaseInitialization, R!registryVars, adjudicatorVars
  <2>2. /\ Persists /\ SameFates
        /\ Typed' /\ R!AcceptXorDispute' /\ WithinHorizon' /\ CasesSound'
    BY <2>1, RegistryRests DEF FatesSound, Typed
  <2>3. PICK m : /\ net' = net \cup {m}
                 /\ \/ m = R!Register(h)
                    \/ m = R!Initialize(h) /\ R!HasCase(h)
                    \/ m = R!Complete(h, version[h]) /\ R!Accepted(h)
    BY <1>4 DEF R!RegisterHandoffInVault, R!RetryHandoffCompletion,
       R!RetryCaseInitialization, R!Emit
  <2>4. InstructionsSound'
    <3>1. (R!HasCase(h) => R!HasCase(h)') /\ (R!Accepted(h) => R!Accepted(h)')
      BY <2>2 DEF Persists, R!HasCase
    <3> QED BY <2>2, <2>3, <3>1, MessageSent DEF FatesSound
  <2> QED BY <2>2, <2>4 DEF FatesSound
<1> QED BY <1>1, <1>2, <1>3, <1>4 DEF R!RegistryStep

\* A delivery repair reads the case: it asks for the repair, so it is not reviewed.
LEMMA RepairKept ==
    ASSUME FatesSound, NEW h \in Handoff, NEW who, RepairDelivery(h, who)
    PROVE  FatesSound' /\ Persists /\ SameFates
<1>1. /\ UNCHANGED <<acceptedAt, context, cases, verdicts, now, net>>
      /\ version' = [version EXCEPT ![h] = @ + 1]
      /\ R!NeedsDelivery(RepairSnapshot(h))
  BY DEF RepairDelivery, R!RepairHandoffDelivery, adjudicatorVars
<1>2. cases[h].status = "REPAIR_REQUIRED"
  BY <1>1 DEF R!NeedsDelivery, RepairSnapshot
<1>3. /\ DOMAIN version' = DOMAIN version
      /\ \A k \in Handoff : version'[k] = version[k] \/ cases[k].status # "REVIEWED"
  BY <1>1, <1>2 DEF FatesSound, Typed
<1>4. /\ Persists /\ SameFates
      /\ Typed' /\ R!AcceptXorDispute' /\ WithinHorizon' /\ CasesSound'
  BY <1>1, <1>3, RegistryRests DEF FatesSound, Typed
<1> QED BY <1>1, <1>4, NothingSent DEF FatesSound

-----------------------------------------------------------------------------
(* The Adjudicator.                                                        *)

\* The log of verdicts stays, or grows by one.
LEMMA VerdictAppended ==
    ASSUME NEW S, NEW q \in Seq(S), NEW v
    PROVE  /\ Append(q, v) \in Seq(S \cup {v})
           /\ Len(q) \in Nat /\ DOMAIN q = 1..Len(q)
           /\ DOMAIN Append(q, v) = 1..(Len(q) + 1)
           /\ Append(q, v)[Len(q) + 1] = v
           /\ \A i \in DOMAIN q : i \in DOMAIN Append(q, v) /\ Append(q, v)[i] = q[i]
<1>1. q \in Seq(S \cup {v}) /\ v \in S \cup {v}
  OBVIOUS
<1>2. Append(q, v) \in Seq(S \cup {v}) /\ Len(Append(q, v)) = Len(q) + 1 /\ Len(q) \in Nat
  BY <1>1
<1>3. \A i \in 1..Len(q) : Append(q, v)[i] = q[i]
  BY <1>1
<1>4. Append(q, v)[Len(q) + 1] = v
  BY <1>1
<1>5. DOMAIN q = 1..Len(q) /\ DOMAIN Append(q, v) = 1..(Len(q) + 1)
  BY <1>1, <1>2
<1> QED BY <1>2, <1>3, <1>4, <1>5

VerdictsKept ==
    /\ \E S : verdicts' \in Seq(S)
    /\ \A i \in DOMAIN verdicts' : verdicts'[i].rule \in 1..3
    /\ \A i \in DOMAIN verdicts : i \in DOMAIN verdicts' /\ verdicts'[i] = verdicts[i]

LEMMA RecordingKeeps ==
    ASSUME Typed, verdicts' = verdicts \/ \E v : v.rule \in 1..3 /\ verdicts' = Append(verdicts, v)
    PROVE  VerdictsKept
<1>1. PICK S : verdicts \in Seq(S)
  BY DEF Typed
<1>2. CASE verdicts' = verdicts
  BY <1>1, <1>2 DEF Typed, VerdictsKept
<1>3. ASSUME NEW v, v.rule \in 1..3, verdicts' = Append(verdicts, v)
      PROVE  VerdictsKept
  <2>1. /\ verdicts' \in Seq(S \cup {v})
        /\ Len(verdicts) \in Nat /\ DOMAIN verdicts = 1..Len(verdicts)
        /\ DOMAIN verdicts' = 1..(Len(verdicts) + 1) /\ verdicts'[Len(verdicts) + 1] = v
        /\ \A i \in DOMAIN verdicts : i \in DOMAIN verdicts' /\ verdicts'[i] = verdicts[i]
    BY <1>1, <1>3, VerdictAppended
  <2>2. \A i \in DOMAIN verdicts' : i \in DOMAIN verdicts \/ i = Len(verdicts) + 1
    BY <2>1
  <2> QED BY <1>3, <2>1, <2>2 DEF Typed, VerdictsKept
<1> QED BY <1>2, <1>3

\* The facts of the other cases, whose records and verdicts stay.
LEMMA OtherCases ==
    ASSUME FatesSound, NEW h \in Handoff, NEW new \in A!CaseRecord,
           cases' = [cases EXCEPT ![h] = new], VerdictsKept,
           UNCHANGED <<version, acceptedAt, context>>
    PROVE  /\ cases' \in [Handoff -> A!CaseRecord] /\ cases'[h] = new
           /\ \A k \in Handoff \ {h} :
                /\ cases'[k] = cases[k]
                /\ CaseSound(k, cases[k])'
                /\ FateOf(k)' = FateOf(k)
                /\ \A r : DecidedFor(k, r)' <=> DecidedFor(k, r)
<1>1. /\ cases' \in [Handoff -> A!CaseRecord] /\ cases'[h] = new
      /\ \A k \in Handoff \ {h} : cases'[k] = cases[k]
  BY DEF FatesSound, Typed
<1>2. ASSUME NEW k \in Handoff \ {h}
      PROVE  /\ CaseSound(k, cases[k])'
             /\ FateOf(k)' = FateOf(k)
             /\ \A r : DecidedFor(k, r)' <=> DecidedFor(k, r)
  <2>1. /\ CaseSound(k, cases[k])
        /\ cases[k].verdict \in DOMAIN verdicts =>
              /\ cases[k].verdict \in DOMAIN verdicts'
              /\ verdicts'[cases[k].verdict] = verdicts[cases[k].verdict]
    BY DEF FatesSound, CasesSound, VerdictsKept
  <2>2. CaseSound(k, cases[k])'
    BY <1>1, <2>1 DEF CaseSound, R!HasCase
  <2>3. FateOf(k)' = FateOf(k)
    BY <1>1, <2>1 DEF CaseSound, FateOf, R!HasCase, R!Accepted
  <2>4. \A r : DecidedFor(k, r)' <=> DecidedFor(k, r)
    BY <1>1, <2>1 DEF CaseSound, DecidedFor
  <2> QED BY <2>2, <2>3, <2>4
<1> QED BY <1>1, <1>2

\* The work on an undecided case decides nothing.
LEMMA WorkKept ==
    ASSUME FatesSound, NEW h \in Handoff, NEW new \in A!CaseRecord,
           cases' = [cases EXCEPT ![h] = new],
           verdicts' = verdicts \/ \E v : v.rule \in 1..3 /\ verdicts' = Append(verdicts, v),
           R!HasCase(h), new.recoveryDeadline = context[h].recoveryDeadline,
           ~cases[h].queued, cases[h].status # "RECOVERED",
           ~new.queued, new.status # "RECOVERED",
           new.status = "REVIEWED" =>
               new.verdict \in DOMAIN verdicts' /\ verdicts'[new.verdict].delivery = version[h],
           UNCHANGED <<now, net, version, acceptedAt, context>>
    PROVE  FatesSound' /\ Persists /\ SameFates
<1>1. VerdictsKept
  BY RecordingKeeps DEF FatesSound
<1>2. /\ cases' \in [Handoff -> A!CaseRecord] /\ cases'[h] = new
      /\ \A k \in Handoff \ {h} :
            /\ cases'[k] = cases[k]
            /\ CaseSound(k, cases[k])'
            /\ FateOf(k)' = FateOf(k)
            /\ \A r : DecidedFor(k, r)' <=> DecidedFor(k, r)
  BY <1>1, OtherCases
<1>3. /\ R!HasCase(h)' /\ \A k \in Handoff : R!Accepted(k)' = R!Accepted(k)
      /\ \A k \in Handoff : R!HasCase(k)' = R!HasCase(k)
  BY DEF R!HasCase, R!Accepted
<1>4. Typed' /\ R!AcceptXorDispute' /\ WithinHorizon'
  BY <1>1, <1>2, <1>3 DEF FatesSound, Typed, VerdictsKept, R!AcceptXorDispute, WithinHorizon
<1>5. CasesSound'
  BY <1>2, <1>3 DEF CasesSound, CaseSound
<1>6. SameFates
  BY <1>2, <1>3 DEF SameFates, FateOf
<1>7. Persists
  <2>1. \A r : ~DecidedFor(h, r)
    BY DEF DecidedFor
  <2>2. \A k \in Handoff : \A r : DecidedFor(k, r) => DecidedFor(k, r)'
    BY <1>2, <2>1
  <2>3. now' >= now
    BY DEF FatesSound, Typed
  <2> QED BY <1>3, <2>2, <2>3 DEF Persists
<1>8. InstructionsSound'
  BY <1>7, NothingSent DEF FatesSound
<1> QED BY <1>4, <1>5, <1>6, <1>7, <1>8 DEF FatesSound

\* A decision: the only step that changes what the case of h is to end with.
LEMMA DecisionKept ==
    ASSUME FatesSound, NEW h \in Handoff, NEW new \in A!CaseRecord, NEW r \in 1..3,
           cases' = [cases EXCEPT ![h] = new],
           cases[h].status \in {"OPEN", "REPAIR_REQUIRED", "REVIEWED"}, ~cases[h].queued,
           new.recoveryDeadline = cases[h].recoveryDeadline, new.verdict = cases[h].verdict,
           \/ cases[h].status = "REVIEWED" /\ new.status = "REVIEWED" /\ new.queued
              /\ r = verdicts[new.verdict].rule
           \/ new.status = "RECOVERED" /\ ~new.queued /\ r = A!NEUTRAL_RECOVERY,
           net' = net \/ net' = net \cup {A!ApplyVerdict(h, r)},
           UNCHANGED <<now, version, acceptedAt, context, verdicts>>
    PROVE  FatesSound' /\ Persists /\ Moves(h, "disputed", RuleName[r])
<1>1. VerdictsKept
  BY RecordingKeeps DEF FatesSound
<1>2. /\ cases' \in [Handoff -> A!CaseRecord] /\ cases'[h] = new
      /\ \A k \in Handoff \ {h} :
            /\ cases'[k] = cases[k]
            /\ CaseSound(k, cases[k])'
            /\ FateOf(k)' = FateOf(k)
            /\ \A x : DecidedFor(k, x)' <=> DecidedFor(k, x)
  BY <1>1, OtherCases
<1>3. /\ \A k \in Handoff : R!Accepted(k)' = R!Accepted(k)
      /\ \A k \in Handoff : R!HasCase(k)' = R!HasCase(k)
  BY DEF R!HasCase, R!Accepted
<1>4. CaseSound(h, cases[h]) /\ R!HasCase(h) /\ ~R!Accepted(h)
  BY DEF FatesSound, CasesSound, CaseSound, R!AcceptXorDispute
<1>5. Typed' /\ R!AcceptXorDispute' /\ WithinHorizon'
  BY <1>1, <1>2, <1>3 DEF FatesSound, Typed, VerdictsKept, R!AcceptXorDispute, WithinHorizon
<1>6. CasesSound'
  BY <1>2, <1>3, <1>4 DEF CasesSound, CaseSound
<1>7. RuleName[A!NEUTRAL_RECOVERY] = "neutral"
  BY DEF RuleName, A!NEUTRAL_RECOVERY
<1>8. Moves(h, "disputed", RuleName[r])
  BY <1>2, <1>3, <1>4, <1>7 DEF Moves, FateOf
<1>9. DecidedFor(h, r)'
  BY <1>2 DEF DecidedFor
<1>10. Persists
  BY <1>2, <1>3 DEF Persists, DecidedFor, FatesSound, Typed
<1>11. InstructionsSound'
  <2>1. CASE net' = net
    BY <1>10, <2>1, NothingSent DEF FatesSound
  <2>2. CASE net' = net \cup {A!ApplyVerdict(h, r)}
    BY <1>9, <1>10, <2>2, MessageSent DEF FatesSound
  <2> QED BY <2>1, <2>2
<1> QED BY <1>5, <1>6, <1>8, <1>10, <1>11 DEF FatesSound

LEMMA CaseState ==
    ASSUME FatesSound, NEW h \in Handoff
    PROVE  /\ cases[h] \in A!CaseRecord /\ CaseSound(h, cases[h])
           /\ cases[h].responseDeadline \in Nat /\ cases[h].repairDeadline \in Nat
           /\ cases[h].recoveryDeadline \in Nat /\ cases[h].settlementEarliestAt \in Nat
           /\ now \in Nat
<1>1. cases[h] \in A!CaseRecord /\ CaseSound(h, cases[h]) /\ now \in Nat
  BY DEF FatesSound, Typed, CasesSound
<1> QED BY <1>1 DEF A!CaseRecord

\* The responses, retries and revisions of the parties.
LEMMA CollectKept ==
    ASSUME FatesSound, NEW h \in Handoff, NEW who \in Account,
           \/ A!SubmitResponse(h, who) \/ A!MarkRevisionReady(h, who)
           \/ A!RetryCurrentRevision(h, who)
           \/ \E response \in BOOLEAN : A!BeginRevision(h, who, response),
           UNCHANGED registryVars
    PROVE  FatesSound' /\ Persists /\ SameFates
<1>0. /\ cases[h] \in A!CaseRecord /\ CaseSound(h, cases[h]) /\ now \in Nat
      /\ UNCHANGED <<version, acceptedAt, context>>
  BY CaseState DEF registryVars
<1>1. PICK new \in A!CaseRecord :
            /\ cases' = [cases EXCEPT ![h] = new]
            /\ new.status = "OPEN" /\ ~new.queued
            /\ new.recoveryDeadline = cases[h].recoveryDeadline
  <2>1. CASE A!SubmitResponse(h, who)
    <3> DEFINE new == [cases[h] EXCEPT !.response = TRUE]
    <3>1. /\ new \in A!CaseRecord /\ new.status = cases[h].status
          /\ new.queued = cases[h].queued /\ new.recoveryDeadline = cases[h].recoveryDeadline
      BY <1>0 DEF A!CaseRecord
    <3> QED BY <1>0, <2>1, <3>1 DEF A!SubmitResponse, CaseSound
  <2>2. CASE A!MarkRevisionReady(h, who)
    <3> DEFINE new == [cases[h] EXCEPT !.ready = @ \cup {who}]
    <3>1. /\ new \in A!CaseRecord /\ new.status = cases[h].status
          /\ new.queued = cases[h].queued /\ new.recoveryDeadline = cases[h].recoveryDeadline
      BY <1>0 DEF A!CaseRecord
    <3> QED BY <1>0, <2>2, <3>1 DEF A!MarkRevisionReady, CaseSound
  <2>3. CASE A!RetryCurrentRevision(h, who)
    <3> DEFINE new == [cases[h] EXCEPT !.status = "OPEN", !.failure = "",
                                       !.repairDeadline = 0, !.responseDeadline = now]
    <3>1. /\ new \in A!CaseRecord /\ new.status = "OPEN"
          /\ new.queued = cases[h].queued /\ new.recoveryDeadline = cases[h].recoveryDeadline
      BY <1>0 DEF A!CaseRecord, A!FailureCode
    <3> QED BY <1>0, <2>3, <3>1 DEF A!RetryCurrentRevision, CaseSound
  <2>4. ASSUME NEW response \in BOOLEAN, A!BeginRevision(h, who, response)
        PROVE  \E new \in A!CaseRecord :
                  /\ cases' = [cases EXCEPT ![h] = new]
                  /\ new.status = "OPEN" /\ ~new.queued
                  /\ new.recoveryDeadline = cases[h].recoveryDeadline
    <3> DEFINE at == now + ResponseWindow
               new == [cases[h] EXCEPT !.status = "OPEN", !.verdict = 0,
                !.settlementEarliestAt = 0, !.queued = FALSE,
                !.responseDeadline = at, !.repairDeadline = 0,
                !.response = response, !.ready = {}, !.failure = ""]
    <3>1. at \in Nat
      BY <1>0, SystemFacts
    <3>2. cases' = [cases EXCEPT ![h] = new]
      BY <2>4 DEF A!BeginRevision
    <3> HIDE DEF at
    <3>3. /\ new.status = "OPEN" /\ ~new.queued
          /\ new.recoveryDeadline = cases[h].recoveryDeadline
      BY <1>0 DEF A!CaseRecord
    <3>4. new \in A!CaseRecord
      BY <1>0, <3>1 DEF A!CaseRecord, A!FailureCode
    <3> HIDE DEF new
    <3> QED BY <3>2, <3>3, <3>4
  <2> QED BY <2>1, <2>2, <2>3, <2>4
<1>2. /\ cases[h].status \in {"OPEN", "REPAIR_REQUIRED", "REVIEWED"} /\ ~cases[h].queued
      /\ UNCHANGED <<now, net, verdicts>>
  BY <1>0 DEF A!SubmitResponse, A!MarkRevisionReady, A!RetryCurrentRevision,
     A!BeginRevision, A!Revisable, CaseSound
<1> QED BY <1>0, <1>1, <1>2, WorkKept DEF CaseSound

\* The review reads the delivery the Registry shows, and decides nothing yet.
LEMMA ReviewKept ==
    ASSUME FatesSound, NEW h \in Handoff, A!ResolveCase(h, version[h]), UNCHANGED registryVars
    PROVE  FatesSound' /\ Persists /\ SameFates
<1>0. /\ cases[h] \in A!CaseRecord /\ CaseSound(h, cases[h]) /\ now \in Nat
      /\ cases[h].recoveryDeadline \in Nat
      /\ UNCHANGED <<now, net, version, acceptedAt, context>>
      /\ cases[h].status = "OPEN"
  BY CaseState DEF registryVars, A!ResolveCase, A!Reviewable
<1>1. /\ R!HasCase(h) /\ cases[h].recoveryDeadline = context[h].recoveryDeadline
      /\ ~cases[h].queued
  BY <1>0 DEF CaseSound
<1>2. \A d \in Nat : A!Least(now + d, cases[h].recoveryDeadline) \in Nat
  BY <1>0 DEF A!Least
<1>3. ASSUME NEW code \in A!FailureCode, NEW e, A!RequireRepair(h, code, e)
      PROVE  FatesSound' /\ Persists /\ SameFates
  <2> DEFINE at == A!Least(now + RepairWindow, cases[h].recoveryDeadline)
             new == [cases[h] EXCEPT !.status = "REPAIR_REQUIRED", !.failure = code,
                                     !.repairDeadline = at]
  <2>1. cases' = [cases EXCEPT ![h] = new] /\ verdicts' = verdicts
    BY <1>3 DEF A!RequireRepair
  <2>2. at \in Nat
    BY <1>2, SystemFacts
  <2> HIDE DEF at
  <2>3. /\ new \in A!CaseRecord /\ new.status = "REPAIR_REQUIRED"
        /\ new.queued = cases[h].queued /\ new.recoveryDeadline = cases[h].recoveryDeadline
    BY <1>0, <2>2 DEF A!CaseRecord
  <2> HIDE DEF new
  <2> QED BY <1>0, <1>1, <2>1, <2>3, WorkKept
<1>4. ASSUME NEW r \in A!ReviewRule, A!RecordVerdict(h, r, version[h])
      PROVE  FatesSound' /\ Persists /\ SameFates
  <2> DEFINE at == A!Least(now + ResponseWindow, cases[h].recoveryDeadline)
             new == [cases[h] EXCEPT !.status = "REVIEWED", !.verdict = Len(verdicts) + 1,
                                     !.queued = FALSE, !.settlementEarliestAt = at]
             v == [case |-> h, revision |-> A!Current(h), rule |-> r,
                   delivery |-> version[h], at |-> now]
  <2>1. cases' = [cases EXCEPT ![h] = new] /\ verdicts' = Append(verdicts, v)
    BY <1>4 DEF A!RecordVerdict
  <2>2. v.rule \in 1..3 /\ v.delivery = version[h]
    <3>1. r \in {1, 2, 3}
      BY SystemFacts DEF A!ReviewRule, A!RELEASE_PROVIDER, A!NEUTRAL_RECOVERY
    <3> QED BY <3>1
  <2> HIDE DEF v
  <2>3. PICK S : verdicts \in Seq(S)
    BY DEF FatesSound, Typed
  <2>4. /\ Len(verdicts) + 1 \in Nat /\ Len(verdicts) + 1 \in DOMAIN verdicts'
        /\ verdicts'[Len(verdicts) + 1] = v
    <3>1. /\ Len(verdicts) \in Nat /\ DOMAIN verdicts' = 1..(Len(verdicts) + 1)
          /\ verdicts'[Len(verdicts) + 1] = v
      BY <2>1, <2>3, VerdictAppended
    <3> QED BY <3>1
  <2>5. at \in Nat
    BY <1>2, SystemFacts
  <2> HIDE DEF at
  <2>6. /\ new \in A!CaseRecord /\ new.status = "REVIEWED" /\ ~new.queued
        /\ new.verdict = Len(verdicts) + 1
        /\ new.recoveryDeadline = cases[h].recoveryDeadline
    BY <1>0, <2>4, <2>5 DEF A!CaseRecord
  <2> HIDE DEF new
  <2> QED BY <1>0, <1>1, <2>1, <2>2, <2>4, <2>6, WorkKept
<1>5. \/ \E code \in A!FailureCode : \E e : A!RequireRepair(h, code, e)
      \/ \E r \in A!ReviewRule : A!RecordVerdict(h, r, version[h])
  BY DEF A!ResolveCase, A!FailureCode
<1> QED BY <1>3, <1>4, <1>5

\* The Registry's message opens the case of a disputed handoff.
LEMMA InitializationKept ==
    ASSUME FatesSound, NEW h \in Handoff, DeliverInitialize(h)
    PROVE  FatesSound' /\ Persists /\ SameFates
<1>1. /\ UNCHANGED <<now, net, verdicts, version, acceptedAt, context>>
      /\ R!HasCase(h)
  BY DEF DeliverInitialize, A!InitializeCase, A!InitializationIgnored, A!vars,
     A!adjudicatorVars, registryVars, FatesSound, InstructionsSound
<1>2. CASE A!InitializeCase(h, context[h])
  <2> DEFINE new == [A!NoCase EXCEPT !.status = "OPEN",
                                     !.responseDeadline = context[h].responseDeadline,
                                     !.recoveryDeadline = context[h].recoveryDeadline]
  <2>1. cases[h].status = "NONE" /\ cases' = [cases EXCEPT ![h] = new]
    BY <1>2 DEF A!InitializeCase
  <2>2. context[h].responseDeadline \in Nat /\ context[h].recoveryDeadline \in Nat
    <3>1. context[h] \in R!Context
      BY <1>1 DEF FatesSound, Typed, R!HasCase
    <3> QED BY <3>1 DEF R!Context
  <2>3. /\ new \in A!CaseRecord /\ new.status = "OPEN" /\ ~new.queued
        /\ new.recoveryDeadline = context[h].recoveryDeadline
    BY <2>2 DEF A!NoCase, A!CaseRecord, A!FailureCode
  <2>4. ~cases[h].queued
    BY <2>1 DEF FatesSound, CasesSound, CaseSound
  <2> HIDE DEF new
  <2> QED BY <1>1, <2>1, <2>3, <2>4, WorkKept
<1>3. CASE A!InitializationIgnored(h)
  <2>1. cases' = cases
    BY <1>3 DEF A!InitializationIgnored, A!vars, A!adjudicatorVars
  <2>2. /\ Persists /\ SameFates
        /\ Typed' /\ R!AcceptXorDispute' /\ WithinHorizon' /\ CasesSound'
    BY <1>1, <2>1, RegistryRests DEF FatesSound, Typed
  <2> QED BY <1>1, <2>2, NothingSent DEF FatesSound
<1> QED BY <1>2, <1>3 DEF DeliverInitialize

\* queue_settlement and recover_case, and the repetition of their messages.
LEMMA SettlementKept ==
    ASSUME FatesSound, NEW h \in Handoff,
           \/ \E expected \in DOMAIN verdicts : A!QueueSettlement(h, expected)
           \/ A!RecoverCase(h)
           \/ A!RecoverAgain(h),
           UNCHANGED registryVars
    PROVE  FatesSound' /\ Persists /\ Progress
<1>0. /\ cases[h] \in A!CaseRecord /\ CaseSound(h, cases[h])
      /\ UNCHANGED <<now, version, acceptedAt, context, verdicts>>
  BY CaseState DEF registryVars, A!QueueSettlement, A!RecoverCase, A!RecoverAgain,
     A!adjudicatorVars
<1>1. ASSUME NEW r \in 1..3, Moves(h, "disputed", RuleName[r])
      PROVE  Progress
  <2>1. RuleName[r] \in P!Consequence
    BY DEF RuleName, P!Consequence
  <2> QED BY <1>1, <2>1 DEF Progress
<1>2. ASSUME NEW expected \in DOMAIN verdicts, A!QueueSettlement(h, expected),
             A!FirstQueue(h), cases' = [cases EXCEPT ![h].queued = TRUE],
             \/ A!Settle(h, verdicts[expected].rule)
             \/ UNCHANGED net
      PROVE  FatesSound' /\ Persists /\ Progress
  <2> DEFINE new == [cases[h] EXCEPT !.queued = TRUE]
             r == verdicts[expected].rule
  <2>1. /\ cases' = [cases EXCEPT ![h] = new] /\ expected = cases[h].verdict
        /\ net' = net \/ net' = net \cup {A!ApplyVerdict(h, r)}
        /\ cases[h].status = "REVIEWED" /\ ~cases[h].queued
    BY <1>2 DEF A!QueueSettlement, A!FirstQueue, A!Settle
  <2>2. r \in 1..3
    BY DEF FatesSound, Typed
  <2>3. /\ new \in A!CaseRecord /\ new.queued /\ new.status = cases[h].status
        /\ new.recoveryDeadline = cases[h].recoveryDeadline
        /\ new.verdict = cases[h].verdict
    BY <1>0 DEF A!CaseRecord
  <2>4. r = verdicts[new.verdict].rule
    BY <2>1, <2>3
  <2> HIDE DEF new, r
  <2>5. FatesSound' /\ Persists /\ Moves(h, "disputed", RuleName[r])
    BY <1>0, <2>1, <2>2, <2>3, <2>4, DecisionKept
  <2> QED BY <1>1, <2>2, <2>5
<1>3. CASE A!RecoverCase(h)
  <2> DEFINE new == [cases[h] EXCEPT !.status = "RECOVERED"]
             r == A!NEUTRAL_RECOVERY
  <2>1. /\ cases' = [cases EXCEPT ![h] = new]
        /\ net' = net \/ net' = net \cup {A!ApplyVerdict(h, r)}
        /\ cases[h].status \in {"OPEN", "REPAIR_REQUIRED", "REVIEWED"} /\ ~cases[h].queued
    BY <1>0, <1>3 DEF A!RecoverCase, A!Recoverable, A!Settle, CaseSound
  <2>2. /\ new \in A!CaseRecord /\ new.status = "RECOVERED" /\ new.queued = cases[h].queued
        /\ new.recoveryDeadline = cases[h].recoveryDeadline
        /\ new.verdict = cases[h].verdict
    BY <1>0 DEF A!CaseRecord
  <2>3. r \in 1..3
    BY DEF A!NEUTRAL_RECOVERY
  <2> HIDE DEF new
  <2>4. FatesSound' /\ Persists /\ Moves(h, "disputed", RuleName[r])
    BY <1>0, <2>1, <2>2, <2>3, DecisionKept
  <2> QED BY <1>1, <2>3, <2>4
<1>4. ASSUME NEW r, DecidedFor(h, r), A!Settle(h, r), cases' = cases
      PROVE  FatesSound' /\ Persists /\ Progress
  <2>1. now' \in Nat /\ now' >= now /\ DOMAIN version' = Handoff
    BY <1>0 DEF FatesSound, Typed
  <2>2. /\ Persists /\ SameFates
        /\ Typed' /\ R!AcceptXorDispute' /\ WithinHorizon' /\ CasesSound'
    BY <1>0, <1>4, <2>1, RegistryRests
  <2>3. InstructionsSound'
    BY <1>4, <2>2, MessageSent DEF A!Settle, Persists, FatesSound
  <2> QED BY <2>2, <2>3 DEF FatesSound, Progress
<1>5. ASSUME NEW expected \in DOMAIN verdicts, A!QueueSettlement(h, expected),
             A!Requeue(h), A!Settle(h, verdicts[expected].rule), cases' = cases
      PROVE  FatesSound' /\ Persists /\ Progress
  <2>1. DecidedFor(h, verdicts[expected].rule)
    BY <1>5 DEF A!QueueSettlement, A!Requeue, DecidedFor
  <2> QED BY <1>4, <1>5, <2>1
<1>6. CASE A!RecoverAgain(h)
  <2>1. DecidedFor(h, A!NEUTRAL_RECOVERY)
    BY <1>0, <1>6 DEF A!RecoverAgain, DecidedFor, CaseSound
  <2> QED BY <1>4, <1>6, <2>1 DEF A!RecoverAgain, A!adjudicatorVars
<1> QED BY <1>2, <1>3, <1>5, <1>6 DEF A!QueueSettlement

\* Every call of the Adjudicator, too, decides at most one fate.
LEMMA AdjudicatorKept ==
    ASSUME FatesSound, A!AdjudicatorStep, UNCHANGED registryVars
    PROVE  FatesSound' /\ Persists /\ Progress
<1>1. ASSUME NEW h \in Handoff, NEW who \in Account,
             \/ A!SubmitResponse(h, who) \/ A!MarkRevisionReady(h, who)
             \/ A!RetryCurrentRevision(h, who)
             \/ \E response \in BOOLEAN : A!BeginRevision(h, who, response)
      PROVE  FatesSound' /\ Persists /\ Progress
  BY <1>1, CollectKept DEF Progress
<1>2. ASSUME NEW h \in Handoff,
             \/ \E expected \in DOMAIN verdicts : A!QueueSettlement(h, expected)
             \/ A!RecoverCase(h)
             \/ A!RecoverAgain(h)
      PROVE  FatesSound' /\ Persists /\ Progress
  BY <1>2, SettlementKept
<1>3. CASE \/ A!BindVault
           \/ \E h \in Handoff, who \in Account, source \in Source,
                 v \in 1..MaxEvidenceVersion, f \in FreshUntil :
                    A!RegisterEvidence(h, who, source, v, f)
  <2>1. UNCHANGED <<now, net, cases, verdicts, version, acceptedAt, context>>
    BY ZenonT(30), <1>3 DEF A!BindVault, A!RegisterEvidence, registryVars
  <2>2. /\ Persists /\ SameFates
        /\ Typed' /\ R!AcceptXorDispute' /\ WithinHorizon' /\ CasesSound'
    BY <2>1, RegistryRests DEF FatesSound, Typed
  <2> QED BY <2>1, <2>2, NothingSent DEF FatesSound, Progress
<1> QED BY <1>1, <1>2, <1>3 DEF A!AdjudicatorStep

-----------------------------------------------------------------------------
(* The Vault.                                                              *)

ACTIVE_EXPIRY == "FINAL_VERDICT_DEADLINE_EXPIRED"

\* What ended the escrow of h: the acceptance, the decision, or expiry.
Backed(h, event) ==
    \/ event.kind = "HandoffCompleted" /\ R!Accepted(h)
    \/ event.kind = "VerdictApplied" /\ event.case = h /\ DecidedFor(h, event.rule)
    \/ /\ event.kind = "EscrowRecovered"
       /\ event.reason = ACTIVE_EXPIRY => now > Agreed[h].recoveryDeadline

\* An escrow has the agreed terms, no event before it ends, and one afterwards.
Closed(h, s, events) ==
    /\ s # "NONE" => terms[h] = Agreed[h]
    /\ s \notin V!Terminal => events = <<>>
    /\ events # <<>> => events = <<Head(events)>> /\ Backed(h, Head(events))

\* What a failing withdraw() restores is as sound as what it undoes, and all that
\* ended since is expiry: the controllers' messages do not run inside a call.
SavedSound(saved) ==
    /\ DOMAIN saved.status = Handoff
    /\ DOMAIN saved.log = Handoff
    /\ \A h \in Handoff :
        /\ Closed(h, saved.status[h], saved.log[h])
        /\ saved.log[h] # <<>> => log[h] = saved.log[h]
        /\ saved.log[h] = <<>> /\ log[h] # <<>> => Head(log[h]).kind = "EscrowRecovered"

EscrowSound ==
    /\ DOMAIN status = Handoff
    /\ DOMAIN log = Handoff
    /\ DOMAIN terms = Handoff
    /\ \A h \in Handoff : Closed(h, status[h], log[h])
FrameSound ==
    frames # <<>> => frames = <<Head(frames)>> /\ SavedSound(Head(frames).saved)

\* The inductive invariant.
DInv == FatesSound /\ EscrowSound /\ FrameSound

\* What backs the end of an escrow backs it for ever.
LEMMA BackingLasts ==
    ASSUME Typed, Typed', Persists, NEW h \in Handoff, NEW e, Backed(h, e)
    PROVE  Backed(h, e)'
<1>1. CASE e.kind = "HandoffCompleted" /\ R!Accepted(h)
  BY <1>1 DEF Backed, Persists
<1>2. CASE e.kind = "VerdictApplied" /\ e.case = h /\ DecidedFor(h, e.rule)
  <2>1. DecidedFor(h, e.rule)'
    BY <1>2 DEF Persists
  <2> QED BY <1>2, <2>1 DEF Backed, DecidedFor
<1>3. CASE /\ e.kind = "EscrowRecovered"
           /\ e.reason = ACTIVE_EXPIRY => now > Agreed[h].recoveryDeadline
  BY <1>3, SystemFacts DEF Backed, Persists, Typed
<1> QED BY <1>1, <1>2, <1>3 DEF Backed

LEMMA ClosedLasts ==
    ASSUME Typed, Typed', Persists, NEW h \in Handoff, NEW s, NEW events, Closed(h, s, events),
           s # "NONE" => terms'[h] = terms[h]
    PROVE  Closed(h, s, events)'
BY BackingLasts DEF Closed

\* A step that ends no escrow.
LEMMA NothingEnds ==
    ASSUME DInv, Typed', Persists, log' = log, frames' = frames, terms' = terms,
           DOMAIN status' = Handoff,
           \A h \in Handoff : \/ status'[h] = status[h]
                              \/ status[h] \notin V!Terminal \cup {"NONE"}
    PROVE  EscrowSound' /\ FrameSound'
<1> USE DEF DInv, FatesSound
<1>1. ASSUME NEW h \in Handoff
      PROVE  Closed(h, status[h], log[h])'
  <2>1. Closed(h, status[h], log[h])
    BY DEF EscrowSound
  <2>2. CASE status'[h] = status[h]
    BY <2>1, <2>2, BackingLasts DEF Closed
  <2>3. CASE status[h] \notin V!Terminal \cup {"NONE"}
    BY <2>1, <2>3 DEF Closed
  <2> QED BY <2>2, <2>3
<1>2. EscrowSound'
  BY <1>1 DEF EscrowSound
<1>3. FrameSound'
  <2> DEFINE saved == Head(frames).saved
  <2>1. \A h \in Handoff : frames # <<>> => Closed(h, saved.status[h], saved.log[h])'
    BY ClosedLasts DEF FrameSound, SavedSound, Closed
  <2> QED BY <2>1 DEF FrameSound, SavedSound, Closed
<1> QED BY <1>2, <1>3

\* A registration takes the agreed terms, outside every call.
LEMMA RegistrationKept ==
    ASSUME DInv, Typed', Persists, NEW h \in Handoff, V!RegisterHandoff(h, Agreed[h])
    PROVE  EscrowSound' /\ FrameSound' /\ log' = log /\ frames' = frames
<1> USE DEF DInv, FatesSound
<1>1. /\ frames = <<>> /\ frames' = <<>> /\ log' = log /\ status[h] = "NONE"
      /\ DOMAIN terms' = Handoff /\ DOMAIN status' = Handoff
      /\ terms'[h] = Agreed[h] /\ status'[h] = "REGISTERED"
      /\ \A k \in Handoff \ {h} : terms'[k] = terms[k] /\ status'[k] = status[k]
  BY DEF V!RegisterHandoff, V!TopLevel, EscrowSound
<1>2. log[h] = <<>>
  BY <1>1 DEF EscrowSound, Closed, V!Terminal
<1>3. \A k \in Handoff \ {h} : Closed(k, status[k], log[k])'
  BY <1>1, ClosedLasts DEF EscrowSound, Closed
<1>4. Closed(h, status[h], log[h])'
  BY <1>1, <1>2 DEF Closed
<1>5. EscrowSound'
  BY <1>1, <1>3, <1>4 DEF EscrowSound
<1> QED BY <1>1, <1>5 DEF FrameSound

\* A step that ends the escrow of h with event e; inside a call only by expiry.
LEMMA OneEnds ==
    ASSUME DInv, Typed', Persists, NEW h \in Handoff, NEW s, NEW e,
           s \in V!Terminal, V!Close(h, s, e), status[h] \notin V!Terminal \cup {"NONE"},
           Backed(h, e)', frames' = frames, terms' = terms,
           frames = <<>> \/ e.kind = "EscrowRecovered"
    PROVE  EscrowSound' /\ FrameSound' /\ log[h] = <<>> /\ log' = [log EXCEPT ![h] = <<e>>]
<1> USE DEF DInv, FatesSound
<1>1. log[h] = <<>> /\ terms[h] = Agreed[h]
  BY DEF EscrowSound, Closed
<1>2. Append(log[h], e) = <<e>>
  BY <1>1
<1>3. /\ DOMAIN status' = Handoff /\ DOMAIN log' = Handoff
      /\ status'[h] = s /\ log'[h] = <<e>> /\ log' = [log EXCEPT ![h] = <<e>>]
      /\ \A k \in Handoff \ {h} : status'[k] = status[k] /\ log'[k] = log[k]
  BY <1>2 DEF V!Close, EscrowSound
<1>4. Head(<<e>>) = e /\ <<e>> # <<>>
  OBVIOUS
<1>5. \A k \in Handoff \ {h} : Closed(k, status[k], log[k])'
  BY <1>3, ClosedLasts DEF EscrowSound, Closed
<1>6. Closed(h, status[h], log[h])'
  BY <1>1, <1>3, <1>4 DEF Closed
<1>7. EscrowSound'
  BY <1>3, <1>5, <1>6 DEF EscrowSound
<1>8. FrameSound'
  <2> DEFINE saved == Head(frames).saved
  <2>1. \A k \in Handoff : frames # <<>> => Closed(k, saved.status[k], saved.log[k])'
    BY ClosedLasts DEF FrameSound, SavedSound, Closed
  <2> QED BY <1>1, <1>3, <1>4, <2>1 DEF FrameSound, SavedSound, Closed
<1> QED BY <1>1, <1>3, <1>7, <1>8

\* withdraw() remembers the state it found.
LEMMA CallOpens ==
    ASSUME DInv, Typed', Persists, NEW a, V!Withdraw(a)
    PROVE  /\ EscrowSound' /\ FrameSound' /\ frames = <<>> /\ frames' # <<>>
           /\ Head(frames').saved.log = log
<1> USE DEF DInv, FatesSound
<1> DEFINE frame == [account |-> a, saved |-> V!Saved]
<1>1. /\ frames = <<>> /\ frames' = <<frame>> /\ status' = status /\ log' = log
      /\ terms' = terms
  BY DEF V!Withdraw, V!NonReentrant
<1>2. frame.saved.status = status /\ frame.saved.log = log
  BY DEF V!Saved
<1> HIDE DEF frame
<1>3. Head(frames') = frame /\ frames' # <<>>
  BY <1>1
<1>4. \A k \in Handoff : Closed(k, status[k], log[k])'
  BY <1>1, ClosedLasts DEF EscrowSound, Closed
<1>5. EscrowSound'
  BY <1>1, <1>4 DEF EscrowSound
<1>6. FrameSound'
  BY <1>1, <1>2, <1>3, <1>4 DEF FrameSound, SavedSound, EscrowSound, Closed
<1> QED BY <1>1, <1>2, <1>3, <1>5, <1>6

\* It ends by keeping what happened since, or by restoring what it remembers.
LEMMA CallEnds ==
    ASSUME DInv, Typed', Persists, V!WithdrawReturns \/ V!WithdrawReverts
    PROVE  /\ EscrowSound' /\ FrameSound' /\ frames # <<>> /\ frames' = <<>>
           /\ log' = log \/ log' = Head(frames).saved.log
<1> USE DEF DInv, FatesSound
<1>1. /\ frames # <<>> /\ frames = <<Head(frames)>> /\ frames' = Tail(frames)
      /\ terms' = terms
  BY DEF FrameSound, V!WithdrawReturns, V!WithdrawReverts
<1>2. frames' = <<>>
  BY <1>1
<1>3. FrameSound'
  BY <1>2 DEF FrameSound
<1>4. CASE V!WithdrawReturns
  <2>1. status' = status /\ log' = log
    BY <1>4 DEF V!WithdrawReturns
  <2>2. \A k \in Handoff : Closed(k, status[k], log[k])'
    BY <1>1, <2>1, ClosedLasts DEF EscrowSound, Closed
  <2>3. EscrowSound'
    BY <1>1, <2>1, <2>2 DEF EscrowSound
  <2> QED BY <1>1, <1>2, <1>3, <2>1, <2>3
<1>5. CASE V!WithdrawReverts
  <2> DEFINE saved == Head(frames).saved
  <2>1. status' = saved.status /\ log' = saved.log
    BY <1>5 DEF V!WithdrawReverts
  <2>2. SavedSound(saved)
    BY <1>1 DEF FrameSound
  <2> HIDE DEF saved
  <2>3. \A k \in Handoff : Closed(k, status[k], log[k])'
    BY <1>1, <2>1, <2>2, ClosedLasts DEF SavedSound, Closed
  <2>4. EscrowSound'
    BY <1>1, <2>1, <2>2, <2>3 DEF EscrowSound, SavedSound
  <2> QED BY <1>1, <1>2, <1>3, <2>1, <2>4 DEF saved
<1> QED BY <1>4, <1>5

\* A call of an account: nothing ends, or one escrow by expiry.
LEMMA AccountCallKept ==
    ASSUME DInv, Typed', Persists, NEW h \in Handoff, V!AccountCall(h)
    PROVE  /\ EscrowSound' /\ FrameSound' /\ frames' = frames
           /\ \/ log' = log
              \/ \E e : e.kind = "EscrowRecovered" /\ log[h] = <<>> /\ log' = [log EXCEPT ![h] = <<e>>]
<1>1. CASE \E a \in Account : V!FundHandoff(h, a) \/ V!PostBond(h, a)
  <2>1. PICK s : /\ status[h] \notin V!Terminal \cup {"NONE"}
                 /\ status' = [status EXCEPT ![h] = s]
                 /\ UNCHANGED <<log, frames, terms>>
    BY <1>1 DEF V!FundHandoff, V!PostBond, V!Terminal
  <2>2. /\ DOMAIN status' = Handoff
        /\ \A k \in Handoff : \/ status'[k] = status[k]
                              \/ status[k] \notin V!Terminal \cup {"NONE"}
    BY <2>1 DEF DInv, EscrowSound
  <2> QED BY <2>1, <2>2, NothingEnds
<1>2. CASE V!RecoverUnactivated(h) \/ V!RecoverActive(h)
  <2>1. PICK why : /\ V!Close(h, "RECOVERED", V!EscrowRecovered(why))
                   /\ status[h] \notin V!Terminal \cup {"NONE"}
                   /\ why = ACTIVE_EXPIRY => now > terms[h].recoveryDeadline
                   /\ UNCHANGED <<now, terms, frames>>
    BY <1>2 DEF V!RecoverUnactivated, V!RecoverActive, V!Terminal, ACTIVE_EXPIRY
  <2> DEFINE e == V!EscrowRecovered(why)
  <2>2. e.kind = "EscrowRecovered" /\ e.reason = why
    BY DEF V!EscrowRecovered
  <2>3. "RECOVERED" \in V!Terminal
    BY DEF V!Terminal
  <2> HIDE DEF e
  <2>4. terms[h] = Agreed[h]
    BY <2>1 DEF DInv, EscrowSound, Closed
  <2>5. Backed(h, e)'
    BY <2>1, <2>2, <2>4 DEF Backed
  <2>6. V!Close(h, "RECOVERED", e)
    BY <2>1 DEF e
  <2>7. EscrowSound' /\ FrameSound' /\ log[h] = <<>> /\ log' = [log EXCEPT ![h] = <<e>>]
    BY <2>1, <2>2, <2>3, <2>5, <2>6, OneEnds
  <2> QED BY <2>1, <2>2, <2>7
<1> QED BY <1>1, <1>2 DEF V!AccountCall

\* A completion or a consequence is applied as it was instructed, outside every call.
LEMMA SettlementApplied ==
    ASSUME DInv, Typed', Persists, NEW h \in Handoff, NEW e, Backed(h, e),
           V!TopLevel, V!Close(h, "SETTLED", e), status[h] = "ACTIVE",
           UNCHANGED <<terms, frames>>
    PROVE  /\ EscrowSound' /\ FrameSound' /\ frames = <<>> /\ frames' = <<>>
           /\ log[h] = <<>> /\ log' = [log EXCEPT ![h] = <<e>>]
<1>1. frames = <<>>
  BY DEF V!TopLevel
<1>2. Backed(h, e)'
  BY BackingLasts DEF DInv, FatesSound
<1>3. "SETTLED" \in V!Terminal /\ status[h] \notin V!Terminal \cup {"NONE"}
  BY DEF V!Terminal
<1> QED BY <1>1, <1>2, <1>3, OneEnds

-----------------------------------------------------------------------------
(* Steps of the promise.                                                   *)

Ending(h) == OutcomeOf(V!CommittedLog[h])
SameEndings == \A h \in Handoff : Ending(h)' = Ending(h)
Kept == [P!Next]_(P!vars)

LEMMA PromiseStutters ==
    ASSUME SameFates, SameEndings
    PROVE  Kept
<1>1. Fate' = Fate
  BY DEF SameFates, FateOf, Fate
<1>2. [h \in Handoff |-> OutcomeOf(V!CommittedLog[h])]' = [h \in Handoff |-> OutcomeOf(V!CommittedLog[h])]
  BY DEF SameEndings, Ending
<1> QED BY <1>1, <1>2 DEF Kept, P!vars

\* Acceptance, dispute and decision are steps of the promise.
LEMMA PromiseProceeds ==
    ASSUME Progress, SameEndings
    PROVE  Kept
<1>1. CASE SameFates
  BY <1>1, PromiseStutters
<1>2. ASSUME NEW h \in Handoff, NEW from, NEW to, Moves(h, from, to)
      PROVE  Fate[h] = from /\ Fate' = [Fate EXCEPT ![h] = to]
  BY <1>2 DEF Moves, FateOf, Fate
<1>3. [h \in Handoff |-> OutcomeOf(V!CommittedLog[h])]' = [h \in Handoff |-> OutcomeOf(V!CommittedLog[h])]
  BY DEF SameEndings, Ending
<1>4. ASSUME NEW h \in Handoff,
             \/ Moves(h, "open", "accepted")
             \/ Moves(h, "open", "disputed")
             \/ \E c \in P!Consequence : Moves(h, "disputed", c)
      PROVE  P!Next
  BY <1>2, <1>3, <1>4 DEF P!Next, P!Accept, P!Dispute, P!Decide
<1> QED BY <1>1, <1>4 DEF Progress, Kept

\* The controllers' messages settle as the fate says.
LEMMA PromiseSettles ==
    ASSUME DInv, SameFates, NEW h \in Handoff, NEW e, log' = [log EXCEPT ![h] = <<e>>],
           frames = <<>>, frames' = <<>>, log[h] = <<>>,
           OutcomeOf(<<e>>) = FateOf(h), FateOf(h) \in P!Decided
    PROVE  Kept
<1>1. /\ log'[h] = <<e>>
      /\ \A k \in Handoff \ {h} : log'[k] = log[k]
  BY DEF DInv, EscrowSound
<1>2. \A k \in Handoff : Ending(k) = OutcomeOf(log[k]) /\ Ending(k)' = OutcomeOf(log'[k])
  BY DEF Ending, V!CommittedLog, OutcomeOf
<1>3. /\ Ending(h) = "pending" /\ Ending(h)' = FateOf(h)
      /\ \A k \in Handoff \ {h} : Ending(k)' = Ending(k)
  <2>1. OutcomeOf(log[h]) = "pending"
    BY DEF OutcomeOf
  <2> QED BY <1>1, <1>2, <2>1
<1>4. Fate' = Fate /\ Fate[h] = FateOf(h)
  BY DEF SameFates, FateOf, Fate
<1>5. P!Settle(h)
  BY <1>3, <1>4 DEF P!Settle, Ending
<1> QED BY <1>5 DEF Kept, P!Next

\* Expiry at top level is a step of the promise; inside a call it is not yet one.
LEMMA PromiseExpires ==
    ASSUME DInv, SameFates, NEW h \in Handoff, NEW e, e.kind = "EscrowRecovered",
           log[h] = <<>>, log' = [log EXCEPT ![h] = <<e>>], frames' = frames
    PROVE  Kept
<1>1. CASE frames # <<>>
  <2>1. SameEndings
    BY <1>1 DEF SameEndings, Ending, V!CommittedLog
  <2> QED BY <2>1, PromiseStutters
<1>2. CASE frames = <<>>
  <2>1. /\ log'[h] = <<e>>
        /\ \A k \in Handoff \ {h} : log'[k] = log[k]
    BY DEF DInv, EscrowSound
  <2>2. OutcomeOf(<<e>>) = "expired" /\ OutcomeOf(log[h]) = "pending"
    <3>1. <<e>> # <<>> /\ Head(<<e>>) = e
      OBVIOUS
    <3> QED BY <3>1 DEF OutcomeOf
  <2>3. \A k \in Handoff : Ending(k) = OutcomeOf(log[k]) /\ Ending(k)' = OutcomeOf(log'[k])
    BY <1>2 DEF Ending, V!CommittedLog, OutcomeOf
  <2>4. /\ Ending(h) = "pending" /\ Ending(h)' = "expired"
        /\ \A k \in Handoff \ {h} : Ending(k)' = Ending(k)
    BY <2>1, <2>2, <2>3
  <2>5. Fate' = Fate
    BY DEF SameFates, FateOf, Fate
  <2>6. P!Expire({h})
    BY <2>4, <2>5 DEF P!Expire, Ending
  <2> QED BY <2>6 DEF Kept, P!Next
<1> QED BY <1>1, <1>2

\* What expired inside withdraw() has expired once it returns.
LEMMA PromiseReturns ==
    ASSUME DInv, SameFates, frames # <<>>, frames' = <<>>,
           log' = log \/ log' = Head(frames).saved.log
    PROVE  Kept
<1> DEFINE saved == Head(frames).saved
           S == {k \in Handoff : saved.log[k] = <<>> /\ log'[k] # <<>>}
<1>1. \A k \in Handoff : Ending(k) = OutcomeOf(saved.log[k]) /\ Ending(k)' = OutcomeOf(log'[k])
  BY DEF Ending, V!CommittedLog, OutcomeOf
<1>2. SavedSound(saved) /\ (log' = log \/ log' = saved.log)
  BY DEF DInv, FrameSound
<1> HIDE DEF saved
<1>3. ASSUME NEW k \in Handoff
      PROVE  /\ k \in S => OutcomeOf(saved.log[k]) = "pending" /\ OutcomeOf(log'[k]) = "expired"
             /\ k \notin S => OutcomeOf(log'[k]) = OutcomeOf(saved.log[k])
  BY <1>2 DEF SavedSound, OutcomeOf
<1>4. Fate' = Fate
  BY DEF SameFates, FateOf, Fate
<1>5. P!Expire(S)
  BY <1>1, <1>3, <1>4 DEF P!Expire, Ending
<1> QED BY <1>5 DEF Kept, P!Next

-----------------------------------------------------------------------------
(* The system.                                                             *)

\* A step of the two other contracts, which the Vault does not see.
LEMMA EscrowRests ==
    ASSUME DInv, FatesSound', Persists, UNCHANGED vaultVars
    PROVE  EscrowSound' /\ FrameSound' /\ SameEndings
<1>1. UNCHANGED <<status, terms, log, frames>>
  BY DEF vaultVars
<1>2. EscrowSound' /\ FrameSound'
  BY <1>1, NothingEnds DEF DInv, FatesSound, EscrowSound
<1>3. SameEndings
  BY <1>1 DEF SameEndings, Ending, V!CommittedLog
<1> QED BY <1>2, <1>3

LEMMA FatesRest ==
    ASSUME DInv, UNCHANGED <<net, registryVars, adjudicatorVars>>, now' \in Nat, now' >= now
    PROVE  FatesSound' /\ Persists /\ SameFates
<1>1. UNCHANGED <<net, version, acceptedAt, context, cases, verdicts>>
  BY DEF registryVars, adjudicatorVars
<1>2. /\ Persists /\ SameFates
      /\ Typed' /\ R!AcceptXorDispute' /\ WithinHorizon' /\ CasesSound'
  BY <1>1, RegistryRests DEF DInv, FatesSound, Typed
<1> QED BY <1>1, <1>2, NothingSent DEF DInv, FatesSound

\* A call of an account or its end.
LEMMA VaultCallKept ==
    ASSUME DInv, VaultCall
    PROVE  DInv' /\ Kept
<1>1. now' = now /\ now \in Nat
  BY DEF VaultCall, V!AccountCall, V!FundHandoff, V!PostBond, V!RecoverUnactivated,
     V!RecoverActive, V!Withdraw, V!WithdrawReturns, V!WithdrawReverts, DInv, FatesSound, Typed
<1>2. FatesSound' /\ Persists /\ SameFates
  BY <1>1, FatesRest DEF VaultCall
<1>3. Typed'
  BY <1>2 DEF FatesSound
<1>4. ASSUME NEW h \in Handoff, V!AccountCall(h)
      PROVE  DInv' /\ Kept
  <2>1. /\ EscrowSound' /\ FrameSound' /\ frames' = frames
        /\ \/ log' = log
           \/ \E e : e.kind = "EscrowRecovered" /\ log[h] = <<>> /\ log' = [log EXCEPT ![h] = <<e>>]
    BY <1>2, <1>3, <1>4, AccountCallKept
  <2>2. CASE log' = log
    <3>1. SameEndings
      BY <2>1, <2>2 DEF SameEndings, Ending, V!CommittedLog
    <3> QED BY <1>2, <2>1, <3>1, PromiseStutters DEF DInv
  <2>3. CASE \E e : e.kind = "EscrowRecovered" /\ log[h] = <<>> /\ log' = [log EXCEPT ![h] = <<e>>]
    BY <1>2, <2>1, <2>3, PromiseExpires DEF DInv
  <2> QED BY <2>1, <2>2, <2>3
<1>5. ASSUME NEW a \in Withdrawers, V!Withdraw(a)
      PROVE  DInv' /\ Kept
  <2>1. /\ EscrowSound' /\ FrameSound' /\ frames = <<>> /\ frames' # <<>>
        /\ Head(frames').saved.log = log
    BY <1>2, <1>3, <1>5, CallOpens
  <2>2. SameEndings
    BY <2>1 DEF SameEndings, Ending, V!CommittedLog
  <2> QED BY <1>2, <2>1, <2>2, PromiseStutters DEF DInv
<1>6. CASE V!WithdrawReturns \/ V!WithdrawReverts
  <2>1. /\ EscrowSound' /\ FrameSound' /\ frames # <<>> /\ frames' = <<>>
        /\ log' = log \/ log' = Head(frames).saved.log
    BY <1>2, <1>3, <1>6, CallEnds
  <2> QED BY <1>2, <2>1, PromiseReturns DEF DInv
<1> QED BY <1>4, <1>5, <1>6 DEF VaultCall

\* Delivery of a registration, completion or consequence.
LEMMA DeliveryKept ==
    ASSUME DInv, NEW h \in Handoff,
           \/ DeliverRegister(h)
           \/ DeliverComplete(h)
           \/ \E r \in 1..3 : DeliverVerdict(h, r)
    PROVE  DInv' /\ Kept
<1>1. now' = now /\ now \in Nat /\ UNCHANGED <<net, registryVars, adjudicatorVars>>
  BY DEF DeliverRegister, DeliverComplete, DeliverVerdict, V!RegisterHandoff,
     V!RegistrationIgnored, V!ApplyHandoffCompletion, V!CompletionIgnored,
     V!ApplyFinalVerdict, V!VerdictIgnored, V!vars, DInv, FatesSound, Typed
<1>2. FatesSound' /\ Persists /\ SameFates
  BY <1>1, FatesRest
<1>3. Typed'
  BY <1>2 DEF FatesSound
<1>4. CASE V!RegisterHandoff(h, Agreed[h])
  <2>1. EscrowSound' /\ FrameSound' /\ log' = log /\ frames' = frames
    BY <1>2, <1>3, <1>4, RegistrationKept
  <2>2. SameEndings
    BY <2>1 DEF SameEndings, Ending, V!CommittedLog
  <2> QED BY <1>2, <2>1, <2>2, PromiseStutters DEF DInv
<1>5. CASE DeliverComplete(h) /\ V!ApplyHandoffCompletion(h, Agreed[h].binding)
  <2> DEFINE e == V!HandoffCompleted
  <2>1. e.kind = "HandoffCompleted"
    BY DEF V!HandoffCompleted
  <2>2. /\ V!TopLevel /\ V!Close(h, "SETTLED", e) /\ status[h] = "ACTIVE"
        /\ UNCHANGED <<terms, frames>>
    BY <1>5 DEF V!ApplyHandoffCompletion
  <2>3. R!Accepted(h)
    BY <1>5 DEF DeliverComplete, DInv, FatesSound, InstructionsSound
  <2> HIDE DEF e
  <2>4. Backed(h, e)
    BY <2>1, <2>3 DEF Backed
  <2>5. /\ EscrowSound' /\ FrameSound' /\ frames = <<>> /\ frames' = <<>>
        /\ log[h] = <<>> /\ log' = [log EXCEPT ![h] = <<e>>]
    BY <1>2, <1>3, <2>2, <2>4, SettlementApplied
  <2>6. OutcomeOf(<<e>>) = "accepted"
    <3>1. <<e>> # <<>> /\ Head(<<e>>) = e
      OBVIOUS
    <3> QED BY <2>1, <3>1 DEF OutcomeOf
  <2>7. FateOf(h) = "accepted" /\ FateOf(h) \in P!Decided
    BY <2>3 DEF FateOf, P!Decided
  <2> QED BY <1>2, <2>5, <2>6, <2>7, PromiseSettles DEF DInv
<1>6. ASSUME NEW r \in 1..3, DeliverVerdict(h, r),
             V!ApplyFinalVerdict(h, h, Agreed[h].binding, r)
      PROVE  DInv' /\ Kept
  <2> DEFINE e == V!VerdictApplied(h, r)
  <2>1. e.kind = "VerdictApplied" /\ e.case = h /\ e.rule = r
    BY DEF V!VerdictApplied
  <2>2. /\ V!TopLevel /\ V!Close(h, "SETTLED", e) /\ status[h] = "ACTIVE"
        /\ UNCHANGED <<terms, frames>>
    BY <1>6 DEF V!ApplyFinalVerdict
  <2>3. DecidedFor(h, r)
    BY <1>6 DEF DeliverVerdict, DInv, FatesSound, InstructionsSound
  <2> HIDE DEF e
  <2>4. Backed(h, e)
    BY <2>1, <2>3 DEF Backed
  <2>5. /\ EscrowSound' /\ FrameSound' /\ frames = <<>> /\ frames' = <<>>
        /\ log[h] = <<>> /\ log' = [log EXCEPT ![h] = <<e>>]
    BY <1>2, <1>3, <2>2, <2>4, SettlementApplied
  <2>6. OutcomeOf(<<e>>) = RuleName[r]
    <3>1. <<e>> # <<>> /\ Head(<<e>>) = e
      OBVIOUS
    <3> QED BY <2>1, <3>1 DEF OutcomeOf
  <2>7. FateOf(h) = RuleName[r]
    <3>1. R!HasCase(h) /\ ~R!Accepted(h)
      BY <2>3 DEF DInv, FatesSound, CasesSound, CaseSound, DecidedFor, R!AcceptXorDispute
    <3>2. RuleName[A!NEUTRAL_RECOVERY] = "neutral"
      BY DEF RuleName, A!NEUTRAL_RECOVERY
    <3> QED BY <2>3, <3>1, <3>2 DEF FateOf, DecidedFor
  <2>8. RuleName[r] \in P!Decided
    BY DEF RuleName, P!Decided, P!Consequence
  <2> QED BY <1>2, <2>5, <2>6, <2>7, <2>8, PromiseSettles DEF DInv
<1>7. CASE UNCHANGED vaultVars
  <2>1. EscrowSound' /\ FrameSound' /\ SameEndings
    BY <1>2, <1>7, EscrowRests
  <2> QED BY <1>2, <2>1, PromiseStutters DEF DInv
<1>8. \/ V!RegisterHandoff(h, Agreed[h])
      \/ DeliverComplete(h) /\ V!ApplyHandoffCompletion(h, Agreed[h].binding)
      \/ \E r \in 1..3 : DeliverVerdict(h, r) /\ V!ApplyFinalVerdict(h, h, Agreed[h].binding, r)
      \/ UNCHANGED vaultVars
  BY DEF DeliverRegister, DeliverComplete, DeliverVerdict, V!RegistrationIgnored,
     V!CompletionIgnored, V!VerdictIgnored, V!vars, vaultVars
<1> QED BY <1>4, <1>5, <1>6, <1>7, <1>8

LEMMA NextDInv == DInv /\ [Next]_vars => DInv' /\ Kept
<1> SUFFICES ASSUME DInv, [Next]_vars PROVE DInv' /\ Kept
  OBVIOUS
<1>1. ASSUME FatesSound', Persists, Progress, UNCHANGED vaultVars
      PROVE  DInv' /\ Kept
  BY <1>1, EscrowRests, PromiseProceeds DEF DInv
<1>2. CASE RegistryCall
  BY <1>1, <1>2, RegistryKept DEF RegistryCall, DInv, adjudicatorVars, A!adjudicatorVars
<1>3. CASE AdjudicatorCall
  BY <1>1, <1>3, AdjudicatorKept DEF AdjudicatorCall, DInv
<1>4. CASE VaultCall
  BY <1>4, VaultCallKept
<1>5. ASSUME NEW h \in Handoff,
             \/ \E who \in Account : RepairDelivery(h, who)
             \/ ResolveCase(h)
             \/ DeliverInitialize(h)
      PROVE  DInv' /\ Kept
  <2>1. FatesSound' /\ Persists /\ SameFates
    BY <1>5, RepairKept, ReviewKept, InitializationKept DEF ResolveCase, DInv
  <2>2. UNCHANGED vaultVars
    BY <1>5 DEF RepairDelivery, ResolveCase, DeliverInitialize
  <2> QED BY <1>1, <2>1, <2>2 DEF Progress
<1>6. ASSUME NEW h \in Handoff,
             \/ DeliverRegister(h)
             \/ DeliverComplete(h)
             \/ \E r \in 1..3 : DeliverVerdict(h, r)
      PROVE  DInv' /\ Kept
  BY <1>6, DeliveryKept
<1>7. CASE Tick \/ UNCHANGED vars
  <2>1. /\ UNCHANGED <<net, registryVars, adjudicatorVars>> /\ UNCHANGED vaultVars
        /\ now' \in Nat /\ now' >= now
    BY <1>7 DEF Tick, V!Tick, vars, vaultVars, DInv, FatesSound, Typed
  <2>2. FatesSound' /\ Persists /\ SameFates
    BY <2>1, FatesRest
  <2> QED BY <1>1, <2>1, <2>2 DEF Progress
<1> QED BY <1>2, <1>3, <1>4, <1>5, <1>6, <1>7 DEF Next

LEMMA InitDInv == Init => DInv /\ P!Init
<1> SUFFICES ASSUME Init PROVE DInv /\ P!Init
  OBVIOUS
<1> USE DEF Init, R!Init, A!Init, V!Init
<1>1. A!NoCase \in A!CaseRecord /\ A!NoCase.status = "NONE" /\ ~A!NoCase.queued
  BY DEF A!NoCase, A!CaseRecord, A!FailureCode
<1>2. verdicts \in Seq({}) /\ \A i \in DOMAIN verdicts : verdicts[i].rule \in 1..3
  OBVIOUS
<1>3. Typed
  BY <1>1, <1>2 DEF Typed
<1>4. \A h \in Handoff : /\ ~R!Accepted(h) /\ ~R!HasCase(h)
                         /\ cases[h].status = "NONE" /\ ~cases[h].queued
  BY <1>1 DEF R!Accepted, R!HasCase
<1>5. FatesSound
  BY <1>3, <1>4 DEF FatesSound, R!AcceptXorDispute, WithinHorizon, CasesSound, CaseSound,
     InstructionsSound
<1>6. EscrowSound /\ FrameSound
  BY DEF EscrowSound, FrameSound, Closed
<1>7. \A h \in Handoff : Fate[h] = "open" /\ Ending(h) = "pending"
  BY <1>4 DEF Fate, Ending, OutcomeOf, V!CommittedLog
<1>8. P!Init
  BY <1>7 DEF P!Init, Fate, Ending
<1> QED BY <1>5, <1>6, <1>8 DEF DInv

LEMMA DisputeInvariant == Spec => []DInv
BY InitDInv, NextDInv, PTL DEF Spec

-----------------------------------------------------------------------------
\* A completion and a verdict are never both under way for one handoff.
THEOREM InstructionsNeverRival == Spec => []NoRivalInstructions
<1>1. DInv => NoRivalInstructions
  BY DEF DInv, FatesSound, InstructionsSound, NoRivalInstructions, R!AcceptXorDispute,
     CasesSound, CaseSound, DecidedFor
<1> QED BY <1>1, DisputeInvariant, PTL

\* Every escrow that paid out paid what was decided for its own handoff.
THEOREM PaidAsDecided == Spec => []SettledAsDecided
<1>1. DInv => SettledAsDecided
  <2> SUFFICES ASSUME DInv, NEW h \in Handoff
               PROVE  /\ log[h] = <<V!HandoffCompleted>> => R!Accepted(h)
                      /\ \A c \in Handoff, r \in 1..3 :
                            log[h] = <<V!VerdictApplied(c, r)>> => c = h /\ DecidedFor(h, r)
    BY DEF SettledAsDecided, DecidedFor
  <2>1. \A e : log[h] = <<e>> => Backed(h, e)
    <3> SUFFICES ASSUME NEW e, log[h] = <<e>> PROVE Backed(h, e)
      OBVIOUS
    <3>1. log[h] # <<>> /\ Head(log[h]) = e
      OBVIOUS
    <3> QED BY <3>1 DEF DInv, EscrowSound, Closed
  <2>2. V!HandoffCompleted.kind = "HandoffCompleted"
    BY DEF V!HandoffCompleted
  <2>3. \A c, r : LET e == V!VerdictApplied(c, r)
                  IN  e.kind = "VerdictApplied" /\ e.case = c /\ e.rule = r
    BY DEF V!VerdictApplied
  <2> QED BY <2>1, <2>2, <2>3 DEF Backed
<1> QED BY <1>1, DisputeInvariant, PTL

\* A verdict is about the delivery the Registry still shows.
THEOREM ReviewStaysCurrent == Spec => []ReviewedDeliveryIsCurrent
<1>1. DInv => ReviewedDeliveryIsCurrent
  BY DEF DInv, FatesSound, CasesSound, CaseSound, ReviewedDeliveryIsCurrent
<1> QED BY <1>1, DisputeInvariant, PTL

\* Nobody is led into a settlement the Vault will ignore.
THEOREM ExpiryClosesTheCase == Spec => []NoDecisionAfterExpiry
<1>1. DInv => NoDecisionAfterExpiry
  <2> SUFFICES ASSUME DInv, NEW h \in Handoff,
                      log[h] = <<V!EscrowRecovered("FINAL_VERDICT_DEADLINE_EXPIRED")>>
               PROVE  /\ ~A!FirstQueue(h)
                      /\ ~A!Revisable(h)
                      /\ R!HasCase(h) => now > context[h].recoveryDeadline
    BY DEF NoDecisionAfterExpiry
  <2> DEFINE e == V!EscrowRecovered("FINAL_VERDICT_DEADLINE_EXPIRED")
  <2>1. e.kind = "EscrowRecovered" /\ e.reason = ACTIVE_EXPIRY
    BY DEF V!EscrowRecovered, ACTIVE_EXPIRY
  <2>2. log[h] = <<e>>
    OBVIOUS
  <2> HIDE DEF e
  <2>3. log[h] # <<>> /\ Head(log[h]) = e
    BY <2>2
  <2>4. now > Agreed[h].recoveryDeadline
    BY <2>1, <2>3 DEF DInv, EscrowSound, Closed, Backed
  <2>5. R!HasCase(h) => now > context[h].recoveryDeadline
    <3> SUFFICES ASSUME R!HasCase(h) PROVE now > context[h].recoveryDeadline
      OBVIOUS
    <3>1. context[h] \in R!Context
      BY DEF DInv, FatesSound, Typed, R!HasCase
    <3>2. context[h].recoveryDeadline \in Nat
      BY <3>1 DEF R!Context
    <3> QED BY <2>4, <3>2, SystemFacts DEF DInv, FatesSound, Typed, WithinHorizon
  <2>6. ASSUME cases[h].status # "NONE"
        PROVE  now > cases[h].recoveryDeadline
    BY <2>5, <2>6 DEF DInv, FatesSound, CasesSound, CaseSound
  <2>7. cases[h].recoveryDeadline \in Nat /\ now \in Nat
    BY CaseState DEF DInv
  <2> QED BY <2>5, <2>6, <2>7 DEF A!FirstQueue, A!Revisable
<1> QED BY <1>1, DisputeInvariant, PTL

\* Registry, Adjudicator and Vault implement SettlementPromise.
THEOREM PromiseIsKept == Spec => KeepsPromise
<1>1. DInv /\ [Next]_vars => [P!Next]_(P!vars)
  BY NextDInv DEF Kept
<1> QED BY <1>1, InitDInv, DisputeInvariant, PTL DEF Spec, KeepsPromise, P!Spec

-----------------------------------------------------------------------------
(* Each contract, inside the system, is the contract of its own module:    *)
(* what is proved of it there holds here.                                  *)

\* The messages of each of the two senders.
RegistryNet == {m \in net : m.type # "verdict"}
VerdictNet == {m \in net : m.type = "verdict"}

\* What the Registry may be shown of a case.
Shown == [status : {"OPEN", "REPAIR_REQUIRED", "REVIEWED", "RECOVERED"},
          queued : BOOLEAN, recoveryDeadline : Nat, failure : A!FailureCode]

VP == INSTANCE EscrowVaultProofs
    WITH Case <- Handoff, Binding <- {Agreed[h].binding : h \in Handoff},
         Offered <- {Agreed[h] : h \in Handoff}

RP == INSTANCE HandoffRegistryProofs
    WITH Snapshots <- Shown, net <- RegistryNet

AP == INSTANCE CaseAdjudicatorProofs
    WITH Case <- Handoff, Contexts <- [responseDeadline : Nat, recoveryDeadline : Nat],
         Deliveries <- Nat, net <- VerdictNet,
         Requester <- [h \in Handoff |-> Agreed[h].requester],
         Provider <- [h \in Handoff |-> Agreed[h].provider]

\* What each module assumes of its constants holds of the constants it gets here.
LEMMA VaultAssumptions == VP!FiniteAssumption /\ VP!OfferedAssumption
BY SystemAssumption DEF V!FiniteAssumption, V!OfferedAssumption, VP!FiniteAssumption,
   VP!OfferedAssumption, V!Terms, VP!Terms, V!IsFiniteSet, VP!IsFiniteSet

\* The same for the Registry.
LEMMA RegistryAssumptions == RP!PolicyAssumption /\ RP!AgreedAssumption
BY SystemAssumption DEF R!PolicyAssumption, R!AgreedAssumption, RP!PolicyAssumption,
   RP!AgreedAssumption

\* The same for the Adjudicator.
LEMMA AdjudicatorAssumptions ==
    AP!PolicyAssumption /\ AP!InputAssumption /\ AP!PartiesAssumption
BY SystemAssumption DEF A!PolicyAssumption, A!InputAssumption, A!PartiesAssumption,
   AP!PolicyAssumption, AP!InputAssumption, AP!PartiesAssumption

\* A message is in the set of its sender.
LEMMA SendersMessages ==
    /\ net' = net => RegistryNet' = RegistryNet /\ VerdictNet' = VerdictNet
    /\ \A m : net' = net \cup {m} =>
        /\ m.type # "verdict" => RegistryNet' = RegistryNet \cup {m} /\ VerdictNet' = VerdictNet
        /\ m.type = "verdict" => RegistryNet' = RegistryNet /\ VerdictNet' = VerdictNet \cup {m}
BY DEF RegistryNet, VerdictNet

-----------------------------------------------------------------------------
\* The transactions of the Registry are those of its module, and send none of the
\* Adjudicator's messages.
LEMMA RegistryActions ==
    ASSUME RegistryCall
    PROVE  RP!RegistryStep /\ VerdictNet' = VerdictNet
<1>1. PICK who \in Account :
        \/ R!BindAdjudicator(who) \/ R!BindVault(who)
        \/ R!ActivateWorkflow(who) \/ R!CloseWorkflow(who)
        \/ \E h \in Handoff :
            \/ R!RegisterHandoffInVault(h, who)
            \/ R!SubmitHandoffDelivery(h, who)
            \/ R!AcceptHandoffDelivery(h, who)
            \/ R!RetryHandoffCompletion(h, who)
            \/ R!OpenCase(h, who)
            \/ R!RetryCaseInitialization(h, who)
  BY DEF RegistryCall, R!RegistryStep
<1>2. CASE R!BindAdjudicator(who) \/ R!BindVault(who)
           \/ R!ActivateWorkflow(who) \/ R!CloseWorkflow(who)
  <2>1. RegistryNet' = RegistryNet /\ VerdictNet' = VerdictNet
    BY <1>2, SendersMessages DEF R!BindAdjudicator, R!BindVault, R!ActivateWorkflow, R!CloseWorkflow
  <2>2. RP!BindAdjudicator(who) \/ RP!BindVault(who)
        \/ RP!ActivateWorkflow(who) \/ RP!CloseWorkflow(who)
    BY <1>2, <2>1 DEF R!BindAdjudicator, R!BindVault, R!ActivateWorkflow, R!CloseWorkflow,
       RP!BindAdjudicator, RP!BindVault, RP!ActivateWorkflow, RP!CloseWorkflow
  <2> QED BY <2>1, <2>2 DEF RP!RegistryStep
<1>3. ASSUME NEW m, m.type # "verdict", R!Emit(m)
      PROVE  RP!Emit(m) /\ VerdictNet' = VerdictNet
  BY <1>3, SendersMessages DEF R!Emit, RP!Emit
<1>4. \A h, v : /\ R!Register(h) = RP!Register(h) /\ R!Register(h).type # "verdict"
                /\ R!Complete(h, v) = RP!Complete(h, v) /\ R!Complete(h, v).type # "verdict"
                /\ R!Initialize(h) = RP!Initialize(h) /\ R!Initialize(h).type # "verdict"
  BY DEF R!Register, RP!Register, R!Complete, RP!Complete, R!Initialize, RP!Initialize
<1>5. \A h : /\ R!Accepted(h) <=> RP!Accepted(h)
             /\ R!HasCase(h) <=> RP!HasCase(h)
             /\ R!Undecided(h) <=> RP!Undecided(h)
             /\ R!Participants(h) = RP!Participants(h)
             /\ R!FitsHorizon(h) <=> RP!FitsHorizon(h)
  BY DEF R!Accepted, RP!Accepted, R!HasCase, RP!HasCase, R!NoContext, RP!NoContext,
     R!Undecided, RP!Undecided, R!Participants, RP!Participants, R!FitsHorizon, RP!FitsHorizon
<1>6. ASSUME NEW h \in Handoff, R!RegisterHandoffInVault(h, who)
      PROVE  RP!RegisterHandoffInVault(h, who) /\ VerdictNet' = VerdictNet
  BY <1>6, <1>3, <1>4 DEF R!RegisterHandoffInVault, RP!RegisterHandoffInVault,
     R!registryVars, RP!registryVars
<1>7. ASSUME NEW h \in Handoff, R!SubmitHandoffDelivery(h, who)
      PROVE  RP!SubmitHandoffDelivery(h, who) /\ VerdictNet' = VerdictNet
  BY <1>7, <1>5, SendersMessages DEF R!SubmitHandoffDelivery, RP!SubmitHandoffDelivery
<1>8. ASSUME NEW h \in Handoff, R!AcceptHandoffDelivery(h, who)
      PROVE  RP!AcceptHandoffDelivery(h, who) /\ VerdictNet' = VerdictNet
  <2>1. CASE vaultBound
    <3>1. R!Emit(R!Complete(h, version[h]))
      BY <1>8, <2>1 DEF R!AcceptHandoffDelivery
    <3>2. RP!Emit(RP!Complete(h, version[h])) /\ VerdictNet' = VerdictNet
      BY <3>1, <1>3, <1>4
    <3> QED BY <1>8, <1>5, <2>1, <3>2 DEF R!AcceptHandoffDelivery, RP!AcceptHandoffDelivery
  <2>2. CASE ~vaultBound
    BY <1>8, <1>5, <2>2, SendersMessages DEF R!AcceptHandoffDelivery, RP!AcceptHandoffDelivery
  <2> QED BY <2>1, <2>2
<1>9. ASSUME NEW h \in Handoff, R!RetryHandoffCompletion(h, who)
       PROVE  RP!RetryHandoffCompletion(h, who) /\ VerdictNet' = VerdictNet
  BY <1>9, <1>3, <1>4, <1>5 DEF R!RetryHandoffCompletion, RP!RetryHandoffCompletion,
     R!registryVars, RP!registryVars
<1>10. ASSUME NEW h \in Handoff, R!OpenCase(h, who)
       PROVE  RP!OpenCase(h, who) /\ VerdictNet' = VerdictNet
  BY <1>10, <1>3, <1>4, <1>5 DEF R!OpenCase, RP!OpenCase
<1>11. ASSUME NEW h \in Handoff, R!RetryCaseInitialization(h, who)
       PROVE  RP!RetryCaseInitialization(h, who) /\ VerdictNet' = VerdictNet
  BY <1>11, <1>3, <1>4, <1>5 DEF R!RetryCaseInitialization, RP!RetryCaseInitialization,
     R!registryVars, RP!registryVars
<1> QED BY <1>1, <1>2, <1>6, <1>7, <1>8, <1>9, <1>10, <1>11 DEF RP!RegistryStep

\* Both instances of the module count alike.
LEMMA SameSize == \A S : A!Cardinality(S) = AP!Cardinality(S)
BY DEF A!Cardinality, AP!Cardinality

\* The transactions of the Adjudicator are those of its module, and send none of
\* the Registry's messages.
LEMMA AdjudicatorActions ==
    ASSUME AdjudicatorCall
    PROVE  AP!AdjudicatorStep /\ RegistryNet' = RegistryNet
<1>1. /\ \A c : /\ A!Participants(c) = AP!Participants(c)
                /\ A!Current(c) = AP!Current(c)
                /\ A!CurrentRevision(c) = AP!CurrentRevision(c)
                /\ A!Revisable(c) <=> AP!Revisable(c)
                /\ A!Recoverable(c) <=> AP!Recoverable(c)
      /\ A!TransientFailure = AP!TransientFailure
      /\ A!NEUTRAL_RECOVERY = AP!NEUTRAL_RECOVERY
  BY DEF A!Participants, AP!Participants, A!Current, AP!Current, A!CurrentRevision,
     AP!CurrentRevision, A!Revisable, AP!Revisable, A!Recoverable, AP!Recoverable,
     A!TransientFailure, AP!TransientFailure, A!NEUTRAL_RECOVERY, AP!NEUTRAL_RECOVERY
<1>2. ASSUME NEW c, NEW r, A!Settle(c, r)
      PROVE  AP!Settle(c, r) /\ RegistryNet' = RegistryNet
  BY <1>2, SendersMessages DEF A!Settle, AP!Settle, A!ApplyVerdict, AP!ApplyVerdict
<1>3. ASSUME net' = net
      PROVE  VerdictNet' = VerdictNet /\ RegistryNet' = RegistryNet
  BY <1>3, SendersMessages
<1>4. CASE A!BindVault
  BY <1>4, <1>3 DEF A!BindVault, AP!BindVault, AP!AdjudicatorStep
<1>5. ASSUME NEW c \in Handoff, NEW who \in Account,
             \/ A!SubmitResponse(c, who)
             \/ A!MarkRevisionReady(c, who)
             \/ A!RetryCurrentRevision(c, who)
      PROVE  AP!AdjudicatorStep /\ RegistryNet' = RegistryNet
  <2>1. VerdictNet' = VerdictNet /\ RegistryNet' = RegistryNet
    BY <1>5, <1>3 DEF A!SubmitResponse, A!MarkRevisionReady, A!RetryCurrentRevision
  <2>2. \/ AP!SubmitResponse(c, who)
        \/ AP!MarkRevisionReady(c, who)
        \/ AP!RetryCurrentRevision(c, who)
    BY <1>5, <1>1, <2>1 DEF A!SubmitResponse, A!MarkRevisionReady, A!RetryCurrentRevision,
       AP!SubmitResponse, AP!MarkRevisionReady, AP!RetryCurrentRevision
  <2> QED BY <2>1, <2>2 DEF AP!AdjudicatorStep
<1>6. ASSUME NEW c \in Handoff, NEW who \in Account, NEW response \in BOOLEAN,
             A!BeginRevision(c, who, response)
      PROVE  AP!AdjudicatorStep /\ RegistryNet' = RegistryNet
  <2>1. VerdictNet' = VerdictNet /\ RegistryNet' = RegistryNet
    BY <1>6, <1>3 DEF A!BeginRevision
  <2>2. A!NewRevision(A!Carried(c)) = AP!NewRevision(AP!Carried(c))
    BY <1>1 DEF A!NewRevision, AP!NewRevision, A!Carried, AP!Carried
  <2>3. AP!BeginRevision(c, who, response)
    BY <1>6, <1>1, <2>1, <2>2 DEF A!BeginRevision, AP!BeginRevision
  <2> QED BY <2>1, <2>3 DEF AP!AdjudicatorStep
<1>7. ASSUME NEW c \in Handoff, NEW who \in Account, NEW source \in Source,
             NEW v \in 1..MaxEvidenceVersion, NEW f \in FreshUntil,
             A!RegisterEvidence(c, who, source, v, f)
      PROVE  AP!AdjudicatorStep /\ RegistryNet' = RegistryNet
  <2>1. VerdictNet' = VerdictNet /\ RegistryNet' = RegistryNet
    BY <1>7, <1>3 DEF A!RegisterEvidence
  <2>2. AP!RegisterEvidence(c, who, source, v, f)
    BY <1>7, <2>1, SameSize DEF A!RegisterEvidence, AP!RegisterEvidence, A!StableIdAvailable,
       AP!StableIdAvailable, A!Corroborates, AP!Corroborates, A!Current, AP!Current,
       A!CurrentRevision, AP!CurrentRevision
  <2> QED BY <2>1, <2>2 DEF AP!AdjudicatorStep
<1>8. ASSUME NEW c \in Handoff, NEW expected \in DOMAIN verdicts, A!QueueSettlement(c, expected)
      PROVE  AP!AdjudicatorStep /\ RegistryNet' = RegistryNet
  <2>1. /\ A!FirstQueue(c) <=> AP!FirstQueue(c)
        /\ A!Requeue(c) <=> AP!Requeue(c)
    BY DEF A!FirstQueue, AP!FirstQueue, A!Requeue, AP!Requeue
  <2>2. CASE boundVault
    <3>1. A!Settle(c, verdicts[expected].rule)
      BY <1>8, <2>2 DEF A!QueueSettlement
    <3>2. AP!Settle(c, verdicts[expected].rule) /\ RegistryNet' = RegistryNet
      BY <1>2, <3>1
    <3>3. AP!QueueSettlement(c, expected)
      BY <1>8, <1>1, <2>1, <2>2, <3>2 DEF A!QueueSettlement, AP!QueueSettlement
    <3> QED BY <3>2, <3>3 DEF AP!AdjudicatorStep
  <2>3. CASE ~boundVault
    <3>1. VerdictNet' = VerdictNet /\ RegistryNet' = RegistryNet
      BY <1>8, <1>3, <2>3 DEF A!QueueSettlement, A!Requeue
    <3>2. AP!QueueSettlement(c, expected)
      BY <1>8, <1>1, <2>1, <2>3, <3>1 DEF A!QueueSettlement, AP!QueueSettlement, A!Requeue
    <3> QED BY <3>1, <3>2 DEF AP!AdjudicatorStep
  <2> QED BY <2>2, <2>3
<1>9. ASSUME NEW c \in Handoff, A!RecoverCase(c) \/ A!RecoverAgain(c)
      PROVE  AP!AdjudicatorStep /\ RegistryNet' = RegistryNet
  <2>1. CASE boundVault
    <3>1. A!Settle(c, A!NEUTRAL_RECOVERY)
      BY <1>9, <2>1 DEF A!RecoverCase, A!RecoverAgain
    <3>2. AP!Settle(c, AP!NEUTRAL_RECOVERY) /\ RegistryNet' = RegistryNet
      BY <1>1, <1>2, <3>1
    <3>3. AP!RecoverCase(c) \/ AP!RecoverAgain(c)
      BY <1>9, <1>1, <2>1, <3>2 DEF A!RecoverCase, AP!RecoverCase, A!RecoverAgain,
         AP!RecoverAgain, A!adjudicatorVars, AP!adjudicatorVars
    <3> QED BY <3>2, <3>3 DEF AP!AdjudicatorStep
  <2>2. CASE ~boundVault
    <3>1. VerdictNet' = VerdictNet /\ RegistryNet' = RegistryNet
      BY <1>9, <1>3, <2>2 DEF A!RecoverCase, A!RecoverAgain
    <3>2. AP!RecoverCase(c)
      BY <1>9, <1>1, <2>2, <3>1 DEF A!RecoverCase, AP!RecoverCase, A!RecoverAgain
    <3> QED BY <3>1, <3>2 DEF AP!AdjudicatorStep
  <2> QED BY <2>1, <2>2
<1> QED
  BY <1>4, <1>5, <1>6, <1>7, <1>8, <1>9 DEF AdjudicatorCall, A!AdjudicatorStep

\* A review reads the delivery version the Registry shows.
LEMMA ReviewAction ==
    ASSUME NEW c \in Handoff, NEW delivery, A!ResolveCase(c, delivery)
    PROVE  AP!ResolveCase(c, delivery) /\ UNCHANGED <<now, RegistryNet, VerdictNet>>
<1>1. UNCHANGED <<now, RegistryNet, VerdictNet>>
  BY SendersMessages DEF A!ResolveCase
<1>2. A!Current(c) = AP!Current(c) /\ A!CurrentRevision(c) = AP!CurrentRevision(c)
  BY DEF A!Current, AP!Current, A!CurrentRevision, AP!CurrentRevision
<1>3. A!Reviewable(c) <=> AP!Reviewable(c)
  BY <1>2, SameSize DEF A!Reviewable, AP!Reviewable, A!Participants, AP!Participants, A!Issuers,
     AP!Issuers, A!Publishers, AP!Publishers
<1>4. A!Stale(c) = AP!Stale(c)
  BY <1>2 DEF A!Stale, AP!Stale
<1>5. \A code, e : A!RequireRepair(c, code, e) <=> AP!RequireRepair(c, code, e)
  BY <1>2 DEF A!RequireRepair, AP!RequireRepair, A!Least, AP!Least
<1>6. \A r : A!RecordVerdict(c, r, delivery) <=> AP!RecordVerdict(c, r, delivery)
  BY <1>2 DEF A!RecordVerdict, AP!RecordVerdict, A!Least, AP!Least
<1>7. /\ A!DeliveryFailure = AP!DeliveryFailure
      /\ A!ResponseFailure = AP!ResponseFailure
      /\ A!SourceFailure = AP!SourceFailure
      /\ A!ReviewRule = AP!ReviewRule
  BY DEF A!DeliveryFailure, AP!DeliveryFailure, A!ResponseFailure, AP!ResponseFailure,
     A!SourceFailure, AP!SourceFailure, A!ReviewRule, AP!ReviewRule, A!RELEASE_PROVIDER,
     AP!RELEASE_PROVIDER, A!NEUTRAL_RECOVERY, AP!NEUTRAL_RECOVERY
<1>8. AP!ResolveCase(c, delivery)
  BY <1>1, <1>2, <1>3, <1>4, <1>5, <1>6, <1>7 DEF A!ResolveCase, AP!ResolveCase
<1> QED BY <1>1, <1>8

\* The message of the Registry hands over the context the Registry keeps.
LEMMA InitializeAction ==
    ASSUME DInv, NEW h \in Handoff, DeliverInitialize(h)
    PROVE  /\ \/ \E given \in [responseDeadline : Nat, recoveryDeadline : Nat] :
                    AP!InitializeCase(h, given)
              \/ AP!InitializationIgnored(h)
           /\ UNCHANGED <<now, RegistryNet, VerdictNet>>
<1>1. UNCHANGED <<now, RegistryNet, VerdictNet>>
  BY SendersMessages DEF DeliverInitialize, A!InitializeCase, A!InitializationIgnored, A!vars
<1>2. CASE A!InitializeCase(h, context[h])
  <2> DEFINE given == [responseDeadline |-> context[h].responseDeadline,
                       recoveryDeadline |-> context[h].recoveryDeadline]
  <2>1. context[h] \in R!Context
    BY DEF DInv, FatesSound, Typed, InstructionsSound, DeliverInitialize, R!HasCase
  <2>2. given \in [responseDeadline : Nat, recoveryDeadline : Nat]
    BY <2>1 DEF R!Context
  <2>3. AP!InitializeCase(h, given)
    BY <1>1, <1>2 DEF A!InitializeCase, AP!InitializeCase, A!NoCase, AP!NoCase,
       A!NewRevision, AP!NewRevision
  <2> QED BY <1>1, <2>2, <2>3
<1>3. CASE A!InitializationIgnored(h)
  BY <1>1, <1>3 DEF A!InitializationIgnored, AP!InitializationIgnored, A!vars, AP!vars,
     A!adjudicatorVars, AP!adjudicatorVars
<1> QED BY <1>2, <1>3 DEF DeliverInitialize

\* A delivery repair is made for what the Adjudicator shows.
LEMMA RepairAction ==
    ASSUME DInv, NEW h \in Handoff, NEW who \in Account, RepairDelivery(h, who)
    PROVE  /\ \E s \in Shown : RP!RepairHandoffDelivery(h, who, s)
           /\ UNCHANGED <<now, RegistryNet, VerdictNet>>
<1>1. UNCHANGED <<now, RegistryNet, VerdictNet>>
  BY SendersMessages DEF RepairDelivery, R!RepairHandoffDelivery
<1>2. cases[h] \in A!CaseRecord /\ cases[h].status # "NONE"
  BY DEF RepairDelivery, DInv, FatesSound, Typed
<1>3. RepairSnapshot(h) \in Shown
  <2>1. /\ cases[h].status \in {"OPEN", "REPAIR_REQUIRED", "REVIEWED", "RECOVERED"}
        /\ cases[h].queued \in BOOLEAN /\ cases[h].recoveryDeadline \in Nat
        /\ cases[h].failure \in A!FailureCode
    BY <1>2 DEF A!CaseRecord
  <2> QED BY <2>1 DEF RepairSnapshot, Shown
<1>4. RP!RepairHandoffDelivery(h, who, RepairSnapshot(h))
  BY <1>1 DEF RepairDelivery, R!RepairHandoffDelivery, RP!RepairHandoffDelivery, R!HasCase,
     RP!HasCase, R!NoContext, RP!NoContext, R!NeedsDelivery, RP!NeedsDelivery,
     R!DeliveryFailure, RP!DeliveryFailure
<1> QED BY <1>1, <1>3, <1>4

\* The messages the controllers bring the Vault are those its module allows for.
LEMMA ControllerActions ==
    ASSUME NEW h \in Handoff
    PROVE  /\ DeliverRegister(h) => VP!ControllerMessage(h)
           /\ DeliverComplete(h) => VP!ControllerMessage(h)
           /\ \A r \in 1..3 : DeliverVerdict(h, r) => VP!ControllerMessage(h)
<1>1. Agreed[h] \in {Agreed[k] : k \in Handoff}
      /\ Agreed[h].binding \in {Agreed[k].binding : k \in Handoff}
  OBVIOUS
<1>2. DeliverRegister(h) => VP!ControllerMessage(h)
  <2>1. /\ V!RegisterHandoff(h, Agreed[h]) => VP!RegisterHandoff(h, Agreed[h])
        /\ V!RegistrationIgnored(h, Agreed[h]) => VP!RegistrationIgnored(h, Agreed[h])
    BY DEF V!RegisterHandoff, VP!RegisterHandoff, V!RegistrationIgnored, VP!RegistrationIgnored,
       V!ValidTerms, VP!ValidTerms, V!TopLevel, VP!TopLevel, V!vars, VP!vars
  <2> QED BY <1>1, <2>1 DEF DeliverRegister, VP!ControllerMessage
<1>3. DeliverComplete(h) => VP!ControllerMessage(h)
  <2> DEFINE b == Agreed[h].binding
  <2>1. /\ V!ApplyHandoffCompletion(h, b) => VP!ApplyHandoffCompletion(h, b)
        /\ V!CompletionIgnored(h, b) => VP!CompletionIgnored(h, b)
    BY DEF V!ApplyHandoffCompletion, VP!ApplyHandoffCompletion, V!CompletionIgnored,
       VP!CompletionIgnored, V!Close, VP!Close, V!Credit, VP!Credit, V!HandoffCompleted,
       VP!HandoffCompleted, V!TopLevel, VP!TopLevel, V!vars, VP!vars
  <2> QED BY <1>1, <2>1 DEF DeliverComplete, VP!ControllerMessage
<1>4. ASSUME NEW r \in 1..3, DeliverVerdict(h, r)
      PROVE  VP!ControllerMessage(h)
  <2> DEFINE b == Agreed[h].binding
  <2>1. /\ V!ApplyFinalVerdict(h, h, b, r) => VP!ApplyFinalVerdict(h, h, b, r)
        /\ V!VerdictIgnored(h, h, b) => VP!VerdictIgnored(h, h, b)
    BY DEF V!ApplyFinalVerdict, VP!ApplyFinalVerdict, V!VerdictIgnored, VP!VerdictIgnored,
       V!Close, VP!Close, V!Credit, VP!Credit, V!Consequence, VP!Consequence,
       V!VerdictApplied, VP!VerdictApplied, V!RELEASE_PROVIDER, VP!RELEASE_PROVIDER,
       V!PROVIDER_BREACH, VP!PROVIDER_BREACH, V!TopLevel, VP!TopLevel, V!vars, VP!vars
  <2> QED BY <1>1, <1>4, <2>1 DEF DeliverVerdict, VP!ControllerMessage, VP!Rule
<1> QED BY <1>2, <1>3, <1>4

\* The accounts' own calls to the Vault are those of its module.
LEMMA AccountActions == VaultCall => VP!Next
<1>1. \A h \in Handoff : V!AccountCall(h) => VP!AccountCall(h)
  BY DEF V!AccountCall, VP!AccountCall, V!FundHandoff, VP!FundHandoff, V!PostBond, VP!PostBond,
     V!RecoverUnactivated, VP!RecoverUnactivated, V!RecoverActive, VP!RecoverActive,
     V!Close, VP!Close, V!Credit, VP!Credit, V!EscrowRecovered, VP!EscrowRecovered
<1>2. \A a : V!Withdraw(a) => VP!Withdraw(a)
  BY DEF V!Withdraw, VP!Withdraw, V!NonReentrant, VP!NonReentrant, V!Saved, VP!Saved
<1>3. /\ V!WithdrawReturns => VP!WithdrawReturns
      /\ V!WithdrawReverts => VP!WithdrawReverts
  BY DEF V!WithdrawReturns, VP!WithdrawReturns, V!WithdrawReverts, VP!WithdrawReverts
<1>4. Withdrawers \subseteq Account
  BY SystemAssumption
<1> QED BY <1>1, <1>2, <1>3, <1>4 DEF VaultCall, VP!Next

-----------------------------------------------------------------------------
\* What a step does in each part.
LEMMA StepInParts ==
    ASSUME DInv, [Next]_vars
    PROVE  [VP!Next]_(VP!vars) /\ [RP!Next]_(RP!vars) /\ (RP!TypeOK => [AP!Next]_(AP!vars))
<1>1. /\ now' = now /\ UNCHANGED vaultVars => UNCHANGED VP!vars
      /\ now' = now /\ UNCHANGED registryVars /\ RegistryNet' = RegistryNet => UNCHANGED RP!vars
      /\ now' = now /\ UNCHANGED adjudicatorVars /\ VerdictNet' = VerdictNet => UNCHANGED AP!vars
  BY DEF vaultVars, VP!vars, registryVars, RP!vars, RP!registryVars, adjudicatorVars, AP!vars,
     AP!adjudicatorVars
<1>2. net' = net => RegistryNet' = RegistryNet /\ VerdictNet' = VerdictNet
  BY SendersMessages
<1>3. CASE Tick
  <2>1. VP!Tick
    BY <1>3 DEF Tick, V!Tick, VP!Tick, V!TopLevel, VP!TopLevel
  <2>2. RP!Tick /\ AP!Tick
    BY <1>2, <1>3 DEF Tick, V!Tick, RP!Tick, AP!Tick, registryVars, RP!registryVars,
       adjudicatorVars, AP!adjudicatorVars
  <2> QED BY <2>1, <2>2 DEF VP!Next, RP!Next, AP!Next
<1>4. CASE RegistryCall
  <2>1. now' = now /\ UNCHANGED <<adjudicatorVars, vaultVars>>
    BY <1>4 DEF RegistryCall, R!RegistryStep, R!BindAdjudicator, R!BindVault,
       R!ActivateWorkflow, R!CloseWorkflow, R!RegisterHandoffInVault, R!SubmitHandoffDelivery,
       R!AcceptHandoffDelivery, R!RetryHandoffCompletion, R!OpenCase, R!RetryCaseInitialization
  <2> QED BY <1>1, <1>4, <2>1, RegistryActions DEF RP!Next
<1>5. CASE AdjudicatorCall
  <2>1. UNCHANGED <<registryVars, vaultVars>>
    BY <1>5 DEF AdjudicatorCall
  <2>2. now' = now
    <3>1. \A c, x : /\ A!RecoverCase(c) => now' = now
                    /\ A!RecoverAgain(c) => now' = now
                    /\ A!QueueSettlement(c, x) => now' = now
      BY DEF A!RecoverCase, A!RecoverAgain, A!QueueSettlement
    <3>2. \A c, who, x : /\ A!SubmitResponse(c, who) => now' = now
                         /\ A!MarkRevisionReady(c, who) => now' = now
                         /\ A!RetryCurrentRevision(c, who) => now' = now
                         /\ A!BeginRevision(c, who, x) => now' = now
      BY DEF A!SubmitResponse, A!MarkRevisionReady, A!RetryCurrentRevision, A!BeginRevision
    <3>3. \A c, who, x, v, f : A!RegisterEvidence(c, who, x, v, f) => now' = now
      BY DEF A!RegisterEvidence
    <3> QED BY <1>5, <3>1, <3>2, <3>3 DEF AdjudicatorCall, A!AdjudicatorStep, A!BindVault
  <2> QED BY <1>1, <1>5, <2>1, <2>2, AdjudicatorActions DEF AP!Next
<1>6. CASE VaultCall
  <2>1. now' = now
    BY <1>6 DEF VaultCall, V!AccountCall, V!FundHandoff, V!PostBond, V!RecoverUnactivated,
       V!RecoverActive, V!Withdraw, V!WithdrawReturns, V!WithdrawReverts
  <2> QED BY <1>1, <1>2, <1>6, <2>1, AccountActions DEF VaultCall
<1>7. ASSUME NEW h \in Handoff, NEW who \in Account, RepairDelivery(h, who)
      PROVE  [VP!Next]_(VP!vars) /\ [RP!Next]_(RP!vars) /\ (RP!TypeOK => [AP!Next]_(AP!vars))
  BY <1>1, <1>7, RepairAction DEF RepairDelivery, RP!Next
<1>8. ASSUME NEW h \in Handoff, ResolveCase(h)
      PROVE  [VP!Next]_(VP!vars) /\ [RP!Next]_(RP!vars) /\ (RP!TypeOK => [AP!Next]_(AP!vars))
  <2>1. RP!TypeOK => version[h] \in Nat
    BY DEF RP!TypeOK
  <2>2. AP!ResolveCase(h, version[h]) /\ UNCHANGED <<now, RegistryNet, VerdictNet>>
    BY <1>8, ReviewAction DEF ResolveCase
  <2> QED BY <1>1, <1>8, <2>1, <2>2 DEF ResolveCase, AP!Next
<1>9. ASSUME NEW h \in Handoff, DeliverInitialize(h)
      PROVE  [VP!Next]_(VP!vars) /\ [RP!Next]_(RP!vars) /\ (RP!TypeOK => [AP!Next]_(AP!vars))
  BY <1>1, <1>9, InitializeAction DEF DeliverInitialize, AP!Next
<1>10. ASSUME NEW h \in Handoff,
              \/ DeliverRegister(h)
              \/ DeliverComplete(h)
              \/ \E r \in 1..3 : DeliverVerdict(h, r)
       PROVE  [VP!Next]_(VP!vars) /\ [RP!Next]_(RP!vars) /\ (RP!TypeOK => [AP!Next]_(AP!vars))
  <2>1. UNCHANGED <<now, net, registryVars, adjudicatorVars>>
    BY <1>10 DEF DeliverRegister, DeliverComplete, DeliverVerdict, V!RegisterHandoff,
       V!RegistrationIgnored, V!ApplyHandoffCompletion, V!CompletionIgnored,
       V!ApplyFinalVerdict, V!VerdictIgnored, V!vars
  <2> QED BY <1>1, <1>2, <1>10, <2>1, ControllerActions DEF VP!Next
<1>11. CASE UNCHANGED vars
  BY <1>1, <1>2, <1>11 DEF vars
<1> QED
  BY <1>3, <1>4, <1>5, <1>6, <1>7, <1>8, <1>9, <1>10, <1>11 DEF Next

\* The system starts with each part in its initial state.
LEMMA InitInParts == Init => VP!Init /\ RP!Init /\ AP!Init
<1> SUFFICES ASSUME Init PROVE VP!Init /\ RP!Init /\ AP!Init
  OBVIOUS
<1>1. RegistryNet = {} /\ VerdictNet = {}
  BY DEF Init, R!Init, RegistryNet, VerdictNet
<1>2. VP!Init
  BY DEF Init, V!Init, VP!Init
<1>3. RP!Init
  BY <1>1 DEF Init, R!Init, RP!Init, R!NoContext, RP!NoContext
<1>4. AP!Init
  BY <1>1 DEF Init, A!Init, AP!Init, A!NoCase, AP!NoCase, A!StableId, AP!StableId
<1> QED BY <1>2, <1>3, <1>4

\* The Registry inside the system makes the steps of HandoffRegistry only: the state
\* it is shown of a case is one that module allows for.
THEOREM RegistryIsItself == Spec => RP!Spec
<1>1. DInv /\ [Next]_vars => [RP!Next]_(RP!vars)
  BY StepInParts
<1> QED BY <1>1, InitInParts, DisputeInvariant, PTL DEF Spec, RP!Spec

\* The Vault inside the system makes the steps of EscrowVault only.
THEOREM VaultIsItself == Spec => VP!Spec
<1>1. DInv /\ [Next]_vars => [VP!Next]_(VP!vars)
  BY StepInParts
<1> QED BY <1>1, InitInParts, DisputeInvariant, PTL DEF Spec, VP!Spec

\* The Adjudicator inside the system makes the steps of CaseAdjudicator only.
THEOREM AdjudicatorIsItself == Spec => AP!Spec
<1>1. DInv /\ RP!TypeOK /\ [Next]_vars => [AP!Next]_(AP!vars)
  BY StepInParts
<1>2. RP!Spec => []RP!TypeOK
  BY RegistryAssumptions, RP!TypeCorrect
<1> QED BY <1>1, <1>2, RegistryIsItself, InitInParts, DisputeInvariant, PTL DEF Spec, AP!Spec

\* Inside the system the Vault holds at every moment what the live escrows were funded
\* with and what it still owes, and owes each account exactly what the ended escrows
\* awarded it and it has not withdrawn, whatever the two controllers send it.
THEOREM SystemIsSolvent == Spec => [](VP!Solvent /\ VP!ExactEntitlement)
<1>1. /\ VP!Spec => []VP!Solvent
      /\ VP!Spec => []VP!ExactEntitlement
  BY VaultAssumptions, VP!VaultIsSolvent, VP!EntitlementIsExact
<1> QED BY <1>1, VaultIsItself, PTL

\* Inside the system an escrow that ended never gets another ending, nor does one case
\* settle two of them.
THEOREM SystemEscrowEndsOnce ==
    Spec => [](VP!EndsOnce /\ VP!ProcessedCaseSettledOne) /\ VP!EndIsFinal
<1>1. /\ VP!Spec => []VP!EndsOnce
      /\ VP!Spec => []VP!ProcessedCaseSettledOne
      /\ VP!Spec => VP!EndIsFinal
  BY VaultAssumptions, VP!EscrowEndsOnce, VP!CaseSettlesOne, VP!EndingIsFinal
<1> QED BY <1>1, VaultIsItself, PTL

\* Inside the system a handoff's acceptance or dispute is never undone, a completion
\* names the accepted delivery, and the case ends before the escrow does.
THEOREM SystemFateIsFixed ==
    Spec => /\ RP!FateIsFixed
            /\ [](/\ RP!CompletionNamesAcceptedDelivery
                 /\ RP!CaseWithinHandoff
                 /\ RP!ClosedAfterEveryHorizon)
<1>1. /\ RP!Spec => RP!FateIsFixed
      /\ RP!Spec => []RP!CompletionNamesAcceptedDelivery
      /\ RP!Spec => [](RP!CaseWithinHandoff /\ RP!ClosedAfterEveryHorizon)
  BY RegistryAssumptions, RP!FateNeverChanges, RP!CompletionIsUnique, RP!HorizonsAreNested
<1> QED BY <1>1, RegistryIsItself, PTL

\* Inside the system evidence keeps its identity, its independence and its way into the
\* next revision, whatever the Registry hands over and shows.
THEOREM SystemEvidenceIsSound ==
    Spec => [](AP!StableIdentity /\ AP!IndependentEvidence /\ AP!CarriedForward)
<1>1. /\ AP!Spec => []AP!StableIdentity
      /\ AP!Spec => []AP!IndependentEvidence
      /\ AP!Spec => []AP!CarriedForward
  BY AdjudicatorAssumptions, AP!IdentityIsStable, AP!CitationsAreIndependent,
     AP!EvidenceIsCarried
<1> QED BY <1>1, AdjudicatorIsItself, PTL

\* Inside the system a decision is final, leaves the parties the response window, and
\* has one consequence.
THEOREM SystemDecisionIsFinal ==
    Spec => AP!DecisionIsFinal /\ AP!ResponseWindowKept /\ []AP!OneConsequence
<1>1. /\ AP!Spec => AP!DecisionIsFinal
      /\ AP!Spec => AP!ResponseWindowKept
      /\ AP!Spec => []AP!OneConsequence
  BY AdjudicatorAssumptions, AP!DecisionNeverChanges, AP!WindowIsKept, AP!ConsequenceIsUnique
<1> QED BY <1>1, AdjudicatorIsItself, PTL

-----------------------------------------------------------------------------
\* A verdict on a case that its parties could not revise any more: on the delivery
\* the Registry still shows, from the case's last revision, resting on cited evidence
\* from enough issuers and publishers, all of it fresh when the review was made.
Founded(h, v) ==
    LET revision == revisions[h][v.revision]
        cited == {evidence[e] : e \in revision.evidence}
    IN  /\ v.case = h
        /\ v.revision = Len(revisions[h])
        /\ v.delivery = version[h]
        /\ Cardinality({e.issuer : e \in cited}) >= MinIssuers
        /\ Cardinality({e.source.publisher : e \in cited}) >= MinPublishers
        /\ \A e \in cited : e.freshUntil >= v.at

\* Every consequence the Vault paid is that of a founded verdict, or the neutral one
\* of a case that was recovered undecided: no money moves on a superseded verdict, on
\* a replaced delivery or on evidence that corroborates nothing.
PaymentsFounded ==
    \A h, c \in Handoff, r \in 1..3 :
        log[h] = <<V!VerdictApplied(c, r)>> =>
            /\ c = h
            /\ \/ cases[h].status = "RECOVERED" /\ r = A!NEUTRAL_RECOVERY
               \/ /\ verdicts[cases[h].verdict].rule = r
                  /\ Founded(h, verdicts[cases[h].verdict])

\* Both count alike.
LEMMA SameCount == \A S : AP!Cardinality(S) = Cardinality(S)
BY DEF AP!Cardinality, Cardinality

\* What verdicts rest on, what they are about and what the Vault pays, together.
THEOREM PaymentsAreFounded == Spec => []PaymentsFounded
<1>1. DInv /\ SettledAsDecided /\ AP!VerdictIsCurrent /\ AP!VerdictBasis => PaymentsFounded
  <2> SUFFICES ASSUME DInv, SettledAsDecided, AP!VerdictIsCurrent, AP!VerdictBasis,
                      NEW h \in Handoff, NEW c \in Handoff, NEW r \in 1..3,
                      log[h] = <<V!VerdictApplied(c, r)>>
               PROVE  /\ c = h
                      /\ \/ cases[h].status = "RECOVERED" /\ r = A!NEUTRAL_RECOVERY
                         \/ /\ verdicts[cases[h].verdict].rule = r
                            /\ Founded(h, verdicts[cases[h].verdict])
    BY DEF PaymentsFounded
  <2>1. /\ c = h
        /\ \/ cases[h].queued /\ r = verdicts[cases[h].verdict].rule
           \/ cases[h].status = "RECOVERED" /\ r = A!NEUTRAL_RECOVERY
    BY DEF SettledAsDecided
  <2>2. CASE cases[h].queued
    <3> DEFINE i == cases[h].verdict
               v == verdicts[i]
    <3>1. cases[h].status = "REVIEWED" /\ i \in DOMAIN verdicts /\ v.delivery = version[h]
      BY <2>2 DEF DInv, FatesSound, CasesSound, CaseSound
    <3>2. v.case = h /\ v.revision = Len(revisions[h])
      BY <3>1 DEF AP!VerdictIsCurrent, AP!Current
    <3>3. \A n : n \in DOMAIN verdicts =>
             LET revision == revisions[verdicts[n].case][verdicts[n].revision]
                 cited == {evidence[e] : e \in revision.evidence}
             IN  /\ Cardinality({e.issuer : e \in cited}) >= MinIssuers
                 /\ Cardinality({e.source.publisher : e \in cited}) >= MinPublishers
                 /\ \A e \in cited : e.freshUntil >= verdicts[n].at
      BY SameCount DEF AP!VerdictBasis
    <3>4. Founded(h, v)
      BY <3>1, <3>2, <3>3 DEF Founded
    <3> QED BY <2>1, <3>4
  <2> QED BY <2>1, <2>2
<1>2. /\ AP!Spec => []AP!VerdictIsCurrent
      /\ AP!Spec => []AP!VerdictBasis
  BY AdjudicatorAssumptions, AP!VerdictAlwaysCurrent, AP!VerdictsAreFounded
<1> QED BY <1>1, <1>2, AdjudicatorIsItself, DisputeInvariant, PaidAsDecided, PTL
=============================================================================
