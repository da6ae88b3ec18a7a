-------------------------- MODULE CoreSystemProofs --------------------------
(***************************************************************************)
(* The single contract and its Vault keep the promise of SettlementPromise *)
(* and copy back no status that is not final, for every number of          *)
(* handoffs, accounts, records and revisions: for that only who decided    *)
(* what is needed, and that a decision and an ending are made once.        *)
(*                                                                         *)
(* Then the contract is seen as its parts: its cases refine                *)
(* CaseAdjudicator, its draft WorkflowSetup and its Vault EscrowVault, so  *)
(* what is proved of those modules holds here, and what relates the parts  *)
(* follows: a payment rests on a founded verdict, an escrow on the draft.  *)
(***************************************************************************)
EXTENDS CoreSystem, TLAPS

\* The case of h is decided for rule r: by the queued verdict, or by recovery.
DecidedFor(h, r) ==
    \/ cases[h].queued /\ r = verdicts[cases[h].verdict].rule
    \/ ~cases[h].queued /\ cases[h].status = "RECOVERED" /\ r = A!NEUTRAL_RECOVERY

\* What is known of a case is read from these fields.
Field == {"status", "queued", "verdict"}

Typed ==
    /\ now \in Nat \ {0}
    /\ acceptedAt \in [Handoff -> Nat]
    /\ DOMAIN cases = Handoff
    /\ \A h \in Handoff : Field \subseteq DOMAIN cases[h]
    /\ \E S : verdicts \in Seq(S)
    /\ \A i \in DOMAIN verdicts : verdicts[i].rule \in 1..3
    /\ \E S : handoffs \in Seq(S)
    /\ DOMAIN handoffs \subseteq Handoff

\* A queued case was reviewed, and keeps its verdict when the Vault's final status
\* is copied over the case's own; an accepted handoff has no case.
CaseSound(h) ==
    /\ cases[h].queued =>
          /\ cases[h].status \in {"REVIEWED", "SETTLED", "RECOVERED"}
          /\ cases[h].verdict \in DOMAIN verdicts
    /\ R!Accepted(h) => cases[h].status = "NONE"
CasesSound == \A h \in Handoff : CaseSound(h)

\* Every message under way has its reason.
InstructionsSound ==
    \A h \in Handoff : \A x :
        /\ R!Complete(h, x) \in net => R!Accepted(h)
        /\ A!ApplyVerdict(h, x) \in net => DecidedFor(h, x)

FatesSound == Typed /\ CasesSound /\ InstructionsSound

\* What is settled between the parties stays so.
Persists ==
    \A h \in Handoff :
        /\ R!Accepted(h) => R!Accepted(h)'
        /\ cases[h].queued => cases'[h].queued
        /\ \A r : DecidedFor(h, r) => DecidedFor(h, r)'

\* What the promise sees of a handoff's fate.
FateOf(h) ==
    IF R!Accepted(h) THEN "accepted"
    ELSE IF cases[h].queued THEN RuleName[verdicts[cases[h].verdict].rule]
    ELSE IF cases[h].status = "RECOVERED" THEN "neutral"
    ELSE IF cases[h].status # "NONE" THEN "disputed"
    ELSE "open"
SameFates == \A h \in Handoff : FateOf(h)' = FateOf(h)

\* Handoff h moves from one fate to another, the others keep theirs.
Moves(h, from, to) ==
    /\ FateOf(h) = from
    /\ FateOf(h)' = to
    /\ \A k \in Handoff \ {h} : FateOf(k)' = FateOf(k)
Progress ==
    \/ SameFates
    \/ \E h \in Handoff :
        \/ Moves(h, "open", "accepted")
        \/ Moves(h, "open", "disputed")
        \/ \E c \in P!Consequence : Moves(h, "disputed", c)

-----------------------------------------------------------------------------
(* Messages.                                                               *)

\* A step that sends nothing, or one message with its reason.
LEMMA NothingSent ==
    ASSUME InstructionsSound, Persists, net' = net
    PROVE  InstructionsSound'
BY DEF InstructionsSound, Persists

LEMMA MessageSent ==
    ASSUME InstructionsSound, Persists, NEW k \in Handoff, NEW m, net' = net \cup {m},
           \/ m = R!Register(k)
           \/ \E v : m = R!Complete(k, v) /\ R!Accepted(k)'
           \/ \E r : m = A!ApplyVerdict(k, r) /\ DecidedFor(k, r)'
    PROVE  InstructionsSound'
<1> SUFFICES ASSUME NEW h \in Handoff, NEW x
             PROVE  /\ R!Complete(h, x) \in net' => R!Accepted(h)'
                    /\ A!ApplyVerdict(h, x) \in net' => DecidedFor(h, x)'
  BY DEF InstructionsSound
<1>1. /\ R!Complete(h, x) \in net => R!Accepted(h)'
      /\ A!ApplyVerdict(h, x) \in net => DecidedFor(h, x)'
  BY DEF InstructionsSound, Persists
<1>2. /\ R!Complete(h, x) = m => R!Accepted(h)'
      /\ A!ApplyVerdict(h, x) = m => DecidedFor(h, x)'
  <2>1. \A v : /\ R!Complete(h, v).type = "complete" /\ R!Complete(h, v).handoff = h
               /\ A!ApplyVerdict(h, v).type = "verdict" /\ A!ApplyVerdict(h, v).handoff = h
               /\ A!ApplyVerdict(h, v).rule = v
    BY DEF R!Complete, A!ApplyVerdict
  <2>2. \A v : /\ R!Register(k).type = "register"
               /\ R!Complete(k, v).type = "complete" /\ R!Complete(k, v).handoff = k
               /\ A!ApplyVerdict(k, v).type = "verdict" /\ A!ApplyVerdict(k, v).handoff = k
               /\ A!ApplyVerdict(k, v).rule = v
    BY DEF R!Register, R!Complete, A!ApplyVerdict
  <2> QED BY <2>1, <2>2
<1> QED BY <1>1, <1>2

-----------------------------------------------------------------------------
(* Deliveries and acceptance.                                              *)

\* A step that leaves acceptances, cases and verdicts alone.
LEMMA FatesRest ==
    ASSUME FatesSound, UNCHANGED <<acceptedAt, cases, verdicts, handoffs>>,
           now' \in Nat \ {0}
    PROVE  Persists /\ SameFates /\ Typed' /\ CasesSound'
<1>1. Typed'
  BY DEF FatesSound, Typed
<1>2. CasesSound'
  BY DEF FatesSound, CasesSound, CaseSound, R!Accepted
<1>3. Persists
  BY DEF Persists, R!Accepted, DecidedFor
<1>4. SameFates
  BY DEF SameFates, FateOf, R!Accepted
<1> QED BY <1>1, <1>2, <1>3, <1>4

LEMMA AcceptKept ==
    ASSUME FatesSound, NEW h \in Handoff, NEW who, R!AcceptHandoffDelivery(h, who),
           UNCHANGED <<cases, verdicts, handoffs>>
    PROVE  FatesSound' /\ Persists /\ Moves(h, "open", "accepted")
<1> USE DEF FatesSound, Typed
<1>1. /\ ~R!Accepted(h) /\ cases[h].status = "NONE"
      /\ acceptedAt' = [acceptedAt EXCEPT ![h] = now]
      /\ now' = now
  BY DEF R!AcceptHandoffDelivery, R!Undecided, R!HasCase, R!NoContext
<1>2. /\ R!Accepted(h)'
      /\ \A k \in Handoff : k # h => R!Accepted(k)' = R!Accepted(k)
  BY <1>1 DEF R!Accepted
<1>3. ~cases[h].queued
  BY <1>1 DEF CasesSound, CaseSound
<1>4. Moves(h, "open", "accepted")
  BY <1>1, <1>2, <1>3 DEF Moves, FateOf
<1>5. Persists
  BY <1>1, <1>2 DEF Persists, DecidedFor
<1>6. Typed'
  BY <1>1
<1>7. CasesSound'
  BY <1>1, <1>2 DEF CasesSound, CaseSound
<1>8. InstructionsSound'
  <2>1. CASE net' = net
    BY <1>5, <2>1, NothingSent
  <2>2. CASE net' = net \cup {R!Complete(h, version[h])}
    BY <1>2, <1>5, <2>2, MessageSent
  <2> QED BY <2>1, <2>2 DEF R!AcceptHandoffDelivery, R!Emit
<1> QED BY <1>4, <1>5, <1>6, <1>7, <1>8

\* The calls about a handoff, but for the acceptance, decide nothing.
LEMMA DeliveryKept ==
    ASSUME FatesSound, NEW h \in Handoff, NEW who,
           \/ RegisterHandoffInVault(h)
           \/ SubmitHandoffDelivery(h, who)
           \/ RetryHandoffCompletion(h, who)
           \/ RepairHandoffDelivery(h, who)
           \/ SyncHandoffVaultStatus(h, who),
           UNCHANGED <<cases, verdicts, handoffs>>
    PROVE  FatesSound' /\ Persists /\ SameFates
<1>1. CASE \/ SubmitHandoffDelivery(h, who)
           \/ RepairHandoffDelivery(h, who)
           \/ SyncHandoffVaultStatus(h, who)
  <2>1. UNCHANGED <<now, net, acceptedAt>>
    BY <1>1 DEF SubmitHandoffDelivery, R!SubmitHandoffDelivery, RepairHandoffDelivery,
       R!RepairHandoffDelivery, SyncHandoffVaultStatus, handoffVars
  <2>2. Persists /\ SameFates /\ Typed' /\ CasesSound'
    BY <2>1, FatesRest DEF FatesSound, Typed
  <2> QED BY <2>1, <2>2, NothingSent DEF FatesSound
<1>2. CASE RegisterHandoffInVault(h) \/ RetryHandoffCompletion(h, who)
  <2>1. UNCHANGED <<now, acceptedAt>>
    BY <1>2 DEF RegisterHandoffInVault, R!RegisterHandoffInVault, RetryHandoffCompletion,
       R!RetryHandoffCompletion, R!registryVars
  <2>2. Persists /\ SameFates /\ Typed' /\ CasesSound'
    BY <2>1, FatesRest DEF FatesSound, Typed
  <2>3. R!Accepted(h) => R!Accepted(h)'
    BY <2>2 DEF Persists
  <2>4. CASE RegisterHandoffInVault(h)
    <3>1. net' = net \cup {R!Register(h)}
      BY <2>4 DEF RegisterHandoffInVault, R!RegisterHandoffInVault, R!Emit
    <3> QED BY <2>2, <3>1, MessageSent DEF FatesSound
  <2>5. CASE RetryHandoffCompletion(h, who)
    <3>1. net' = net \cup {R!Complete(h, version[h])} /\ R!Accepted(h)
      BY <2>5 DEF RetryHandoffCompletion, R!RetryHandoffCompletion, R!Emit
    <3> QED BY <2>2, <2>3, <3>1, MessageSent DEF FatesSound
  <2> QED BY <1>2, <2>2, <2>4, <2>5 DEF FatesSound
<1> QED BY <1>1, <1>2

-----------------------------------------------------------------------------
(* Cases.                                                                  *)

\* The log of verdicts stays, or grows by one.
LEMMA VerdictAppended ==
    ASSUME NEW S, NEW q \in Seq(S), NEW v
    PROVE  /\ Append(q, v) \in Seq(S \cup {v})
           /\ Len(q) \in Nat /\ DOMAIN q = 1..Len(q)
           /\ DOMAIN Append(q, v) = 1..(Len(q) + 1)
           /\ Append(q, v)[Len(q) + 1] = v
           /\ \A i \in DOMAIN q : i \in DOMAIN Append(q, v) /\ Append(q, v)[i] = q[i]
<1>1. q \in Seq(S \cup {v}) /\ v \in S \cup {v}
  OBVIOUS
<1>2. Append(q, v) \in Seq(S \cup {v}) /\ Len(Append(q, v)) = Len(q) + 1 /\ Len(q) \in Nat
  BY <1>1
<1>3. \A i \in 1..Len(q) : Append(q, v)[i] = q[i]
  BY <1>1
<1>4. Append(q, v)[Len(q) + 1] = v
  BY <1>1
<1>5. DOMAIN q = 1..Len(q) /\ DOMAIN Append(q, v) = 1..(Len(q) + 1)
  BY <1>1, <1>2
<1> QED BY <1>2, <1>3, <1>4, <1>5

VerdictsKept ==
    /\ \E S : verdicts' \in Seq(S)
    /\ \A i \in DOMAIN verdicts' : verdicts'[i].rule \in 1..3
    /\ \A i \in DOMAIN verdicts : i \in DOMAIN verdicts' /\ verdicts'[i] = verdicts[i]

LEMMA RecordingKeeps ==
    ASSUME Typed, verdicts' = verdicts \/ \E v : v.rule \in 1..3 /\ verdicts' = Append(verdicts, v)
    PROVE  VerdictsKept
<1>1. PICK S : verdicts \in Seq(S)
  BY DEF Typed
<1>2. CASE verdicts' = verdicts
  BY <1>1, <1>2 DEF Typed, VerdictsKept
<1>3. ASSUME NEW v, v.rule \in 1..3, verdicts' = Append(verdicts, v)
      PROVE  VerdictsKept
  <2>1. /\ verdicts' \in Seq(S \cup {v})
        /\ Len(verdicts) \in Nat /\ DOMAIN verdicts = 1..Len(verdicts)
        /\ DOMAIN verdicts' = 1..(Len(verdicts) + 1) /\ verdicts'[Len(verdicts) + 1] = v
        /\ \A i \in DOMAIN verdicts : i \in DOMAIN verdicts' /\ verdicts'[i] = verdicts[i]
    BY <1>1, <1>3, VerdictAppended
  <2>2. \A i \in DOMAIN verdicts' : i \in DOMAIN verdicts \/ i = Len(verdicts) + 1
    BY <2>1
  <2> QED BY <1>3, <2>1, <2>2 DEF Typed, VerdictsKept
<1> QED BY <1>2, <1>3

\* A step on the case of h leaves what is known of the other handoffs.
LEMMA OtherCases ==
    ASSUME FatesSound, NEW h \in Handoff, NEW new, Field \subseteq DOMAIN new,
           cases' = [cases EXCEPT ![h] = new], VerdictsKept,
           UNCHANGED <<now, acceptedAt, handoffs>>
    PROVE  /\ Typed' /\ cases'[h] = new
           /\ \A k \in Handoff : R!Accepted(k)' = R!Accepted(k)
           /\ \A k \in Handoff \ {h} :
                /\ cases'[k] = cases[k]
                /\ CaseSound(k)'
                /\ FateOf(k)' = FateOf(k)
                /\ \A r : DecidedFor(k, r)' <=> DecidedFor(k, r)
<1>1. /\ DOMAIN cases' = Handoff /\ cases'[h] = new
      /\ \A k \in Handoff \ {h} : cases'[k] = cases[k]
      /\ \A k \in Handoff : R!Accepted(k)' = R!Accepted(k)
  BY DEF FatesSound, Typed, R!Accepted
<1>2. Typed'
  BY <1>1 DEF FatesSound, Typed, VerdictsKept
<1>3. ASSUME NEW k \in Handoff \ {h}
      PROVE  /\ CaseSound(k)'
             /\ FateOf(k)' = FateOf(k)
             /\ \A r : DecidedFor(k, r)' <=> DecidedFor(k, r)
  <2>1. /\ CaseSound(k)
        /\ cases[k].verdict \in DOMAIN verdicts =>
              /\ cases[k].verdict \in DOMAIN verdicts'
              /\ verdicts'[cases[k].verdict] = verdicts[cases[k].verdict]
    BY DEF FatesSound, CasesSound, VerdictsKept
  <2>2. CaseSound(k)'
    BY <1>1, <2>1 DEF CaseSound
  <2>3. FateOf(k)' = FateOf(k)
    BY <1>1, <2>1 DEF CaseSound, FateOf
  <2>4. \A r : DecidedFor(k, r)' <=> DecidedFor(k, r)
    BY <1>1, <2>1 DEF CaseSound, DecidedFor
  <2> QED BY <2>2, <2>3, <2>4
<1> QED BY <1>1, <1>2, <1>3

\* The work on an undecided case decides nothing, and neither does the copy of the
\* Vault's final status over a queued one.
LEMMA WorkKept ==
    ASSUME FatesSound, NEW h \in Handoff, NEW new, Field \subseteq DOMAIN new,
           cases' = [cases EXCEPT ![h] = new],
           verdicts' = verdicts \/ \E v : v.rule \in 1..3 /\ verdicts' = Append(verdicts, v),
           \/ /\ ~cases[h].queued /\ cases[h].status \notin {"NONE", "RECOVERED"}
              /\ ~new.queued /\ new.status \notin {"NONE", "RECOVERED"}
           \/ /\ cases[h].queued
              /\ new.queued = cases[h].queued /\ new.verdict = cases[h].verdict
              /\ new.status \in {"SETTLED", "RECOVERED"},
           UNCHANGED <<now, net, acceptedAt, handoffs>>
    PROVE  FatesSound' /\ Persists /\ SameFates
<1>1. VerdictsKept
  BY RecordingKeeps DEF FatesSound
<1>2. /\ Typed' /\ cases'[h] = new
      /\ \A k \in Handoff : R!Accepted(k)' = R!Accepted(k)
      /\ \A k \in Handoff \ {h} :
            /\ cases'[k] = cases[k]
            /\ CaseSound(k)'
            /\ FateOf(k)' = FateOf(k)
            /\ \A r : DecidedFor(k, r)' <=> DecidedFor(k, r)
  BY <1>1, OtherCases
<1>3. /\ CaseSound(h) /\ ~R!Accepted(h)
      /\ cases[h].queued => verdicts'[cases[h].verdict] = verdicts[cases[h].verdict]
                            /\ cases[h].verdict \in DOMAIN verdicts'
  BY <1>1 DEF FatesSound, CasesSound, CaseSound, VerdictsKept
<1>4. CasesSound'
  <2>1. CaseSound(h)'
    BY <1>2, <1>3 DEF CaseSound
  <2> QED BY <1>2, <2>1 DEF CasesSound
<1>5. SameFates
  <2>1. FateOf(h)' = FateOf(h)
    BY <1>2, <1>3 DEF FateOf
  <2> QED BY <1>2, <2>1 DEF SameFates
<1>6. Persists
  <2>1. ASSUME NEW r, DecidedFor(h, r) PROVE DecidedFor(h, r)'
    BY <1>2, <1>3, <2>1 DEF DecidedFor
  <2>2. cases[h].queued => cases'[h].queued
    BY <1>2
  <2> QED BY <1>2, <2>1, <2>2 DEF Persists
<1>7. InstructionsSound'
  BY <1>6, NothingSent DEF FatesSound
<1> QED BY <1>2, <1>4, <1>5, <1>6, <1>7 DEF FatesSound

\* A decision: the only step that changes what the case of h is to end with.
LEMMA DecisionKept ==
    ASSUME FatesSound, NEW h \in Handoff, NEW new, NEW r \in 1..3,
           Field \subseteq DOMAIN new, cases' = [cases EXCEPT ![h] = new],
           cases[h].status \in {"OPEN", "REPAIR_REQUIRED", "REVIEWED"}, ~cases[h].queued,
           \/ /\ new.status = "REVIEWED" /\ new.queued
              /\ new.verdict \in DOMAIN verdicts /\ r = verdicts[new.verdict].rule
           \/ new.status = "RECOVERED" /\ ~new.queued /\ r = A!NEUTRAL_RECOVERY,
           net' = net \/ net' = net \cup {A!ApplyVerdict(h, r)},
           UNCHANGED <<now, acceptedAt, handoffs, verdicts>>
    PROVE  FatesSound' /\ Persists /\ Moves(h, "disputed", RuleName[r])
<1>1. VerdictsKept
  BY RecordingKeeps DEF FatesSound
<1>2. /\ Typed' /\ cases'[h] = new
      /\ \A k \in Handoff : R!Accepted(k)' = R!Accepted(k)
      /\ \A k \in Handoff \ {h} :
            /\ cases'[k] = cases[k]
            /\ CaseSound(k)'
            /\ FateOf(k)' = FateOf(k)
            /\ \A x : DecidedFor(k, x)' <=> DecidedFor(k, x)
  BY <1>1, OtherCases
<1>3. ~R!Accepted(h)
  BY DEF FatesSound, CasesSound, CaseSound
<1>4. CasesSound'
  <2>1. CaseSound(h)'
    BY <1>2, <1>3 DEF CaseSound
  <2> QED BY <1>2, <2>1 DEF CasesSound
<1>5. RuleName[A!NEUTRAL_RECOVERY] = "neutral"
  BY DEF RuleName, A!NEUTRAL_RECOVERY
<1>6. Moves(h, "disputed", RuleName[r])
  <2>1. FateOf(h) = "disputed"
    BY <1>3 DEF FateOf
  <2>2. FateOf(h)' = RuleName[r]
    BY <1>2, <1>3, <1>5 DEF FateOf
  <2> QED BY <1>2, <2>1, <2>2 DEF Moves
<1>7. DecidedFor(h, r)'
  BY <1>2 DEF DecidedFor
<1>8. Persists
  <2>1. \A x : ~DecidedFor(h, x)
    BY DEF DecidedFor
  <2> QED BY <1>2, <2>1 DEF Persists
<1>9. InstructionsSound'
  <2>1. CASE net' = net
    BY <1>8, <2>1, NothingSent DEF FatesSound
  <2>2. CASE net' = net \cup {A!ApplyVerdict(h, r)}
    BY <1>7, <1>8, <2>2, MessageSent DEF FatesSound
  <2> QED BY <2>1, <2>2
<1> QED BY <1>2, <1>4, <1>6, <1>8, <1>9 DEF FatesSound

\* The case is opened in the transaction that disputes the handoff.
LEMMA OpenKept ==
    ASSUME FatesSound, NEW h \in Handoff, NEW who, OpenCase(h, who),
           UNCHANGED <<acceptedAt, handoffs>>
    PROVE  FatesSound' /\ Persists /\ Moves(h, "open", "disputed")
<1> DEFINE new == [A!NoCase EXCEPT !.status = "OPEN",
                                   !.responseDeadline = now + OwnerPolicy.responseWindow,
                                   !.recoveryDeadline = now + OwnerPolicy.reviewRecovery]
<1>1. /\ ~R!Accepted(h) /\ cases[h].status = "NONE"
      /\ cases' = [cases EXCEPT ![h] = new]
      /\ UNCHANGED <<now, net, verdicts>>
  BY DEF OpenCase, R!Undecided, A!InitializeCase
<1>2. Field \subseteq DOMAIN new /\ new.status = "OPEN" /\ ~new.queued
  BY DEF A!NoCase, Field
<1> HIDE DEF new
<1>3. VerdictsKept
  BY <1>1, RecordingKeeps DEF FatesSound
<1>4. /\ Typed' /\ cases'[h] = new
      /\ \A k \in Handoff : R!Accepted(k)' = R!Accepted(k)
      /\ \A k \in Handoff \ {h} :
            /\ cases'[k] = cases[k]
            /\ CaseSound(k)'
            /\ FateOf(k)' = FateOf(k)
            /\ \A x : DecidedFor(k, x)' <=> DecidedFor(k, x)
  BY <1>1, <1>2, <1>3, OtherCases
<1>5. ~cases[h].queued
  BY <1>1 DEF FatesSound, CasesSound, CaseSound
<1>6. CasesSound'
  <2>1. CaseSound(h)'
    BY <1>1, <1>2, <1>4 DEF CaseSound
  <2> QED BY <1>4, <2>1 DEF CasesSound
<1>7. Moves(h, "open", "disputed")
  BY <1>1, <1>2, <1>4, <1>5 DEF Moves, FateOf
<1>8. Persists
  <2>1. \A x : ~DecidedFor(h, x)
    BY <1>1, <1>5 DEF DecidedFor
  <2> QED BY <1>4, <1>5, <2>1 DEF Persists
<1>9. InstructionsSound'
  BY <1>1, <1>8, NothingSent DEF FatesSound
<1> QED BY <1>4, <1>6, <1>7, <1>8, <1>9 DEF FatesSound

LEMMA CaseFields ==
    ASSUME FatesSound, NEW h \in Handoff
    PROVE  /\ {"status", "queued", "verdict"} \subseteq DOMAIN cases[h]
           /\ CaseSound(h)
           /\ cases[h].queued => cases[h].status \in {"REVIEWED", "SETTLED", "RECOVERED"}
BY DEF FatesSound, Typed, Field, CasesSound, CaseSound

\* The responses, retries and revisions of the parties.
LEMMA CollectKept ==
    ASSUME FatesSound, NEW h \in Handoff, NEW who,
           \/ A!SubmitResponse(h, who) \/ A!MarkRevisionReady(h, who)
           \/ A!RetryCurrentRevision(h, who)
           \/ \E response \in BOOLEAN : A!BeginRevision(h, who, response),
           UNCHANGED <<acceptedAt, handoffs>>
    PROVE  FatesSound' /\ Persists /\ SameFates
<1>1. ASSUME NEW new, Field \subseteq DOMAIN new, cases' = [cases EXCEPT ![h] = new],
             cases[h].status \in {"OPEN", "REPAIR_REQUIRED", "REVIEWED"}, ~cases[h].queued,
             new.status = "OPEN", ~new.queued, UNCHANGED <<now, net, verdicts>>
      PROVE  FatesSound' /\ Persists /\ SameFates
  BY <1>1, WorkKept
<1> USE CaseFields DEF Field
<1>2. CASE A!SubmitResponse(h, who)
  <2> DEFINE new == [cases[h] EXCEPT !.response = TRUE]
  <2>1. Field \subseteq DOMAIN new /\ new.status = cases[h].status /\ new.queued = cases[h].queued
    OBVIOUS
  <2>2. /\ cases[h].status = "OPEN" /\ cases' = [cases EXCEPT ![h] = new]
        /\ UNCHANGED <<now, net, verdicts>>
    BY <1>2 DEF A!SubmitResponse
  <2> HIDE DEF new
  <2> QED BY <1>1, <2>1, <2>2
<1>3. CASE A!MarkRevisionReady(h, who)
  <2> DEFINE new == [cases[h] EXCEPT !.ready = @ \cup {who}]
  <2>1. Field \subseteq DOMAIN new /\ new.status = cases[h].status /\ new.queued = cases[h].queued
    OBVIOUS
  <2>2. /\ cases[h].status = "OPEN" /\ cases' = [cases EXCEPT ![h] = new]
        /\ UNCHANGED <<now, net, verdicts>>
    BY <1>3 DEF A!MarkRevisionReady
  <2> HIDE DEF new
  <2> QED BY <1>1, <2>1, <2>2
<1>4. CASE A!RetryCurrentRevision(h, who)
  <2> DEFINE new == [cases[h] EXCEPT !.status = "OPEN", !.failure = "",
                                     !.repairDeadline = 0, !.responseDeadline = now]
  <2>1. Field \subseteq DOMAIN new /\ new.status = "OPEN" /\ new.queued = cases[h].queued
    OBVIOUS
  <2>2. /\ cases[h].status = "REPAIR_REQUIRED" /\ cases' = [cases EXCEPT ![h] = new]
        /\ UNCHANGED <<now, net, verdicts>>
    BY <1>4 DEF A!RetryCurrentRevision
  <2> HIDE DEF new
  <2> QED BY <1>1, <2>1, <2>2
<1>5. ASSUME NEW response \in BOOLEAN, A!BeginRevision(h, who, response)
      PROVE  FatesSound' /\ Persists /\ SameFates
  <2> DEFINE new == [cases[h] EXCEPT !.status = "OPEN", !.verdict = 0,
              !.settlementEarliestAt = 0, !.queued = FALSE,
              !.responseDeadline = now + ResponseWindow, !.repairDeadline = 0,
              !.response = response, !.ready = {}, !.failure = ""]
  <2>1. Field \subseteq DOMAIN new /\ new.status = "OPEN" /\ ~new.queued
    OBVIOUS
  <2>2. /\ cases[h].status \in {"REVIEWED", "REPAIR_REQUIRED"} /\ ~cases[h].queued
        /\ cases' = [cases EXCEPT ![h] = new] /\ UNCHANGED <<now, net, verdicts>>
    BY <1>5 DEF A!BeginRevision, A!Revisable
  <2> HIDE DEF new
  <2> QED BY <1>1, <2>1, <2>2
<1> QED BY <1>2, <1>3, <1>4, <1>5

\* A registered criterion leads to breach or neutral recovery.
LEMMA ReviewRules == \A r \in A!ReviewRule : r \in 1..3
<1>1. BreachRule \subseteq {2, 3}
  BY CoreAssumption DEF A!PolicyAssumption
<1> QED BY <1>1 DEF A!ReviewRule, A!RELEASE_PROVIDER, A!NEUTRAL_RECOVERY

\* The review decides nothing yet, whatever it finds.
LEMMA ReviewKept ==
    ASSUME FatesSound, NEW h \in Handoff, ResolveCase(h), UNCHANGED <<acceptedAt, handoffs>>
    PROVE  FatesSound' /\ Persists /\ SameFates
<1> USE CaseFields DEF Field
<1>1. /\ cases[h].status = "OPEN" /\ ~cases[h].queued /\ UNCHANGED <<now, net>>
  BY DEF ResolveCase, A!Reviewable
<1>2. ASSUME NEW code, NEW e, A!RequireRepair(h, code, e)
      PROVE  FatesSound' /\ Persists /\ SameFates
  <2> DEFINE new == [cases[h] EXCEPT !.status = "REPAIR_REQUIRED", !.failure = code,
                !.repairDeadline = A!Least(now + OwnerPolicy.repairWindow,
                                           cases[h].recoveryDeadline)]
  <2>1. Field \subseteq DOMAIN new /\ new.status = "REPAIR_REQUIRED" /\ ~new.queued
    BY <1>1
  <2>2. cases' = [cases EXCEPT ![h] = new] /\ verdicts' = verdicts
    BY <1>2 DEF A!RequireRepair
  <2> HIDE DEF new
  <2> QED BY <1>1, <2>1, <2>2, WorkKept
<1>3. ASSUME NEW r \in A!ReviewRule, A!RecordVerdict(h, r, version[h])
      PROVE  FatesSound' /\ Persists /\ SameFates
  <2> DEFINE new == [cases[h] EXCEPT !.status = "REVIEWED", !.verdict = Len(verdicts) + 1,
                !.queued = FALSE,
                !.settlementEarliestAt = A!Least(now + ResponseWindow,
                                                 cases[h].recoveryDeadline)]
             v == [case |-> h, revision |-> A!Current(h), rule |-> r,
                   delivery |-> version[h], at |-> now]
  <2>1. Field \subseteq DOMAIN new /\ new.status = "REVIEWED" /\ ~new.queued
    BY <1>1
  <2>2. cases' = [cases EXCEPT ![h] = new] /\ verdicts' = Append(verdicts, v)
    BY <1>3 DEF A!RecordVerdict
  <2>3. v.rule \in 1..3
    BY ReviewRules
  <2> HIDE DEF new, v
  <2> QED BY <1>1, <2>1, <2>2, <2>3, WorkKept
<1>4. \/ \E code, e : A!RequireRepair(h, code, e)
      \/ \E r \in A!ReviewRule : A!RecordVerdict(h, r, version[h])
  BY DEF ResolveCase, StaleEvidence, DeliveryFails, ResponseFails, SourceFails, RecordVerdict
<1> QED BY <1>2, <1>3, <1>4

\* queue_settlement and recover_case, and the repetition of their message.
LEMMA SettlementKept ==
    ASSUME FatesSound, NEW h \in Handoff,
           \/ \E expected \in DOMAIN verdicts : A!QueueSettlement(h, expected)
           \/ A!RecoverCase(h),
           UNCHANGED <<acceptedAt, handoffs>>
    PROVE  FatesSound' /\ Persists /\ Progress
<1> USE CaseFields DEF Field
<1>1. ASSUME NEW r \in 1..3, Moves(h, "disputed", RuleName[r])
      PROVE  Progress
  <2>1. RuleName[r] \in P!Consequence
    BY DEF RuleName, P!Consequence
  <2> QED BY <1>1, <2>1 DEF Progress
<1>2. ASSUME NEW expected \in DOMAIN verdicts, A!QueueSettlement(h, expected),
             A!FirstQueue(h), cases' = [cases EXCEPT ![h].queued = TRUE],
             \/ A!Settle(h, verdicts[expected].rule)
             \/ UNCHANGED net
      PROVE  FatesSound' /\ Persists /\ Progress
  <2> DEFINE new == [cases[h] EXCEPT !.queued = TRUE]
             r == verdicts[expected].rule
  <2>1. /\ cases' = [cases EXCEPT ![h] = new] /\ expected = cases[h].verdict
        /\ net' = net \/ net' = net \cup {A!ApplyVerdict(h, r)}
        /\ cases[h].status = "REVIEWED" /\ ~cases[h].queued
        /\ UNCHANGED <<now, verdicts>>
    BY <1>2 DEF A!QueueSettlement, A!FirstQueue, A!Settle
  <2>2. r \in 1..3
    BY DEF FatesSound, Typed
  <2>3. /\ Field \subseteq DOMAIN new /\ new.queued /\ new.status = "REVIEWED"
        /\ new.verdict = cases[h].verdict
    BY <2>1
  <2>4. new.verdict \in DOMAIN verdicts /\ r = verdicts[new.verdict].rule
    BY <2>1, <2>3
  <2> HIDE DEF new, r
  <2>5. FatesSound' /\ Persists /\ Moves(h, "disputed", RuleName[r])
    BY <2>1, <2>2, <2>3, <2>4, DecisionKept
  <2> QED BY <1>1, <2>2, <2>5
<1>3. CASE A!RecoverCase(h)
  <2> DEFINE new == [cases[h] EXCEPT !.status = "RECOVERED"]
             r == A!NEUTRAL_RECOVERY
  <2>1. /\ cases' = [cases EXCEPT ![h] = new]
        /\ net' = net \/ net' = net \cup {A!ApplyVerdict(h, r)}
        /\ cases[h].status \in {"OPEN", "REPAIR_REQUIRED", "REVIEWED"} /\ ~cases[h].queued
        /\ UNCHANGED <<now, verdicts>>
    BY <1>3 DEF A!RecoverCase, A!Recoverable, A!Settle
  <2>2. Field \subseteq DOMAIN new /\ new.status = "RECOVERED" /\ ~new.queued
    BY <2>1
  <2>3. r \in 1..3
    BY DEF A!NEUTRAL_RECOVERY
  <2> HIDE DEF new
  <2>4. FatesSound' /\ Persists /\ Moves(h, "disputed", RuleName[r])
    BY <2>1, <2>2, <2>3, DecisionKept
  <2> QED BY <1>1, <2>3, <2>4
<1>4. ASSUME NEW expected \in DOMAIN verdicts, A!QueueSettlement(h, expected),
             A!Requeue(h), A!Settle(h, verdicts[expected].rule), UNCHANGED cases
      PROVE  FatesSound' /\ Persists /\ Progress
  <2>1. UNCHANGED <<now, verdicts>> /\ DecidedFor(h, verdicts[expected].rule)
    BY <1>4 DEF A!QueueSettlement, A!Requeue, DecidedFor
  <2>2. Persists /\ SameFates /\ Typed' /\ CasesSound'
    BY <1>4, <2>1, FatesRest DEF FatesSound, Typed
  <2>3. InstructionsSound'
    BY <1>4, <2>1, <2>2, MessageSent DEF A!Settle, Persists, FatesSound
  <2> QED BY <2>2, <2>3 DEF FatesSound, Progress
<1> QED BY <1>2, <1>3, <1>4 DEF A!QueueSettlement

\* The Vault's final status is copied over that of a queued case only.
LEMMA SyncCaseKept ==
    ASSUME FatesSound, NEW h \in Handoff, NEW who, SyncCaseVaultStatus(h, who),
           UNCHANGED <<acceptedAt, handoffs>>
    PROVE  FatesSound' /\ Persists /\ SameFates
<1> DEFINE new == [cases[h] EXCEPT !.status = status[h]]
<1>1. /\ cases' = [cases EXCEPT ![h] = new] /\ cases[h].queued
      /\ status[h] \in {"SETTLED", "RECOVERED"} /\ UNCHANGED <<now, net, verdicts>>
  BY DEF SyncCaseVaultStatus, EscrowEnded
<1>2. /\ Field \subseteq DOMAIN new /\ new.status = status[h]
      /\ new.queued = cases[h].queued /\ new.verdict = cases[h].verdict
  BY CaseFields DEF Field
<1> HIDE DEF new
<1> QED BY <1>1, <1>2, WorkKept

\* Every call about a case or a handoff decides at most one fate.
LEMMA CallKept ==
    ASSUME FatesSound, NEW h \in Handoff, CoreCall(h)
    PROVE  FatesSound' /\ Persists /\ Progress
<1> USE DEF Progress
<1>1. ASSUME NEW who, HandoffStep(AcceptHandoffDelivery(h, who))
      PROVE  FatesSound' /\ Persists /\ Progress
  <2>1. R!AcceptHandoffDelivery(h, who) /\ UNCHANGED <<cases, verdicts, handoffs>>
    BY <1>1 DEF HandoffStep, AcceptHandoffDelivery, draftVars, caseVars
  <2> QED BY <2>1, AcceptKept
<1>2. ASSUME NEW who,
             \/ HandoffStep(RegisterHandoffInVault(h))
             \/ HandoffStep(SubmitHandoffDelivery(h, who))
             \/ HandoffStep(RetryHandoffCompletion(h, who))
             \/ HandoffStep(RepairHandoffDelivery(h, who))
             \/ HandoffStep(SyncHandoffVaultStatus(h, who))
      PROVE  FatesSound' /\ Persists /\ Progress
  <2>1. UNCHANGED <<cases, verdicts, handoffs>>
    BY <1>2 DEF HandoffStep, draftVars, caseVars
  <2> QED BY <1>2, <2>1, DeliveryKept DEF HandoffStep
<1>3. ASSUME NEW who, CaseStep(OpenCase(h, who))
      PROVE  FatesSound' /\ Persists /\ Progress
  BY <1>3, OpenKept DEF CaseStep, draftVars, handoffVars
<1>4. ASSUME NEW who,
             \/ CaseStep(SubmitResponse(h, who))
             \/ CaseStep(MarkRevisionReady(h, who))
             \/ CaseStep(RetryCurrentRevision(h, who))
             \/ \E response \in BOOLEAN : CaseStep(BeginRevision(h, who, response))
      PROVE  FatesSound' /\ Persists /\ Progress
  <2>1. /\ \/ A!SubmitResponse(h, who) \/ A!MarkRevisionReady(h, who)
           \/ A!RetryCurrentRevision(h, who)
           \/ \E response \in BOOLEAN : A!BeginRevision(h, who, response)
        /\ UNCHANGED <<acceptedAt, handoffs>>
    BY <1>4 DEF CaseStep, SubmitResponse, MarkRevisionReady, RetryCurrentRevision,
       BeginRevision, draftVars, handoffVars
  <2> QED BY <2>1, CollectKept
<1>5. ASSUME NEW who, NEW source, NEW v, NEW f,
             CaseStep(RegisterEvidence(h, who, source, v, f))
      PROVE  FatesSound' /\ Persists /\ Progress
  <2>1. UNCHANGED <<now, net, cases, verdicts, acceptedAt, handoffs>>
    BY <1>5 DEF CaseStep, RegisterEvidence, A!RegisterEvidence, draftVars, handoffVars
  <2>2. Persists /\ SameFates /\ Typed' /\ CasesSound'
    BY <2>1, FatesRest DEF FatesSound, Typed
  <2> QED BY <2>1, <2>2, NothingSent DEF FatesSound
<1>6. ASSUME NEW who, CaseStep(SyncCaseVaultStatus(h, who))
      PROVE  FatesSound' /\ Persists /\ Progress
  BY <1>6, SyncCaseKept DEF CaseStep, draftVars, handoffVars
<1>7. CASE CaseStep(ResolveCase(h))
  BY <1>7, ReviewKept DEF CaseStep, draftVars, handoffVars
<1>8. CASE \/ \E expected \in DOMAIN verdicts : CaseStep(QueueSettlement(h, expected))
           \/ CaseStep(RecoverCase(h))
  <2>1. /\ \/ \E expected \in DOMAIN verdicts : A!QueueSettlement(h, expected)
           \/ A!RecoverCase(h)
        /\ UNCHANGED <<acceptedAt, handoffs>>
    BY <1>8 DEF CaseStep, QueueSettlement, RecoverCase, draftVars, handoffVars
  <2> QED BY <2>1, SettlementKept
<1> QED BY <1>1, <1>2, <1>3, <1>4, <1>5, <1>6, <1>7, <1>8 DEF CoreCall

\* The owner's draft says which handoffs there are; nobody's fate is in it.
LEMMA DraftKept ==
    ASSUME FatesSound, Draft
    PROVE  FatesSound' /\ Persists /\ SameFates
<1>1. UNCHANGED <<net, acceptedAt, cases, verdicts>>
  BY DEF Draft, DraftStep, handoffVars, caseVars
<1>2. now' = now /\ (\E S : handoffs' \in Seq(S)) /\ DOMAIN handoffs' \subseteq Handoff
  <2>1. PICK S : handoffs \in Seq(S)
    BY DEF FatesSound, Typed
  <2>2. CASE now' = now /\ handoffs' = handoffs
    BY <2>1, <2>2 DEF FatesSound, Typed
  <2>3. ASSUME NEW h \in Handoff, AddHandoff(h)
        PROVE  now' = now /\ (\E T : handoffs' \in Seq(T)) /\ DOMAIN handoffs' \subseteq Handoff
    <3>1. PICK v : now' = now /\ h = Len(handoffs) + 1 /\ handoffs' = Append(handoffs, v)
      BY <2>3 DEF AddHandoff, D!AddHandoff
    <3>2. /\ handoffs' \in Seq(S \cup {v}) /\ Len(handoffs) \in Nat
          /\ DOMAIN handoffs = 1..Len(handoffs) /\ DOMAIN handoffs' = 1..(Len(handoffs) + 1)
      BY <2>1, <3>1, VerdictAppended
    <3>3. DOMAIN handoffs' = DOMAIN handoffs \cup {h}
      BY <3>1, <3>2
    <3> QED BY <3>1, <3>2, <3>3 DEF FatesSound, Typed
  <2>4. ASSUME NEW h \in DOMAIN handoffs, NEW d \in DOMAIN handoffs, AddHandoffDependency(h, d)
        PROVE  now' = now /\ (\E T : handoffs' \in Seq(T)) /\ DOMAIN handoffs' \subseteq Handoff
    <3> DEFINE v == [handoffs[h] EXCEPT !.dependencies = @ \cup {d}]
    <3>1. now' = now /\ handoffs' = [handoffs EXCEPT ![h] = v]
      BY <2>4 DEF AddHandoffDependency, D!AddHandoffDependency
    <3> HIDE DEF v
    <3>2. handoffs \in Seq(S \cup {v})
      BY <2>1
    <3>3. handoffs' \in Seq(S \cup {v}) /\ DOMAIN handoffs' = DOMAIN handoffs
      BY <3>1, <3>2
    <3> QED BY <3>1, <3>3 DEF FatesSound, Typed
  <2>5. \/ now' = now /\ handoffs' = handoffs
        \/ \E h \in Handoff : AddHandoff(h)
        \/ \E h, d \in DOMAIN handoffs : AddHandoffDependency(h, d)
    BY DEF Draft, DraftStep, CreateEvidencePolicy, AddPolicyIssuer, AddPolicyPublisher,
       SealEvidencePolicy, CreateWorkflow, ActivateWorkflow, CloseWorkflow,
       D!CreateEvidencePolicy, D!AddPolicyIssuer, D!AddPolicyPublisher,
       D!SealEvidencePolicy, D!CreateWorkflow, D!ActivateWorkflow
  <2> QED BY <2>2, <2>3, <2>4, <2>5
<1>3. Persists
  BY <1>1 DEF Persists, R!Accepted, DecidedFor
<1>4. SameFates
  BY <1>1 DEF SameFates, FateOf, R!Accepted
<1>5. Typed' /\ CasesSound'
  BY <1>1, <1>2 DEF FatesSound, Typed, CasesSound, CaseSound, R!Accepted
<1> QED BY <1>1, <1>3, <1>4, <1>5, NothingSent DEF FatesSound

-----------------------------------------------------------------------------
(* The Vault.                                                              *)

\* What ended the escrow of h: the acceptance, the decision, or expiry.
Backed(h, e) ==
    \/ e.kind = "HandoffCompleted" /\ e = V!HandoffCompleted /\ R!Accepted(h)
    \/ e.kind = "VerdictApplied" /\ e = V!VerdictApplied(h, e.rule) /\ DecidedFor(h, e.rule)
    \/ e.kind = "EscrowRecovered"

\* An escrow has no event before it ends, and afterwards one, which fits its status.
Ended(h, s, events) ==
    /\ s \notin V!Terminal => events = <<>>
    /\ s \in V!Terminal =>
          /\ events # <<>> /\ events = <<Head(events)>> /\ Backed(h, Head(events))
          /\ s = "RECOVERED" <=> Head(events).kind = "EscrowRecovered"

EscrowSound ==
    /\ frames = <<>>
    /\ DOMAIN status = Handoff
    /\ DOMAIN log = Handoff
    /\ \A h \in Handoff : Ended(h, status[h], log[h])

\* A status copied back is final, and was copied because the handoff is decided.
SyncSound ==
    /\ DOMAIN synced = Handoff
    /\ \A h \in Handoff : synced[h] # "NONE" =>
          /\ synced[h] \in V!Terminal /\ status[h] = synced[h]
          /\ R!Accepted(h) \/ cases[h].queued

\* The inductive invariant.
CInv == FatesSound /\ EscrowSound /\ SyncSound

\* What backs the end of an escrow backs it for ever.
LEMMA EndLasts ==
    ASSUME Persists, NEW h \in Handoff, NEW s, NEW events, Ended(h, s, events)
    PROVE  Ended(h, s, events)'
<1>1. ASSUME NEW e, Backed(h, e) PROVE Backed(h, e)'
  <2>1. CASE e.kind = "HandoffCompleted" /\ e = V!HandoffCompleted /\ R!Accepted(h)
    BY <2>1 DEF Backed, Persists
  <2>2. CASE /\ e.kind = "VerdictApplied" /\ e = V!VerdictApplied(h, e.rule)
             /\ DecidedFor(h, e.rule)
    <3>1. DecidedFor(h, e.rule)'
      BY <2>2 DEF Persists
    <3> QED BY <2>2, <3>1 DEF Backed, DecidedFor
  <2>3. CASE e.kind = "EscrowRecovered"
    BY <2>3 DEF Backed
  <2> QED BY <1>1, <2>1, <2>2, <2>3 DEF Backed
<1> QED BY <1>1 DEF Ended

\* A step that ends no escrow.
LEMMA NothingEnds ==
    ASSUME CInv, Persists, UNCHANGED <<log, frames, synced>>, DOMAIN status' = Handoff,
           \A h \in Handoff : \/ status'[h] = status[h]
                              \/ status[h] \notin V!Terminal /\ status'[h] \notin V!Terminal
    PROVE  EscrowSound' /\ SyncSound'
<1>1. ASSUME NEW h \in Handoff PROVE Ended(h, status[h], log[h])'
  <2>1. Ended(h, status[h], log[h])
    BY DEF CInv, EscrowSound
  <2>2. CASE status'[h] = status[h]
    BY <2>1, <2>2, EndLasts DEF Ended
  <2>3. CASE status[h] \notin V!Terminal /\ status'[h] \notin V!Terminal
    BY <2>1, <2>3 DEF Ended
  <2> QED BY <2>2, <2>3
<1>2. EscrowSound'
  BY <1>1 DEF CInv, EscrowSound
<1>3. SyncSound'
  BY DEF CInv, SyncSound, Persists
<1> QED BY <1>2, <1>3

\* A step of the contract, which the Vault does not see; it may copy a final status.
LEMMA EscrowRests ==
    ASSUME CInv, Persists, UNCHANGED <<status, log, frames>>,
           \/ synced' = synced
           \/ \E h \in Handoff : /\ synced' = [synced EXCEPT ![h] = status[h]]
                                 /\ status[h] \in V!Terminal
                                 /\ R!Accepted(h) \/ cases[h].queued
    PROVE  EscrowSound' /\ SyncSound'
<1>1. \A h \in Handoff : Ended(h, status[h], log[h])'
  BY EndLasts DEF CInv, EscrowSound, Ended
<1>2. EscrowSound'
  BY <1>1 DEF CInv, EscrowSound
<1>3. SyncSound'
  BY DEF CInv, SyncSound, Persists
<1> QED BY <1>2, <1>3

\* A step that ends the escrow of h with event e.
LEMMA OneEnds ==
    ASSUME CInv, Persists, NEW h \in Handoff, NEW s, NEW e,
           s \in V!Terminal, V!Close(h, s, e), status[h] \notin V!Terminal,
           Backed(h, e)', s = "RECOVERED" <=> e.kind = "EscrowRecovered",
           UNCHANGED <<frames, synced>>
    PROVE  EscrowSound' /\ SyncSound' /\ log[h] = <<>> /\ log' = [log EXCEPT ![h] = <<e>>]
<1>1. log[h] = <<>>
  BY DEF CInv, EscrowSound, Ended
<1>2. Append(log[h], e) = <<e>>
  BY <1>1
<1>3. /\ DOMAIN status' = Handoff /\ DOMAIN log' = Handoff
      /\ status'[h] = s /\ log'[h] = <<e>> /\ log' = [log EXCEPT ![h] = <<e>>]
      /\ \A k \in Handoff \ {h} : status'[k] = status[k] /\ log'[k] = log[k]
  BY <1>2 DEF V!Close, CInv, EscrowSound
<1>4. Head(<<e>>) = e /\ <<e>> # <<>>
  OBVIOUS
<1>5. \A k \in Handoff \ {h} : Ended(k, status[k], log[k])'
  BY <1>3, EndLasts DEF CInv, EscrowSound, Ended
<1>6. Ended(h, status[h], log[h])'
  BY <1>3, <1>4 DEF Ended
<1>7. EscrowSound'
  BY <1>3, <1>5, <1>6 DEF CInv, EscrowSound
<1>8. SyncSound'
  BY <1>3 DEF CInv, SyncSound, Persists
<1> QED BY <1>1, <1>3, <1>7, <1>8

-----------------------------------------------------------------------------
(* Steps of the promise.                                                   *)

Ending(h) == OutcomeOf(V!CommittedLog[h])
SameEndings == \A h \in Handoff : Ending(h)' = Ending(h)
Kept == [P!Next]_(P!vars)

LEMMA PromiseStutters ==
    ASSUME SameFates, SameEndings
    PROVE  Kept
<1>1. Fate' = Fate
  BY DEF SameFates, FateOf, Fate
<1>2. [h \in Handoff |-> OutcomeOf(V!CommittedLog[h])]' = [h \in Handoff |-> OutcomeOf(V!CommittedLog[h])]
  BY DEF SameEndings, Ending
<1> QED BY <1>1, <1>2 DEF Kept, P!vars

\* Acceptance, dispute and decision are steps of the promise.
LEMMA PromiseProceeds ==
    ASSUME Progress, SameEndings
    PROVE  Kept
<1>1. CASE SameFates
  BY <1>1, PromiseStutters
<1>2. ASSUME NEW h \in Handoff, NEW from, NEW to, Moves(h, from, to)
      PROVE  Fate[h] = from /\ Fate' = [Fate EXCEPT ![h] = to]
  BY <1>2 DEF Moves, FateOf, Fate
<1>3. [h \in Handoff |-> OutcomeOf(V!CommittedLog[h])]' = [h \in Handoff |-> OutcomeOf(V!CommittedLog[h])]
  BY DEF SameEndings, Ending
<1>4. ASSUME NEW h \in Handoff,
             \/ Moves(h, "open", "accepted")
             \/ Moves(h, "open", "disputed")
             \/ \E c \in P!Consequence : Moves(h, "disputed", c)
      PROVE  P!Next
  BY <1>2, <1>3, <1>4 DEF P!Next, P!Accept, P!Dispute, P!Decide
<1> QED BY <1>1, <1>4 DEF Progress, Kept

\* The end of one escrow is a step of the promise: as its fate says, or by expiry.
LEMMA PromiseEnds ==
    ASSUME CInv, SameFates, NEW h \in Handoff, NEW e, log' = [log EXCEPT ![h] = <<e>>],
           frames' = frames, log[h] = <<>>,
           \/ OutcomeOf(<<e>>) = FateOf(h) /\ FateOf(h) \in P!Decided
           \/ OutcomeOf(<<e>>) = "expired"
    PROVE  Kept
<1>1. /\ log'[h] = <<e>>
      /\ \A k \in Handoff \ {h} : log'[k] = log[k]
      /\ frames = <<>>
  BY DEF CInv, EscrowSound
<1>2. \A k \in Handoff : Ending(k) = OutcomeOf(log[k]) /\ Ending(k)' = OutcomeOf(log'[k])
  BY <1>1 DEF Ending, V!CommittedLog, OutcomeOf
<1>3. /\ Ending(h) = "pending" /\ Ending(h)' = OutcomeOf(<<e>>)
      /\ \A k \in Handoff \ {h} : Ending(k)' = Ending(k)
  <2>1. OutcomeOf(log[h]) = "pending"
    BY DEF OutcomeOf
  <2> QED BY <1>1, <1>2, <2>1
<1>4. Fate' = Fate /\ Fate[h] = FateOf(h)
  BY DEF SameFates, FateOf, Fate
<1>5. CASE OutcomeOf(<<e>>) = FateOf(h) /\ FateOf(h) \in P!Decided
  <2>1. P!Settle(h)
    BY <1>3, <1>4, <1>5 DEF P!Settle, Ending
  <2> QED BY <2>1 DEF Kept, P!Next
<1>6. CASE OutcomeOf(<<e>>) = "expired"
  <2>1. P!Expire({h})
    BY <1>3, <1>4, <1>6 DEF P!Expire, Ending
  <2> QED BY <2>1 DEF Kept, P!Next
<1> QED BY <1>5, <1>6

LEMMA OutcomeOfEvent ==
    ASSUME NEW e
    PROVE  /\ e.kind = "HandoffCompleted" => OutcomeOf(<<e>>) = "accepted"
           /\ e.kind = "VerdictApplied" => OutcomeOf(<<e>>) = RuleName[e.rule]
           /\ e.kind = "EscrowRecovered" => OutcomeOf(<<e>>) = "expired"
<1>1. <<e>> # <<>> /\ Head(<<e>>) = e
  OBVIOUS
<1> QED BY <1>1 DEF OutcomeOf

-----------------------------------------------------------------------------
(* The system.                                                             *)

\* What the Vault's own steps leave alone.
VaultOnly ==
    UNCHANGED <<now, net, acceptedAt, cases, verdicts, handoffs, synced>> /\ frames' = frames

LEMMA VaultOnlyKept ==
    ASSUME FatesSound, VaultOnly
    PROVE  FatesSound' /\ Persists /\ SameFates
<1>1. Persists /\ SameFates /\ Typed' /\ CasesSound'
  BY FatesRest DEF FatesSound, Typed, VaultOnly
<1> QED BY <1>1, NothingSent DEF FatesSound, VaultOnly

\* A step of the Vault that ends no escrow: registration, funding, bond.
LEMMA AdvanceKept ==
    ASSUME CInv, NEW h \in Handoff, NEW s, VaultOnly, log' = log,
           status[h] \notin V!Terminal, s \notin V!Terminal,
           status' = [status EXCEPT ![h] = s]
    PROVE  CInv' /\ Kept
<1>1. FatesSound' /\ Persists /\ SameFates
  BY VaultOnlyKept DEF CInv
<1>2. EscrowSound' /\ SyncSound'
  <2>1. /\ DOMAIN status' = Handoff
        /\ \A k \in Handoff : \/ status'[k] = status[k]
                              \/ status[k] \notin V!Terminal /\ status'[k] \notin V!Terminal
    BY DEF CInv, EscrowSound
  <2> QED BY <1>1, <2>1, NothingEnds DEF VaultOnly
<1>3. SameEndings
  BY DEF SameEndings, Ending, V!CommittedLog, VaultOnly
<1> QED BY <1>1, <1>2, <1>3, PromiseStutters DEF CInv

\* One that ends the escrow of h, as decided or by expiry.
LEMMA EndKept ==
    ASSUME CInv, NEW h \in Handoff, NEW s, NEW e, VaultOnly, V!Close(h, s, e),
           s \in V!Terminal, status[h] \notin V!Terminal, Backed(h, e),
           s = "RECOVERED" <=> e.kind = "EscrowRecovered"
    PROVE  CInv' /\ Kept
<1>1. FatesSound' /\ Persists /\ SameFates
  BY VaultOnlyKept DEF CInv
<1>2. Backed(h, e)'
  BY DEF VaultOnly, Backed, R!Accepted, DecidedFor
<1>3. EscrowSound' /\ SyncSound' /\ log[h] = <<>> /\ log' = [log EXCEPT ![h] = <<e>>]
  BY <1>1, <1>2, OneEnds DEF VaultOnly
<1>4. \/ OutcomeOf(<<e>>) = FateOf(h) /\ FateOf(h) \in P!Decided
      \/ OutcomeOf(<<e>>) = "expired"
  <2>1. CASE e.kind = "HandoffCompleted" /\ R!Accepted(h)
    BY <2>1, OutcomeOfEvent DEF FateOf, P!Decided
  <2>2. CASE e.kind = "VerdictApplied" /\ DecidedFor(h, e.rule)
    <3>1. CaseSound(h) /\ ~R!Accepted(h)
      BY <2>2 DEF CInv, FatesSound, CasesSound, CaseSound, DecidedFor
    <3>2. e.rule \in 1..3
      BY <2>2, <3>1 DEF CInv, FatesSound, Typed, CaseSound, DecidedFor, A!NEUTRAL_RECOVERY
    <3>3. RuleName[A!NEUTRAL_RECOVERY] = "neutral" /\ RuleName[e.rule] \in P!Decided
      BY <3>2 DEF RuleName, A!NEUTRAL_RECOVERY, P!Decided, P!Consequence
    <3>4. FateOf(h) = RuleName[e.rule]
      BY <2>2, <3>1, <3>3 DEF FateOf, DecidedFor
    <3> QED BY <2>2, <3>3, <3>4, OutcomeOfEvent
  <2>3. CASE e.kind = "EscrowRecovered"
    BY <2>3, OutcomeOfEvent
  <2> QED BY <2>1, <2>2, <2>3 DEF Backed
<1> QED BY <1>1, <1>3, <1>4, PromiseEnds DEF CInv, VaultOnly

LEMMA VaultCallKept ==
    ASSUME CInv, VaultCall
    PROVE  CInv' /\ Kept
<1>1. PICK h \in Handoff : V!AccountCall(h)
  BY DEF VaultCall
<1>2. VaultOnly
  BY <1>1 DEF VaultCall, VaultOnly, handoffVars, caseVars, draftVars, V!AccountCall,
     V!FundHandoff, V!PostBond, V!RecoverUnactivated, V!RecoverActive
<1>3. CASE \E a \in Account : V!FundHandoff(h, a) \/ V!PostBond(h, a)
  <2>1. PICK s : /\ status[h] \notin V!Terminal /\ s \notin V!Terminal
                 /\ status' = [status EXCEPT ![h] = s] /\ log' = log
    BY <1>3 DEF V!FundHandoff, V!PostBond, V!Terminal
  <2> QED BY <1>2, <2>1, AdvanceKept
<1>4. CASE V!RecoverUnactivated(h) \/ V!RecoverActive(h)
  <2>1. PICK why : /\ V!Close(h, "RECOVERED", V!EscrowRecovered(why))
                   /\ status[h] \notin V!Terminal
    BY <1>4 DEF V!RecoverUnactivated, V!RecoverActive, V!Terminal
  <2> DEFINE e == V!EscrowRecovered(why)
  <2>2. e.kind = "EscrowRecovered" /\ V!Close(h, "RECOVERED", e)
    BY <2>1 DEF V!EscrowRecovered
  <2> HIDE DEF e
  <2>3. "RECOVERED" \in V!Terminal /\ Backed(h, e)
    BY <2>2 DEF V!Terminal, Backed
  <2> QED BY <1>2, <2>1, <2>2, <2>3, EndKept
<1> QED BY <1>1, <1>3, <1>4 DEF V!AccountCall

LEMMA DeliverKept ==
    ASSUME CInv, NEW h \in Handoff, Deliver(h)
    PROVE  CInv' /\ Kept
<1>1. UNCHANGED <<net, acceptedAt, cases, verdicts, handoffs, synced>>
  BY DEF Deliver, handoffVars, caseVars, draftVars
<1>2. CASE V!RegisterHandoff(h, Escrow(h))
  <2>1. VaultOnly /\ log' = log /\ status' = [status EXCEPT ![h] = "REGISTERED"]
        /\ status[h] = "NONE"
    BY <1>1, <1>2 DEF V!RegisterHandoff, VaultOnly
  <2>2. "NONE" \notin V!Terminal /\ "REGISTERED" \notin V!Terminal
    BY DEF V!Terminal
  <2> QED BY <2>1, <2>2, AdvanceKept
<1>3. ASSUME NEW v, R!Complete(h, v) \in net, V!ApplyHandoffCompletion(h, Fingerprint)
      PROVE  CInv' /\ Kept
  <2> DEFINE e == V!HandoffCompleted
  <2>1. e.kind = "HandoffCompleted" /\ e = V!HandoffCompleted
    BY DEF V!HandoffCompleted
  <2>2. VaultOnly /\ V!Close(h, "SETTLED", e) /\ status[h] = "ACTIVE"
    BY <1>1, <1>3 DEF V!ApplyHandoffCompletion, VaultOnly
  <2>3. R!Accepted(h)
    BY <1>3 DEF CInv, FatesSound, InstructionsSound
  <2> HIDE DEF e
  <2>4. Backed(h, e) /\ "SETTLED" \in V!Terminal /\ status[h] \notin V!Terminal
    BY <2>1, <2>2, <2>3 DEF Backed, V!Terminal
  <2> QED BY <2>1, <2>2, <2>4, EndKept
<1>4. ASSUME NEW r \in 1..3, A!ApplyVerdict(h, r) \in net,
             V!ApplyFinalVerdict(h, h, Fingerprint, r)
      PROVE  CInv' /\ Kept
  <2> DEFINE e == V!VerdictApplied(h, r)
  <2>1. e.kind = "VerdictApplied" /\ e.rule = r /\ e = V!VerdictApplied(h, e.rule)
    BY DEF V!VerdictApplied
  <2>2. VaultOnly /\ V!Close(h, "SETTLED", e) /\ status[h] = "ACTIVE"
    BY <1>1, <1>4 DEF V!ApplyFinalVerdict, VaultOnly
  <2>3. DecidedFor(h, r)
    BY <1>4 DEF CInv, FatesSound, InstructionsSound
  <2> HIDE DEF e
  <2>4. Backed(h, e) /\ "SETTLED" \in V!Terminal /\ status[h] \notin V!Terminal
    BY <2>1, <2>2, <2>3 DEF Backed, V!Terminal
  <2> QED BY <2>1, <2>2, <2>4, EndKept
<1>5. CASE UNCHANGED V!vars
  <2>1. VaultOnly /\ UNCHANGED <<status, log>>
    BY <1>1, <1>5 DEF V!vars, VaultOnly
  <2>2. FatesSound' /\ Persists /\ SameFates
    BY <2>1, VaultOnlyKept DEF CInv
  <2>3. EscrowSound' /\ SyncSound'
    BY <2>1, <2>2, EscrowRests DEF VaultOnly
  <2>4. SameEndings
    BY <2>1 DEF SameEndings, Ending, V!CommittedLog, VaultOnly
  <2> QED BY <2>2, <2>3, <2>4, PromiseStutters DEF CInv
<1> QED BY <1>2, <1>3, <1>4, <1>5 DEF Deliver, V!RegistrationIgnored, V!CompletionIgnored,
        V!VerdictIgnored

\* What a call of the contract copies is a final status of a decided handoff.
LEMMA CallCopies ==
    ASSUME NEW h \in Handoff, CoreCall(h)
    PROVE  /\ UNCHANGED <<status, log, frames>>
           /\ \/ synced' = synced
              \/ /\ synced' = [synced EXCEPT ![h] = status[h]]
                 /\ status[h] \in V!Terminal
                 /\ R!Accepted(h) \/ cases[h].queued
<1>1. UNCHANGED vaultVars
  BY DEF CoreCall, HandoffStep, CaseStep
<1>2. \/ synced' = synced
      \/ \E who : SyncHandoffVaultStatus(h, who) \/ SyncCaseVaultStatus(h, who)
  BY DEF CoreCall, HandoffStep, CaseStep, RegisterHandoffInVault, SubmitHandoffDelivery,
     AcceptHandoffDelivery, RetryHandoffCompletion, RepairHandoffDelivery, OpenCase,
     SubmitResponse, MarkRevisionReady, RetryCurrentRevision, BeginRevision,
     RegisterEvidence, ResolveCase, QueueSettlement, RecoverCase
<1> QED BY <1>1, <1>2 DEF vaultVars, SyncHandoffVaultStatus, SyncCaseVaultStatus,
        EscrowEnded, V!Terminal

LEMMA NextCInv == CInv /\ [Next]_vars => CInv' /\ Kept
<1> SUFFICES ASSUME CInv, [Next]_vars PROVE CInv' /\ Kept
  OBVIOUS
<1>1. ASSUME FatesSound', Persists, Progress, EscrowSound', SyncSound', UNCHANGED <<log, frames>>
      PROVE  CInv' /\ Kept
  <2>1. SameEndings
    BY <1>1 DEF SameEndings, Ending, V!CommittedLog
  <2> QED BY <1>1, <2>1, PromiseProceeds DEF CInv
<1>2. ASSUME NEW h \in DOMAIN handoffs, CoreCall(h)
      PROVE  CInv' /\ Kept
  <2>1. h \in Handoff
    BY DEF CInv, FatesSound, Typed
  <2>2. FatesSound' /\ Persists /\ Progress
    BY <1>2, <2>1, CallKept DEF CInv
  <2>3. /\ UNCHANGED <<status, log, frames>>
        /\ \/ synced' = synced
           \/ /\ synced' = [synced EXCEPT ![h] = status[h]]
              /\ status[h] \in V!Terminal
              /\ R!Accepted(h) \/ cases[h].queued
    BY <1>2, <2>1, CallCopies
  <2>4. EscrowSound' /\ SyncSound'
    BY <2>1, <2>2, <2>3, EscrowRests
  <2> QED BY <1>1, <2>2, <2>3, <2>4
<1>3. ASSUME NEW h \in DOMAIN handoffs, Deliver(h)
      PROVE  CInv' /\ Kept
  BY <1>3, DeliverKept DEF CInv, FatesSound, Typed
<1>4. CASE VaultCall
  BY <1>4, VaultCallKept
<1>5. CASE Draft
  <2>1. FatesSound' /\ Persists /\ SameFates
    BY <1>5, DraftKept DEF CInv
  <2>2. UNCHANGED <<status, log, frames, synced>>
    BY <1>5 DEF Draft, DraftStep, vaultVars
  <2>3. EscrowSound' /\ SyncSound'
    BY <2>1, <2>2, EscrowRests
  <2> QED BY <1>1, <2>1, <2>2, <2>3 DEF Progress
<1>6. CASE Tick \/ (\E who \in Account : BindVault(who)) \/ UNCHANGED vars
  <2>1. /\ UNCHANGED <<net, acceptedAt, cases, verdicts, handoffs>>
        /\ UNCHANGED <<status, log, frames, synced>> /\ now' \in Nat \ {0}
    BY <1>6 DEF Tick, V!Tick, BindVault, A!BindVault, vars, vaultVars, handoffVars, caseVars,
       draftVars, CInv, FatesSound, Typed
  <2>2. Persists /\ SameFates /\ Typed' /\ CasesSound'
    BY <2>1, FatesRest DEF CInv
  <2>3. FatesSound'
    BY <2>1, <2>2, NothingSent DEF CInv, FatesSound
  <2>4. EscrowSound' /\ SyncSound'
    BY <2>1, <2>2, EscrowRests
  <2> QED BY <1>1, <2>1, <2>2, <2>3, <2>4 DEF Progress
<1> QED BY <1>2, <1>3, <1>4, <1>5, <1>6 DEF Next

LEMMA InitCInv == Init => CInv /\ P!Init
<1> SUFFICES ASSUME Init PROVE CInv /\ P!Init
  OBVIOUS
<1> USE DEF Init, D!Init, A!Init, V!Init
<1>1. Field \subseteq DOMAIN A!NoCase /\ A!NoCase.status = "NONE" /\ ~A!NoCase.queued
  BY DEF A!NoCase, Field
<1>2. /\ verdicts \in Seq({}) /\ handoffs \in Seq({})
      /\ DOMAIN verdicts = {} /\ DOMAIN handoffs = {}
  OBVIOUS
<1>3. Typed
  <2>1. now \in Nat \ {0} /\ acceptedAt \in [Handoff -> Nat] /\ DOMAIN cases = Handoff
    OBVIOUS
  <2>2. \A h \in Handoff : Field \subseteq DOMAIN cases[h]
    BY <1>1
  <2> QED BY <1>2, <2>1, <2>2 DEF Typed
<1>4. \A h \in Handoff : ~R!Accepted(h) /\ cases[h].status = "NONE" /\ ~cases[h].queued
  BY <1>1 DEF R!Accepted
<1>5. FatesSound
  BY <1>3, <1>4 DEF FatesSound, CasesSound, CaseSound, InstructionsSound
<1>6. EscrowSound /\ SyncSound
  BY DEF EscrowSound, SyncSound, Ended, V!Terminal
<1>7. \A h \in Handoff : Fate[h] = "open" /\ Ending(h) = "pending"
  BY <1>4 DEF Fate, Ending, OutcomeOf, V!CommittedLog
<1>8. P!Init
  BY <1>7 DEF P!Init, Fate, Ending
<1> QED BY <1>5, <1>6, <1>8 DEF CInv

LEMMA CoreInvariant == Spec => []CInv
BY InitCInv, NextCInv, PTL DEF Spec

-----------------------------------------------------------------------------
\* What the contract copied from the Vault says how the handoff was decided.
THEOREM CopiesAreTrue == Spec => []SyncedStatusIsTrue
<1>1. CInv => SyncedStatusIsTrue
  <2> SUFFICES ASSUME CInv, NEW h \in Handoff, synced[h] # "NONE"
               PROVE  /\ status[h] = synced[h]
                      /\ synced[h] = "RECOVERED" => log[h][1].kind = "EscrowRecovered"
                      /\ synced[h] = "SETTLED" =>
                            log[h] = IF R!Accepted(h) THEN <<V!HandoffCompleted>>
                                     ELSE <<V!VerdictApplied(h, verdicts[cases[h].verdict].rule)>>
    BY DEF SyncedStatusIsTrue
  <2> DEFINE e == Head(log[h])
  <2>1. /\ synced[h] \in V!Terminal /\ status[h] = synced[h]
        /\ R!Accepted(h) \/ cases[h].queued
    BY DEF CInv, SyncSound
  <2>2. /\ log[h] = <<e>> /\ Backed(h, e)
        /\ status[h] = "RECOVERED" <=> e.kind = "EscrowRecovered"
    BY <2>1 DEF CInv, EscrowSound, Ended
  <2> HIDE DEF e
  <2>3. log[h][1] = e
    BY <2>2
  <2>4. CaseSound(h)
    BY DEF CInv, FatesSound, CasesSound
  <2>5. CASE synced[h] = "RECOVERED"
    BY <2>1, <2>2, <2>3, <2>5
  <2>6. CASE synced[h] = "SETTLED"
    <3>1. e.kind # "EscrowRecovered"
      BY <2>1, <2>2, <2>6
    <3>2. CASE R!Accepted(h)
      <4>1. e = V!HandoffCompleted
        BY <2>2, <2>4, <3>1, <3>2 DEF Backed, CaseSound, DecidedFor
      <4> QED BY <2>1, <2>2, <2>6, <3>2, <4>1
    <3>3. CASE ~R!Accepted(h)
      <4>1. e = V!VerdictApplied(h, verdicts[cases[h].verdict].rule)
        BY <2>1, <2>2, <3>1, <3>3 DEF Backed, DecidedFor
      <4> QED BY <2>1, <2>2, <2>6, <3>3, <4>1
    <3> QED BY <3>2, <3>3
  <2> QED BY <2>1, <2>5, <2>6 DEF V!Terminal
<1> QED BY <1>1, CoreInvariant, PTL

\* The single contract and its Vault implement SettlementPromise.
THEOREM CorePromiseIsKept == Spec => KeepsPromise
<1>1. CInv /\ [Next]_vars => [P!Next]_(P!vars)
  BY NextCInv DEF Kept
<1> QED BY <1>1, InitCInv, CoreInvariant, PTL DEF Spec, KeepsPromise, P!Spec

-----------------------------------------------------------------------------
(* The cases of the single contract are those of the Adjudicator: what is  *)
(* proved of CaseAdjudicator holds here.  Only the copy of the Vault's     *)
(* final status, made over the status of a queued case, is put back.       *)

AsDecided(r) == IF r.queued /\ r.status # "REVIEWED" THEN [r EXCEPT !.status = "REVIEWED"] ELSE r
View == [h \in Handoff |-> AsDecided(cases[h])]

\* The messages about verdicts.
VerdictNet == {m \in net : m.type = "verdict"}

CA == INSTANCE CaseAdjudicatorProofs
    WITH Case <- Handoff, Contexts <- [responseDeadline : Nat, recoveryDeadline : Nat],
         Deliveries <- Nat, Issuer <- Account, RepairWindow <- OwnerPolicy.repairWindow,
         Deployed <- FALSE, boundVault <- vaultBound, cases <- View, net <- VerdictNet

\* What the module assumes of its constants holds of the constants it gets here.
LEMMA CaseAssumptions ==
    CA!PolicyAssumption /\ CA!InputAssumption /\ CA!PartiesAssumption
BY CoreAssumption DEF A!PolicyAssumption, A!InputAssumption, A!PartiesAssumption,
   CA!PolicyAssumption, CA!InputAssumption, CA!PartiesAssumption

LEMMA VerdictMessages ==
    /\ net' = net => VerdictNet' = VerdictNet
    /\ \A m : net' = net \cup {m} =>
        /\ m.type # "verdict" => VerdictNet' = VerdictNet
        /\ m.type = "verdict" => VerdictNet' = VerdictNet \cup {m}
BY DEF VerdictNet

\* A case on which nothing was copied is seen as it is, and what becomes of it too.
LEMMA ViewMoves ==
    ASSUME Typed, NEW c \in Handoff, NEW new, cases' = [cases EXCEPT ![c] = new],
           ~new.queued \/ new.status = "REVIEWED"
    PROVE  View' = [View EXCEPT ![c] = new]
<1>1. AsDecided(new) = new
  BY DEF AsDecided
<1>2. /\ DOMAIN cases = Handoff /\ cases'[c] = new
      /\ \A k \in Handoff \ {c} : cases'[k] = cases[k]
  BY DEF Typed
<1>3. \A k \in Handoff : View'[k] = IF k = c THEN new ELSE View[k]
  BY <1>1, <1>2 DEF View, AsDecided
<1>4. View' = [k \in Handoff |-> View'[k]] /\ View = [k \in Handoff |-> View[k]]
  BY DEF View
<1> QED BY <1>3, <1>4

LEMMA SeenAsIs ==
    ASSUME FatesSound, NEW c \in Handoff, ~cases[c].queued \/ cases[c].status = "REVIEWED"
    PROVE  View[c] = cases[c] /\ Field \subseteq DOMAIN cases[c]
BY DEF View, AsDecided, FatesSound, Typed

\* An open, failed or unknown case is not queued.
LEMMA Unqueued ==
    ASSUME FatesSound, NEW c \in Handoff,
           cases[c].status \in {"NONE", "OPEN", "REPAIR_REQUIRED"}
    PROVE  ~cases[c].queued
BY DEF FatesSound, CasesSound, CaseSound

\* Both instances count alike and read revisions alike.
LEMMA SameReading ==
    /\ \A S : A!Cardinality(S) = CA!Cardinality(S)
    /\ \A c : /\ A!Participants(c) = CA!Participants(c)
              /\ A!Current(c) = CA!Current(c)
              /\ A!CurrentRevision(c) = CA!CurrentRevision(c)
    /\ A!NEUTRAL_RECOVERY = CA!NEUTRAL_RECOVERY
BY DEF A!Cardinality, CA!Cardinality, A!Participants, CA!Participants, A!Current, CA!Current,
   A!CurrentRevision, CA!CurrentRevision, A!NEUTRAL_RECOVERY, CA!NEUTRAL_RECOVERY

\* The work of the parties on a revision.
LEMMA CollectAction ==
    ASSUME FatesSound, NEW c \in Handoff, NEW who \in Account,
           \/ A!SubmitResponse(c, who)
           \/ A!MarkRevisionReady(c, who)
           \/ A!RetryCurrentRevision(c, who)
           \/ \E response \in BOOLEAN : A!BeginRevision(c, who, response)
    PROVE  CA!AdjudicatorStep /\ now' = now
<1> USE DEF Field
<1>1. /\ ~cases[c].queued /\ Typed /\ now' = now /\ VerdictNet' = VerdictNet
      /\ cases[c].status \in {"OPEN", "REPAIR_REQUIRED", "REVIEWED"}
  BY Unqueued, VerdictMessages DEF FatesSound, A!SubmitResponse, A!MarkRevisionReady,
     A!RetryCurrentRevision, A!BeginRevision, A!Revisable
<1>2. View[c] = cases[c] /\ Field \subseteq DOMAIN cases[c]
  BY <1>1, SeenAsIs
<1>3. CASE A!SubmitResponse(c, who)
  <2> DEFINE new == [cases[c] EXCEPT !.response = TRUE]
  <2>1. cases' = [cases EXCEPT ![c] = new] /\ ~new.queued
    BY <1>1, <1>2, <1>3 DEF A!SubmitResponse
  <2>2. View' = [View EXCEPT ![c] = new]
    BY <1>1, <2>1, ViewMoves
  <2>3. CA!SubmitResponse(c, who)
    BY <1>1, <1>2, <1>3, <2>2, SameReading DEF A!SubmitResponse, CA!SubmitResponse
  <2> QED BY <1>1, <2>3 DEF CA!AdjudicatorStep
<1>4. CASE A!MarkRevisionReady(c, who)
  <2> DEFINE new == [cases[c] EXCEPT !.ready = cases[c].ready \cup {who}]
  <2>1. cases' = [cases EXCEPT ![c] = new] /\ ~new.queued
    BY <1>1, <1>2, <1>4 DEF A!MarkRevisionReady
  <2>2. View' = [View EXCEPT ![c] = new]
    BY <1>1, <2>1, ViewMoves
  <2>3. CA!MarkRevisionReady(c, who)
    BY <1>1, <1>2, <1>4, <2>2, SameReading DEF A!MarkRevisionReady, CA!MarkRevisionReady
  <2> QED BY <1>1, <2>3 DEF CA!AdjudicatorStep
<1>5. CASE A!RetryCurrentRevision(c, who)
  <2> DEFINE new == [cases[c] EXCEPT !.status = "OPEN", !.failure = "",
                                     !.repairDeadline = 0, !.responseDeadline = now]
  <2>1. cases' = [cases EXCEPT ![c] = new] /\ ~new.queued
    BY <1>1, <1>2, <1>5 DEF A!RetryCurrentRevision
  <2>2. View' = [View EXCEPT ![c] = new]
    BY <1>1, <2>1, ViewMoves
  <2>3. A!TransientFailure = CA!TransientFailure
    BY DEF A!TransientFailure, CA!TransientFailure
  <2>4. CA!RetryCurrentRevision(c, who)
    BY <1>1, <1>2, <1>5, <2>2, <2>3, SameReading DEF A!RetryCurrentRevision,
       CA!RetryCurrentRevision
  <2> QED BY <1>1, <2>4 DEF CA!AdjudicatorStep
<1>6. ASSUME NEW response \in BOOLEAN, A!BeginRevision(c, who, response)
      PROVE  CA!AdjudicatorStep
  <2> DEFINE new == [cases[c] EXCEPT !.status = "OPEN", !.verdict = 0,
              !.settlementEarliestAt = 0, !.queued = FALSE,
              !.responseDeadline = now + ResponseWindow, !.repairDeadline = 0,
              !.response = response, !.ready = {}, !.failure = ""]
  <2>1. cases' = [cases EXCEPT ![c] = new] /\ ~new.queued
    BY <1>1, <1>2, <1>6 DEF A!BeginRevision
  <2>2. View' = [View EXCEPT ![c] = new]
    BY <1>1, <2>1, ViewMoves
  <2>3. A!NewRevision(A!Carried(c)) = CA!NewRevision(CA!Carried(c))
    BY <1>2, SameReading DEF A!NewRevision, CA!NewRevision, A!Carried, CA!Carried
  <2>4. A!Revisable(c) <=> CA!Revisable(c)
    BY <1>2 DEF A!Revisable, CA!Revisable
  <2>5. CA!BeginRevision(c, who, response)
    BY <1>1, <1>2, <1>6, <2>2, <2>3, <2>4, SameReading DEF A!BeginRevision, CA!BeginRevision
  <2> QED BY <2>5 DEF CA!AdjudicatorStep
<1> QED BY <1>1, <1>3, <1>4, <1>5, <1>6

\* Evidence is registered on a case nothing was decided about.
LEMMA RegisterAction ==
    ASSUME FatesSound, NEW c \in Handoff, NEW who \in Account, NEW source \in Source,
           NEW v \in 1..MaxEvidenceVersion, NEW f \in FreshUntil,
           A!RegisterEvidence(c, who, source, v, f)
    PROVE  CA!AdjudicatorStep /\ now' = now
<1>1. now' = now /\ VerdictNet' = VerdictNet /\ View' = View /\ cases[c].status = "OPEN"
  BY VerdictMessages DEF A!RegisterEvidence, View
<1>2. View[c] = cases[c]
  BY <1>1, Unqueued, SeenAsIs
<1>3. /\ A!StableIdAvailable(c, source.stable, who, v) <=>
            CA!StableIdAvailable(c, source.stable, who, v)
      /\ \A cited : A!Corroborates(cited, source) <=> CA!Corroborates(cited, source)
  BY DEF A!StableIdAvailable, CA!StableIdAvailable, A!Corroborates, CA!Corroborates
<1>4. CA!RegisterEvidence(c, who, source, v, f)
  BY <1>1, <1>2, <1>3, SameReading DEF A!RegisterEvidence, CA!RegisterEvidence
<1> QED BY <1>1, <1>4 DEF CA!AdjudicatorStep

\* The case is opened with deadlines the policy fixes.
LEMMA OpenAction ==
    ASSUME FatesSound, NEW c \in Handoff, NEW who, OpenCase(c, who)
    PROVE  /\ \E given \in [responseDeadline : Nat, recoveryDeadline : Nat] :
                CA!InitializeCase(c, given)
           /\ now' = now
<1> DEFINE given == [responseDeadline |-> now + OwnerPolicy.responseWindow,
                     recoveryDeadline |-> now + OwnerPolicy.reviewRecovery]
           new == [A!NoCase EXCEPT !.status = "OPEN",
                                   !.responseDeadline = given.responseDeadline,
                                   !.recoveryDeadline = given.recoveryDeadline]
<1>1. given \in [responseDeadline : Nat, recoveryDeadline : Nat]
  BY CoreAssumption DEF D!OfferedAssumption, FatesSound, Typed
<1>2. A!InitializeCase(c, given)
  BY DEF OpenCase
<1>3. /\ cases' = [cases EXCEPT ![c] = new] /\ cases[c].status = "NONE"
      /\ now' = now /\ VerdictNet' = VerdictNet
  BY <1>2, VerdictMessages DEF A!InitializeCase
<1>4. ~new.queued
  BY DEF A!NoCase
<1>5. View' = [View EXCEPT ![c] = new] /\ View[c] = cases[c]
  BY <1>3, <1>4, ViewMoves, Unqueued, SeenAsIs DEF FatesSound
<1>6. CA!InitializeCase(c, given)
  BY <1>2, <1>3, <1>5 DEF A!InitializeCase, CA!InitializeCase, A!NoCase, CA!NoCase,
     A!NewRevision, CA!NewRevision
<1> QED BY <1>1, <1>3, <1>6

\* The review reads the delivery of the handoff.
LEMMA ReviewAction ==
    ASSUME FatesSound, NEW c \in Handoff, ResolveCase(c)
    PROVE  CA!ResolveCase(c, version[c]) /\ now' = now
<1> USE DEF Field
<1>1. /\ cases[c].status = "OPEN" /\ ~cases[c].queued /\ Typed
      /\ UNCHANGED <<now, vaultBound, evidence, latest>> /\ VerdictNet' = VerdictNet
  BY Unqueued, VerdictMessages DEF ResolveCase, A!Reviewable, FatesSound
<1>2. View[c] = cases[c] /\ Field \subseteq DOMAIN cases[c]
  BY <1>1, SeenAsIs
<1>3. CA!Reviewable(c)
  BY <1>2, SameReading DEF ResolveCase, A!Reviewable, CA!Reviewable, A!Issuers, CA!Issuers,
     A!Publishers, CA!Publishers
<1>4. A!Stale(c) = CA!Stale(c)
  BY SameReading DEF A!Stale, CA!Stale
<1>5. ASSUME NEW code, NEW e, A!RequireRepair(c, code, e)
      PROVE  CA!RequireRepair(c, code, e)
  <2> DEFINE new == [cases[c] EXCEPT !.status = "REPAIR_REQUIRED", !.failure = code,
                !.repairDeadline = A!Least(now + OwnerPolicy.repairWindow,
                                           cases[c].recoveryDeadline)]
  <2>1. cases' = [cases EXCEPT ![c] = new] /\ ~new.queued
    BY <1>1, <1>2, <1>5 DEF A!RequireRepair
  <2>2. View' = [View EXCEPT ![c] = new]
    BY <1>1, <2>1, ViewMoves
  <2> QED BY <1>2, <1>5, <2>2, SameReading DEF A!RequireRepair, CA!RequireRepair, A!Least, CA!Least
<1>6. ASSUME NEW r, A!RecordVerdict(c, r, version[c])
      PROVE  CA!RecordVerdict(c, r, version[c])
  <2> DEFINE new == [cases[c] EXCEPT !.status = "REVIEWED", !.verdict = Len(verdicts) + 1,
                !.queued = FALSE,
                !.settlementEarliestAt = A!Least(now + ResponseWindow,
                                                 cases[c].recoveryDeadline)]
  <2>1. cases' = [cases EXCEPT ![c] = new] /\ ~new.queued
    BY <1>1, <1>2, <1>6 DEF A!RecordVerdict
  <2>2. View' = [View EXCEPT ![c] = new]
    BY <1>1, <2>1, ViewMoves
  <2> QED BY <1>2, <1>6, <2>2, SameReading DEF A!RecordVerdict, CA!RecordVerdict, A!Least, CA!Least
<1>7. /\ A!DeliveryFailure = CA!DeliveryFailure
      /\ A!ResponseFailure = CA!ResponseFailure
      /\ A!SourceFailure = CA!SourceFailure
      /\ A!ReviewRule = CA!ReviewRule
  BY DEF A!DeliveryFailure, CA!DeliveryFailure, A!ResponseFailure, CA!ResponseFailure,
     A!SourceFailure, CA!SourceFailure, A!ReviewRule, CA!ReviewRule, A!RELEASE_PROVIDER,
     CA!RELEASE_PROVIDER, A!NEUTRAL_RECOVERY, CA!NEUTRAL_RECOVERY
<1>8. CASE StaleEvidence(c)
  BY <1>1, <1>3, <1>4, <1>5, <1>8 DEF StaleEvidence, CA!ResolveCase
<1>9. CASE A!Stale(c) = {} /\ (DeliveryFails(c) \/ ResponseFails(c))
  BY <1>1, <1>2, <1>3, <1>4, <1>5, <1>7, <1>9 DEF DeliveryFails, ResponseFails, CA!ResolveCase
<1>10. CASE A!Stale(c) = {} /\ SourceFails(c)
  BY <1>1, <1>3, <1>4, <1>5, <1>7, <1>10, SameReading DEF SourceFails, CA!ResolveCase
<1>11. CASE A!Stale(c) = {} /\ RecordVerdict(c)
  BY <1>1, <1>3, <1>4, <1>6, <1>7, <1>11 DEF RecordVerdict, CA!ResolveCase
<1> QED BY <1>1, <1>8, <1>9, <1>10, <1>11 DEF ResolveCase

\* Settlement, its repetition, and recovery.
LEMMA SettlementAction ==
    ASSUME FatesSound, NEW c \in Handoff,
           \/ \E expected \in DOMAIN verdicts : A!QueueSettlement(c, expected)
           \/ A!RecoverCase(c)
    PROVE  CA!AdjudicatorStep /\ now' = now
<1> USE DEF Field
<1>1. ASSUME NEW r, A!Settle(c, r) PROVE CA!Settle(c, r)
  BY <1>1, VerdictMessages DEF A!Settle, CA!Settle, A!ApplyVerdict, CA!ApplyVerdict
<1>2. Typed
  BY DEF FatesSound
<1>3. ASSUME NEW expected \in DOMAIN verdicts, A!QueueSettlement(c, expected)
      PROVE  CA!QueueSettlement(c, expected) /\ now' = now
  <2>1. View[c] = cases[c] /\ cases[c].status = "REVIEWED" /\ Field \subseteq DOMAIN cases[c]
    BY <1>3, SeenAsIs DEF A!QueueSettlement, A!FirstQueue, A!Requeue
  <2>2. /\ A!FirstQueue(c) <=> CA!FirstQueue(c)
        /\ A!Requeue(c) <=> CA!Requeue(c)
    BY <2>1 DEF A!FirstQueue, CA!FirstQueue, A!Requeue, CA!Requeue
  <2>3. /\ now' = now /\ expected = View[c].verdict /\ expected > 0
        /\ verdicts[expected].case = c
        /\ verdicts[expected].revision = CA!Current(c)
        /\ UNCHANGED <<vaultBound, revisions, evidence, latest, verdicts>>
    BY <1>3, <2>1, SameReading DEF A!QueueSettlement
  <2>4. CASE A!FirstQueue(c) /\ cases' = [cases EXCEPT ![c].queued = TRUE]
    <3> DEFINE new == [cases[c] EXCEPT !.queued = TRUE]
    <3>1. cases' = [cases EXCEPT ![c] = new] /\ new.status = "REVIEWED"
      BY <2>1, <2>4
    <3>2. View' = [View EXCEPT ![c] = new]
      BY <1>2, <3>1, ViewMoves
    <3>3. View' = [View EXCEPT ![c].queued = TRUE]
      BY <2>1, <3>2
    <3>4. CASE vaultBound
      <4>1. A!Settle(c, verdicts[expected].rule)
        BY <1>3, <2>4, <3>4 DEF A!QueueSettlement, A!FirstQueue, A!Requeue
      <4>2. CA!Settle(c, verdicts[expected].rule)
        BY <1>1, <4>1
      <4> QED BY <2>2, <2>3, <2>4, <3>3, <3>4, <4>2 DEF CA!QueueSettlement
    <3>5. CASE ~vaultBound
      <4>1. VerdictNet' = VerdictNet
        BY <1>3, <3>5, VerdictMessages DEF A!QueueSettlement, A!Requeue
      <4> QED BY <2>2, <2>3, <2>4, <3>3, <3>5, <4>1 DEF CA!QueueSettlement
    <3> QED BY <3>4, <3>5
  <2>5. CASE A!Requeue(c) /\ A!Settle(c, verdicts[expected].rule) /\ UNCHANGED cases
    <3>1. View' = View
      BY <2>5 DEF View
    <3> QED BY <1>1, <2>2, <2>3, <2>5, <3>1 DEF CA!QueueSettlement
  <2> QED BY <1>3, <2>4, <2>5 DEF A!QueueSettlement
<1>4. CASE A!RecoverCase(c)
  <2>1. cases[c].status \in {"OPEN", "REPAIR_REQUIRED", "REVIEWED"} /\ ~cases[c].queued
    BY <1>4, Unqueued DEF A!RecoverCase, A!Recoverable
  <2>2. View[c] = cases[c] /\ Field \subseteq DOMAIN cases[c]
    BY <2>1, SeenAsIs
  <2>3. CA!Recoverable(c) /\ now' = now
        /\ UNCHANGED <<vaultBound, revisions, evidence, latest, verdicts>>
    BY <1>4, <2>2 DEF A!RecoverCase, A!Recoverable, CA!Recoverable
  <2> DEFINE new == [cases[c] EXCEPT !.status = "RECOVERED"]
  <2>4. cases' = [cases EXCEPT ![c] = new] /\ ~new.queued
    BY <1>4, <2>1, <2>2 DEF A!RecoverCase
  <2>5. View' = [View EXCEPT ![c] = new]
    BY <1>2, <2>4, ViewMoves
  <2>6. View' = [View EXCEPT ![c].status = "RECOVERED"]
    BY <2>2, <2>5
  <2>7. CASE vaultBound
    <3>1. CA!Settle(c, CA!NEUTRAL_RECOVERY)
      BY <1>1, <1>4, <2>7, SameReading DEF A!RecoverCase
    <3> QED BY <2>3, <2>6, <2>7, <3>1 DEF CA!RecoverCase, CA!AdjudicatorStep
  <2>8. CASE ~vaultBound
    <3>1. VerdictNet' = VerdictNet
      BY <1>4, <2>8, VerdictMessages DEF A!RecoverCase
    <3> QED BY <2>3, <2>6, <2>8, <3>1 DEF CA!RecoverCase, CA!AdjudicatorStep
  <2> QED BY <2>7, <2>8
<1> QED BY <1>3, <1>4 DEF CA!AdjudicatorStep

\* The copy of the Vault's status is not seen.
LEMMA SyncAction ==
    ASSUME FatesSound, CA!TypeOK, NEW c \in Handoff, NEW who, SyncCaseVaultStatus(c, who)
    PROVE  UNCHANGED CA!vars
<1> USE DEF Field
<1> DEFINE new == [cases[c] EXCEPT !.status = status[c]]
<1>1. /\ cases' = [cases EXCEPT ![c] = new] /\ cases[c].queued /\ status[c] # "REVIEWED"
      /\ UNCHANGED <<now, net, vaultBound, revisions, evidence, latest, verdicts>>
  BY DEF SyncCaseVaultStatus, EscrowEnded
<1>2. Field \subseteq DOMAIN cases[c] /\ DOMAIN cases = Handoff
  BY DEF FatesSound, Typed
<1>3. View[c] = [f \in DOMAIN View[c] |-> View[c][f]]
  BY DEF CA!TypeOK, CA!CaseRecord
<1>4. View'[c] = View[c]
  <2>1. View'[c] = [new EXCEPT !.status = "REVIEWED"] /\ new.queued /\ new.status = status[c]
    BY <1>1, <1>2 DEF View, AsDecided
  <2>2. [new EXCEPT !.status = "REVIEWED"] = [cases[c] EXCEPT !.status = "REVIEWED"]
    BY <1>2
  <2>3. CASE cases[c].status = "REVIEWED"
    <3>1. View[c] = cases[c]
      BY <2>3 DEF View, AsDecided
    <3>2. [cases[c] EXCEPT !.status = "REVIEWED"] = cases[c]
      BY <1>2, <1>3, <2>3, <3>1
    <3> QED BY <2>1, <2>2, <3>1, <3>2
  <2>4. CASE cases[c].status # "REVIEWED"
    BY <1>1, <2>1, <2>2, <2>4 DEF View, AsDecided
  <2> QED BY <2>3, <2>4
<1>5. \A k \in Handoff \ {c} : View'[k] = View[k]
  BY <1>1, <1>2 DEF View
<1>6. View' = View
  BY <1>4, <1>5 DEF View
<1> QED BY <1>1, <1>6, VerdictMessages DEF CA!vars, CA!adjudicatorVars

-----------------------------------------------------------------------------
\* The calls about a handoff send nothing about verdicts and leave its case alone.
LEMMA HandoffAction ==
    ASSUME NEW h, NEW who,
           \/ HandoffStep(RegisterHandoffInVault(h))
           \/ HandoffStep(SubmitHandoffDelivery(h, who))
           \/ HandoffStep(AcceptHandoffDelivery(h, who))
           \/ HandoffStep(RetryHandoffCompletion(h, who))
           \/ HandoffStep(RepairHandoffDelivery(h, who))
           \/ HandoffStep(SyncHandoffVaultStatus(h, who))
    PROVE  UNCHANGED <<now, VerdictNet, vaultBound, caseVars>>
<1>1. UNCHANGED <<vaultBound, caseVars>>
  BY DEF HandoffStep
<1>2. now' = now
  BY DEF HandoffStep, RegisterHandoffInVault, R!RegisterHandoffInVault, SubmitHandoffDelivery,
     R!SubmitHandoffDelivery, AcceptHandoffDelivery, R!AcceptHandoffDelivery,
     RetryHandoffCompletion, R!RetryHandoffCompletion, RepairHandoffDelivery,
     R!RepairHandoffDelivery, SyncHandoffVaultStatus
<1>3. net' = net \/ \E m : m.type # "verdict" /\ net' = net \cup {m}
  <2>1. \A v : R!Register(h).type # "verdict" /\ R!Complete(h, v).type # "verdict"
    BY DEF R!Register, R!Complete
  <2>2. \/ net' = net
        \/ net' = net \cup {R!Register(h)}
        \/ net' = net \cup {R!Complete(h, version[h])}
    BY DEF HandoffStep, RegisterHandoffInVault, R!RegisterHandoffInVault, SubmitHandoffDelivery,
       R!SubmitHandoffDelivery, AcceptHandoffDelivery, R!AcceptHandoffDelivery,
       RetryHandoffCompletion, R!RetryHandoffCompletion, RepairHandoffDelivery,
       R!RepairHandoffDelivery, SyncHandoffVaultStatus, R!Emit
  <2> QED BY <2>1, <2>2
<1> QED BY <1>1, <1>2, <1>3, VerdictMessages

\* What the parties do about a case the Adjudicator knows, but for the unseen copy.
LEMMA CaseAction ==
    ASSUME FatesSound, CA!TypeOK, NEW h \in Handoff, NEW who \in Account,
           \/ CaseStep(OpenCase(h, who))
           \/ CaseStep(SubmitResponse(h, who))
           \/ CaseStep(MarkRevisionReady(h, who))
           \/ CaseStep(RetryCurrentRevision(h, who))
           \/ \E response \in BOOLEAN : CaseStep(BeginRevision(h, who, response))
           \/ \E source \in Source, v \in 1..MaxEvidenceVersion, f \in FreshUntil :
                CaseStep(RegisterEvidence(h, who, source, v, f))
           \/ CaseStep(SyncCaseVaultStatus(h, who))
    PROVE  \/ CA!AdjudicatorStep
           \/ \E given \in [responseDeadline : Nat, recoveryDeadline : Nat] :
                CA!InitializeCase(h, given)
           \/ UNCHANGED CA!vars
<1>1. CASE CaseStep(OpenCase(h, who))
  BY <1>1, OpenAction DEF CaseStep
<1>2. CASE \/ CaseStep(SubmitResponse(h, who))
           \/ CaseStep(MarkRevisionReady(h, who))
           \/ CaseStep(RetryCurrentRevision(h, who))
           \/ \E response \in BOOLEAN : CaseStep(BeginRevision(h, who, response))
  <2>1. \/ A!SubmitResponse(h, who)
        \/ A!MarkRevisionReady(h, who)
        \/ A!RetryCurrentRevision(h, who)
        \/ \E response \in BOOLEAN : A!BeginRevision(h, who, response)
    BY <1>2 DEF CaseStep, SubmitResponse, MarkRevisionReady, RetryCurrentRevision, BeginRevision
  <2> QED BY <2>1, CollectAction
<1>3. ASSUME NEW source \in Source, NEW v \in 1..MaxEvidenceVersion, NEW f \in FreshUntil,
             CaseStep(RegisterEvidence(h, who, source, v, f))
      PROVE  CA!AdjudicatorStep
  BY <1>3, RegisterAction DEF CaseStep, RegisterEvidence
<1>4. CASE CaseStep(SyncCaseVaultStatus(h, who))
  BY <1>4, SyncAction DEF CaseStep
<1> QED BY <1>1, <1>2, <1>3, <1>4

\* The other steps leave the cases alone.
LEMMA OtherAction ==
    ASSUME Draft \/ VaultCall \/ (\E h \in Handoff : Deliver(h)) \/ UNCHANGED vars
    PROVE  UNCHANGED <<now, VerdictNet, vaultBound, caseVars, version>>
<1>1. UNCHANGED <<net, vaultBound, caseVars, version>>
  BY DEF Draft, DraftStep, VaultCall, Deliver, vars, handoffVars
<1>2. CASE Draft
  <2>1. now' = now
    BY <1>2 DEF Draft, DraftStep, CreateEvidencePolicy, AddPolicyIssuer, AddPolicyPublisher,
       SealEvidencePolicy, CreateWorkflow, ActivateWorkflow, CloseWorkflow, AddHandoff,
       AddHandoffDependency, D!CreateEvidencePolicy, D!AddPolicyIssuer, D!AddPolicyPublisher,
       D!SealEvidencePolicy, D!CreateWorkflow, D!ActivateWorkflow, D!AddHandoff,
       D!AddHandoffDependency
  <2> QED BY <1>1, <2>1, VerdictMessages
<1>3. CASE VaultCall
  <2>1. now' = now
    BY <1>3 DEF VaultCall, V!AccountCall, V!FundHandoff, V!PostBond, V!RecoverUnactivated,
       V!RecoverActive
  <2> QED BY <1>1, <2>1, VerdictMessages
<1>4. ASSUME NEW h \in Handoff, Deliver(h) PROVE now' = now
  BY <1>4 DEF Deliver, V!RegisterHandoff, V!RegistrationIgnored, V!ApplyHandoffCompletion,
     V!CompletionIgnored, V!ApplyFinalVerdict, V!VerdictIgnored, V!vars
<1>5. CASE UNCHANGED vars
  BY <1>1, <1>5, VerdictMessages DEF vars
<1> QED BY <1>1, <1>2, <1>3, <1>4, <1>5, VerdictMessages

\* What a call about a handoff is to the Adjudicator.
LEMMA CallAction ==
    ASSUME FatesSound, CA!TypeOK, NEW h \in Handoff, CoreCall(h)
    PROVE  \/ CA!AdjudicatorStep
           \/ \E given \in [responseDeadline : Nat, recoveryDeadline : Nat] :
                CA!InitializeCase(h, given)
           \/ CA!ResolveCase(h, version[h])
           \/ UNCHANGED CA!vars
<1>1. UNCHANGED <<now, VerdictNet, vaultBound, caseVars>> => UNCHANGED CA!vars
  BY DEF caseVars, View, CA!vars, CA!adjudicatorVars
<1>2. CASE CaseStep(ResolveCase(h))
  BY <1>2, ReviewAction DEF CaseStep
<1>3. CASE \/ \E expected \in DOMAIN verdicts : CaseStep(QueueSettlement(h, expected))
           \/ CaseStep(RecoverCase(h))
  <2>1. \/ \E expected \in DOMAIN verdicts : A!QueueSettlement(h, expected)
        \/ A!RecoverCase(h)
    BY <1>3 DEF CaseStep, QueueSettlement, RecoverCase
  <2> QED BY <2>1, SettlementAction
<1>4. CASE HandoffStep(RegisterHandoffInVault(h))
  BY <1>1, <1>4, HandoffAction
<1> QED BY <1>1, <1>2, <1>3, <1>4, CaseAction, HandoffAction DEF CoreCall

\* Every step of the contract and its Vault is one of the Adjudicator, or unseen.
LEMMA CaseStepIsKnown ==
    ASSUME CInv, CA!TypeOK, version \in [Handoff -> Nat], [Next]_vars
    PROVE  [CA!Next]_(CA!vars)
<1>1. UNCHANGED <<now, VerdictNet, vaultBound, caseVars>> => UNCHANGED CA!vars
  BY DEF caseVars, View, CA!vars, CA!adjudicatorVars
<1>2. FatesSound /\ DOMAIN handoffs \subseteq Handoff
  BY DEF CInv, FatesSound, Typed
<1>3. CASE Tick
  <2>1. net' = net /\ now < MaxTime /\ now' = now + 1 /\ UNCHANGED <<vaultBound, caseVars>>
    BY <1>3 DEF Tick, V!Tick
  <2>2. CA!Tick
    BY <2>1, VerdictMessages DEF CA!Tick, CA!adjudicatorVars, caseVars, View
  <2> QED BY <2>2 DEF CA!Next
<1>4. ASSUME NEW who \in Account, BindVault(who)
      PROVE  CA!Next
  <2>1. CA!BindVault
    BY <1>4, VerdictMessages DEF BindVault, A!BindVault, CA!BindVault, View
  <2> QED BY <2>1 DEF CA!Next, CA!AdjudicatorStep
<1>5. ASSUME NEW h \in DOMAIN handoffs, CoreCall(h)
      PROVE  [CA!Next]_(CA!vars)
  <2>1. h \in Handoff /\ version[h] \in Nat
    BY <1>2
  <2> QED BY <1>2, <1>5, <2>1, CallAction DEF CA!Next
<1>6. CASE Draft \/ VaultCall \/ (\E h \in DOMAIN handoffs : Deliver(h)) \/ UNCHANGED vars
  BY <1>1, <1>2, <1>6, OtherAction
<1> QED BY <1>3, <1>4, <1>5, <1>6 DEF Next

\* Deliveries are counted.
LEMMA VersionKept ==
    ASSUME CInv, version \in [Handoff -> Nat], [Next]_vars
    PROVE  version' \in [Handoff -> Nat]
<1>1. ASSUME NEW h, NEW who,
             HandoffStep(SubmitHandoffDelivery(h, who)) \/ HandoffStep(RepairHandoffDelivery(h, who))
      PROVE  version' \in [Handoff -> Nat]
  BY <1>1 DEF HandoffStep, SubmitHandoffDelivery, R!SubmitHandoffDelivery,
     RepairHandoffDelivery, R!RepairHandoffDelivery
<1>2. ASSUME NEW h, CoreCall(h)
      PROVE  version' \in [Handoff -> Nat]
  <2>1. \/ version' = version
        \/ \E who : \/ HandoffStep(SubmitHandoffDelivery(h, who))
                    \/ HandoffStep(RepairHandoffDelivery(h, who))
    BY <1>2 DEF CoreCall, CaseStep, HandoffStep, handoffVars, RegisterHandoffInVault,
       R!RegisterHandoffInVault, AcceptHandoffDelivery, R!AcceptHandoffDelivery,
       RetryHandoffCompletion, R!RetryHandoffCompletion, SyncHandoffVaultStatus, R!registryVars
  <2> QED BY <1>1, <2>1
<1>3. CASE \/ Tick \/ (\E who \in Account : BindVault(who))
           \/ Draft \/ VaultCall \/ UNCHANGED vars
           \/ \E h \in DOMAIN handoffs : Deliver(h)
  BY <1>3 DEF Tick, BindVault, Draft, DraftStep, VaultCall, Deliver, vars, handoffVars
<1> QED BY <1>2, <1>3 DEF Next

\* What the single contract keeps of its cases, seen as the Adjudicator's.
SeenInv == CInv /\ CA!IInv /\ version \in [Handoff -> Nat]

LEMMA InitSeen == Init => SeenInv /\ CA!Init
<1> SUFFICES ASSUME Init PROVE SeenInv /\ CA!Init
  OBVIOUS
<1>1. A!NoCase.status = "NONE" /\ ~A!NoCase.queued /\ A!NoCase = CA!NoCase
  BY DEF A!NoCase, CA!NoCase
<1>2. View = [h \in Handoff |-> CA!NoCase] /\ VerdictNet = {}
  BY <1>1 DEF Init, A!Init, View, AsDecided, VerdictNet
<1>3. CA!Init
  BY <1>2 DEF Init, A!Init, CA!Init, A!StableId, CA!StableId
<1>4. CA!IInv
  BY <1>3, CaseAssumptions, CA!InitIInv
<1>5. version \in [Handoff -> Nat]
  BY DEF Init
<1> QED BY <1>3, <1>4, <1>5, InitCInv DEF SeenInv

LEMMA NextSeen == SeenInv /\ [Next]_vars => SeenInv' /\ [CA!Next]_(CA!vars)
<1> SUFFICES ASSUME SeenInv, [Next]_vars PROVE SeenInv' /\ [CA!Next]_(CA!vars)
  OBVIOUS
<1>1. CA!TypeOK
  BY DEF SeenInv, CA!IInv
<1>2. [CA!Next]_(CA!vars)
  BY <1>1, CaseStepIsKnown DEF SeenInv
<1>3. CA!IInv'
  BY <1>2, CaseAssumptions, CA!NextIInv DEF SeenInv
<1> QED BY <1>2, <1>3, NextCInv, VersionKept DEF SeenInv

LEMMA SeenInvariant == Spec => []SeenInv
BY InitSeen, NextSeen, PTL DEF Spec

\* The single contract works on a case as the Adjudicator does: opened in the
\* transaction that disputes the handoff, reviewed on the delivery read in place.
THEOREM CoreIsAdjudicator == Spec => CA!Spec
BY InitSeen, NextSeen, SeenInvariant, PTL DEF Spec, CA!Spec

\* In the single contract evidence keeps its identity and its independence, and is
\* carried into the next revision.
THEOREM CoreEvidenceIsSound ==
    Spec => [](CA!StableIdentity /\ CA!IndependentEvidence /\ CA!CarriedForward)
<1>1. /\ CA!Spec => []CA!StableIdentity
      /\ CA!Spec => []CA!IndependentEvidence
      /\ CA!Spec => []CA!CarriedForward
  BY CaseAssumptions, CA!IdentityIsStable, CA!CitationsAreIndependent, CA!EvidenceIsCarried
<1> QED BY <1>1, CoreIsAdjudicator, PTL

\* In the single contract a decision is final, leaves the parties the response window,
\* and has one consequence, also when the Vault's status was copied over the case's.
THEOREM CoreDecisionIsFinal ==
    Spec => CA!DecisionIsFinal /\ CA!ResponseWindowKept /\ []CA!OneConsequence
<1>1. /\ CA!Spec => CA!DecisionIsFinal
      /\ CA!Spec => CA!ResponseWindowKept
      /\ CA!Spec => []CA!OneConsequence
  BY CaseAssumptions, CA!DecisionNeverChanges, CA!WindowIsKept, CA!ConsequenceIsUnique
<1> QED BY <1>1, CoreIsAdjudicator, PTL

-----------------------------------------------------------------------------
(* What is paid was founded.                                               *)

\* What the parties do, short of a review, reviews no case and records no verdict.
LEMMA WorkShape ==
    ASSUME CA!TypeOK, NEW k \in Handoff,
           \/ CA!AdjudicatorStep
           \/ \E h \in Handoff : \E given \in [responseDeadline : Nat, recoveryDeadline : Nat] :
                CA!InitializeCase(h, given)
           \/ UNCHANGED CA!vars
    PROVE  /\ verdicts' = verdicts
           /\ View'[k].status = "REVIEWED" =>
                 View[k].status = "REVIEWED" /\ View'[k].verdict = View[k].verdict
<1>1. View \in [Handoff -> CA!CaseRecord]
  BY DEF CA!TypeOK
<1> DEFINE Shape == /\ verdicts' = verdicts
                    /\ View'[k].status = "REVIEWED" =>
                          View[k].status = "REVIEWED" /\ View'[k].verdict = View[k].verdict
<1>2. ASSUME NEW c \in Handoff, NEW new, View' = [View EXCEPT ![c] = new], verdicts' = verdicts,
             \/ new.status # "REVIEWED"
             \/ View[c].status = "REVIEWED" /\ new.verdict = View[c].verdict
             \/ new.status = View[c].status /\ new.verdict = View[c].verdict
      PROVE  Shape
  BY <1>1, <1>2
<1>3. ASSUME NEW c \in Handoff, NEW who \in Account,
             \/ CA!SubmitResponse(c, who)
             \/ CA!MarkRevisionReady(c, who)
             \/ CA!RetryCurrentRevision(c, who)
             \/ \E response \in BOOLEAN : CA!BeginRevision(c, who, response)
      PROVE  Shape
  <2>1. CASE CA!SubmitResponse(c, who)
    <3> DEFINE new == [View[c] EXCEPT !.response = TRUE]
    <3>1. View' = [View EXCEPT ![c] = new] /\ verdicts' = verdicts
      BY <2>1 DEF CA!SubmitResponse
    <3>2. new.status = View[c].status /\ new.verdict = View[c].verdict
      BY <1>1 DEF CA!CaseRecord
    <3> QED BY <1>2, <3>1, <3>2
  <2>2. CASE CA!MarkRevisionReady(c, who)
    <3> DEFINE new == [View[c] EXCEPT !.ready = View[c].ready \cup {who}]
    <3>1. View' = [View EXCEPT ![c] = new] /\ verdicts' = verdicts
      BY <2>2 DEF CA!MarkRevisionReady
    <3>2. new.status = View[c].status /\ new.verdict = View[c].verdict
      BY <1>1 DEF CA!CaseRecord
    <3> QED BY <1>2, <3>1, <3>2
  <2>3. CASE CA!RetryCurrentRevision(c, who)
    <3> DEFINE new == [View[c] EXCEPT !.status = "OPEN", !.failure = "",
                                      !.repairDeadline = 0, !.responseDeadline = now]
    <3>1. View' = [View EXCEPT ![c] = new] /\ verdicts' = verdicts
      BY <2>3 DEF CA!RetryCurrentRevision
    <3>2. new.status # "REVIEWED"
      BY <1>1 DEF CA!CaseRecord
    <3> QED BY <1>2, <3>1, <3>2
  <2>4. ASSUME NEW response \in BOOLEAN, CA!BeginRevision(c, who, response) PROVE Shape
    <3> DEFINE new == [View[c] EXCEPT !.status = "OPEN", !.verdict = 0,
                !.settlementEarliestAt = 0, !.queued = FALSE,
                !.responseDeadline = now + ResponseWindow, !.repairDeadline = 0,
                !.response = response, !.ready = {}, !.failure = ""]
    <3>1. View' = [View EXCEPT ![c] = new] /\ verdicts' = verdicts
      BY <2>4 DEF CA!BeginRevision
    <3>2. new.status # "REVIEWED"
      BY <1>1 DEF CA!CaseRecord
    <3> QED BY <1>2, <3>1, <3>2
  <2> QED BY <1>3, <2>1, <2>2, <2>3, <2>4
<1>4. ASSUME NEW c \in Handoff,
             \/ \E expected \in DOMAIN verdicts : CA!QueueSettlement(c, expected)
             \/ CA!RecoverCase(c)
             \/ CA!RecoverAgain(c)
      PROVE  Shape
  <2>1. ASSUME NEW expected, CA!QueueSettlement(c, expected) PROVE Shape
    <3>1. CASE CA!FirstQueue(c) /\ View' = [View EXCEPT ![c].queued = TRUE]
      <4> DEFINE new == [View[c] EXCEPT !.queued = TRUE]
      <4>1. View' = [View EXCEPT ![c] = new] /\ verdicts' = verdicts
        BY <2>1, <3>1 DEF CA!QueueSettlement
      <4>2. new.status = View[c].status /\ new.verdict = View[c].verdict
        BY <1>1 DEF CA!CaseRecord
      <4> QED BY <1>2, <4>1, <4>2
    <3>2. CASE UNCHANGED View
      BY <2>1, <3>2 DEF CA!QueueSettlement
    <3> QED BY <2>1, <3>1, <3>2 DEF CA!QueueSettlement
  <2>2. CASE CA!RecoverCase(c)
    <3> DEFINE new == [View[c] EXCEPT !.status = "RECOVERED"]
    <3>1. View' = [View EXCEPT ![c] = new] /\ verdicts' = verdicts
      BY <2>2 DEF CA!RecoverCase
    <3>2. new.status # "REVIEWED"
      BY <1>1 DEF CA!CaseRecord
    <3> QED BY <1>2, <3>1, <3>2
  <2>3. CASE CA!RecoverAgain(c)
    BY <2>3 DEF CA!RecoverAgain, CA!adjudicatorVars
  <2> QED BY <1>4, <2>1, <2>2, <2>3
<1>5. ASSUME NEW c \in Handoff, NEW given, CA!InitializeCase(c, given) PROVE Shape
  <2> DEFINE new == [CA!NoCase EXCEPT !.status = "OPEN",
                                      !.responseDeadline = given.responseDeadline,
                                      !.recoveryDeadline = given.recoveryDeadline]
  <2>1. View' = [View EXCEPT ![c] = new] /\ verdicts' = verdicts
    BY <1>5 DEF CA!InitializeCase
  <2>2. new.status # "REVIEWED"
    BY DEF CA!NoCase
  <2> QED BY <1>2, <2>1, <2>2
<1>6. CASE \/ CA!BindVault \/ UNCHANGED CA!vars
           \/ \E c \in Handoff, who \in Account, source \in Source, v \in 1..MaxEvidenceVersion,
                 f \in FreshUntil : CA!RegisterEvidence(c, who, source, v, f)
  <2>1. View' = View /\ verdicts' = verdicts
    BY <1>6 DEF CA!BindVault, CA!vars, CA!adjudicatorVars, CA!RegisterEvidence
  <2> QED BY <2>1
<1>7. CASE CA!AdjudicatorStep
  BY <1>3, <1>4, <1>6, <1>7 DEF CA!AdjudicatorStep
<1> QED BY <1>5, <1>6, <1>7

\* A review finds a failure, or records a verdict on the delivery it was given.
LEMMA ReviewShape ==
    ASSUME CA!TypeOK, CA!VerdictIsCurrent, NEW c \in Handoff, NEW d, CA!ResolveCase(c, d),
           NEW k \in Handoff, View'[k].status = "REVIEWED"
    PROVE  \/ k = c /\ verdicts'[View'[k].verdict].delivery = d
           \/ /\ k # c /\ View'[k] = View[k]
              /\ verdicts'[View[k].verdict] = verdicts[View[k].verdict]
<1>1. View \in [Handoff -> CA!CaseRecord] /\ verdicts \in Seq(CA!Verdict)
      /\ View[k].verdict <= Len(verdicts)
  BY DEF CA!TypeOK
<1>2. ASSUME NEW code, NEW e, CA!RequireRepair(c, code, e)
      PROVE  k # c /\ View'[k] = View[k] /\ verdicts' = verdicts
  <2> DEFINE new == [View[c] EXCEPT !.status = "REPAIR_REQUIRED", !.failure = code,
                  !.repairDeadline = CA!Least(now + OwnerPolicy.repairWindow,
                                              View[c].recoveryDeadline)]
  <2>1. View' = [View EXCEPT ![c] = new] /\ verdicts' = verdicts
    BY <1>2 DEF CA!RequireRepair
  <2>2. new.status # "REVIEWED"
    BY <1>1 DEF CA!CaseRecord
  <2> HIDE DEF new
  <2> QED BY <1>1, <2>1, <2>2
<1>3. ASSUME NEW r, CA!RecordVerdict(c, r, d)
      PROVE  \/ k = c /\ verdicts'[View'[k].verdict].delivery = d
             \/ /\ k # c /\ View'[k] = View[k]
                /\ verdicts'[View[k].verdict] = verdicts[View[k].verdict]
  <2> DEFINE v == [case |-> c, revision |-> CA!Current(c), rule |-> r, delivery |-> d, at |-> now]
             new == [View[c] EXCEPT !.status = "REVIEWED", !.verdict = Len(verdicts) + 1,
                  !.queued = FALSE,
                  !.settlementEarliestAt = CA!Least(now + ResponseWindow,
                                                    View[c].recoveryDeadline)]
  <2>1. View' = [View EXCEPT ![c] = new] /\ verdicts' = Append(verdicts, v)
    BY <1>3 DEF CA!RecordVerdict
  <2>2. new.verdict = Len(verdicts) + 1 /\ v.delivery = d
    BY <1>1 DEF CA!CaseRecord
  <2> HIDE DEF new, v
  <2>3. CASE k = c
    <3>1. verdicts'[Len(verdicts) + 1] = v
      BY <1>1, <2>1
    <3> QED BY <1>1, <2>1, <2>2, <2>3, <3>1
  <2>4. CASE k # c
    <3>1. View'[k] = View[k]
      BY <1>1, <2>1, <2>4
    <3>2. View[k].verdict > 0 /\ View[k].verdict \in Nat
      BY <1>1, <3>1 DEF CA!VerdictIsCurrent, CA!CaseRecord
    <3>3. View[k].verdict \in 1..Len(verdicts)
      BY <1>1, <3>2
    <3> QED BY <1>1, <2>1, <2>4, <3>1, <3>3
  <2> QED BY <2>3, <2>4
<1> QED BY <1>2, <1>3 DEF CA!ResolveCase

\* A reviewed case is about the delivery shown, whatever repairs came before; an
\* acceptance is of a delivery, and of the one its completion names.
ReviewedDelivery(h) ==
    View[h].status = "REVIEWED" => verdicts[View[h].verdict].delivery = version[h]
CompletedDelivery(h) ==
    /\ R!Accepted(h) => version[h] > 0
    /\ \A v : R!Complete(h, v) \in net => v = version[h]
DeliverySound == \A h \in Handoff : ReviewedDelivery(h) /\ CompletedDelivery(h)

\* The calls that touch a delivery are four; no other sends a completion.
LEMMA CallShape ==
    ASSUME NEW h, CoreCall(h)
    PROVE  \/ /\ UNCHANGED handoffVars
              /\ net' = net \/ \E m : m.type # "complete" /\ net' = net \cup {m}
           \/ \E who : \/ HandoffStep(SubmitHandoffDelivery(h, who))
                       \/ HandoffStep(AcceptHandoffDelivery(h, who))
                       \/ HandoffStep(RetryHandoffCompletion(h, who))
                       \/ HandoffStep(RepairHandoffDelivery(h, who))
<1> DEFINE Still == /\ UNCHANGED handoffVars
                    /\ net' = net \/ \E m : m.type # "complete" /\ net' = net \cup {m}
<1>1. ASSUME NEW who, HandoffStep(SyncHandoffVaultStatus(h, who)) PROVE Still
  BY <1>1 DEF HandoffStep, SyncHandoffVaultStatus
<1>5. ASSUME NEW who,
             \/ CaseStep(OpenCase(h, who))
             \/ CaseStep(SubmitResponse(h, who))
             \/ CaseStep(MarkRevisionReady(h, who))
             \/ CaseStep(RetryCurrentRevision(h, who))
             \/ \E response \in BOOLEAN : CaseStep(BeginRevision(h, who, response))
             \/ \E source \in Source, v \in 1..MaxEvidenceVersion, f \in FreshUntil :
                  CaseStep(RegisterEvidence(h, who, source, v, f))
             \/ CaseStep(SyncCaseVaultStatus(h, who))
      PROVE  Still
  <2>1. /\ OpenCase(h, who) => net' = net
        /\ SubmitResponse(h, who) => net' = net
        /\ MarkRevisionReady(h, who) => net' = net
        /\ RetryCurrentRevision(h, who) => net' = net
        /\ SyncCaseVaultStatus(h, who) => net' = net
    BY DEF OpenCase, A!InitializeCase, SubmitResponse, A!SubmitResponse, MarkRevisionReady,
       A!MarkRevisionReady, RetryCurrentRevision, A!RetryCurrentRevision, SyncCaseVaultStatus
  <2>2. \A response : BeginRevision(h, who, response) => net' = net
    BY DEF BeginRevision, A!BeginRevision
  <2>3. \A source, v, f : RegisterEvidence(h, who, source, v, f) => net' = net
    BY DEF RegisterEvidence, A!RegisterEvidence
  <2> QED BY <1>5, <2>1, <2>2, <2>3 DEF CaseStep
<1>6. CASE CaseStep(ResolveCase(h))
  BY <1>6 DEF CaseStep, ResolveCase
<1>2. CASE HandoffStep(RegisterHandoffInVault(h))
  <2>1. R!Register(h).type # "complete"
    BY DEF R!Register
  <2> QED BY <1>2, <2>1 DEF HandoffStep, RegisterHandoffInVault, R!RegisterHandoffInVault,
          R!Emit, R!registryVars, handoffVars
<1>3. CASE \/ \E expected \in DOMAIN verdicts : CaseStep(QueueSettlement(h, expected))
           \/ CaseStep(RecoverCase(h))
  <2>1. \A r : A!ApplyVerdict(h, r).type # "complete"
    BY DEF A!ApplyVerdict
  <2>2. net' = net \/ \E r : net' = net \cup {A!ApplyVerdict(h, r)}
    BY <1>3 DEF CaseStep, QueueSettlement, A!QueueSettlement, RecoverCase, A!RecoverCase,
       A!Settle
  <2>3. UNCHANGED handoffVars
    BY <1>3 DEF CaseStep
  <2> QED BY <2>1, <2>2, <2>3
<1> QED BY <1>1, <1>2, <1>3, <1>5, <1>6 DEF CoreCall

\* A delivery is only replaced while nothing is accepted and nothing reviewed.
LEMMA CallDelivers ==
    ASSUME SeenInv, NEW h \in Handoff, CoreCall(h), NEW k \in Handoff, CompletedDelivery(k)
    PROVE  /\ CompletedDelivery(k)'
           /\ \/ version'[k] = version[k]
              \/ UNCHANGED caseVars /\ View[k].status # "REVIEWED"
<1>1. /\ DOMAIN cases = Handoff /\ version \in [Handoff -> Nat] /\ acceptedAt \in [Handoff -> Nat]
      /\ now \in Nat \ {0}
  BY DEF SeenInv, CInv, FatesSound, Typed
<1>2. /\ R!Accepted(k) => cases[k].status = "NONE"
      /\ cases[k].status \in {"NONE", "REPAIR_REQUIRED"} => View[k] = cases[k]
  <2>1. CaseSound(k)
    BY DEF SeenInv, CInv, FatesSound, CasesSound
  <2> QED BY <2>1 DEF CaseSound, View, AsDecided
<1>3. \A v : R!Complete(k, v) \in net => R!Accepted(k)
  BY DEF SeenInv, CInv, FatesSound, InstructionsSound
<1>4. \A v : /\ R!Complete(k, v).type = "complete"
             /\ \A w : R!Complete(k, v) = R!Complete(h, w) => k = h /\ v = w
  BY DEF R!Complete
<1>5. CASE /\ UNCHANGED handoffVars
           /\ net' = net \/ \E m : m.type # "complete" /\ net' = net \cup {m}
  BY <1>4, <1>5 DEF CompletedDelivery, R!Accepted, handoffVars
<1>6. ASSUME NEW who, HandoffStep(SubmitHandoffDelivery(h, who))
      PROVE  /\ CompletedDelivery(k)'
             /\ version'[k] = version[k] \/ (UNCHANGED caseVars /\ View[k].status # "REVIEWED")
  <2>1. /\ version' = [version EXCEPT ![h] = 1] /\ UNCHANGED <<acceptedAt, net, caseVars>>
        /\ ~R!Accepted(h) /\ cases[h].status = "NONE"
    BY <1>1, <1>6 DEF HandoffStep, SubmitHandoffDelivery, R!SubmitHandoffDelivery, R!Undecided,
       R!HasCase, R!NoContext
  <2>2. CASE k = h
    <3>1. View[k].status # "REVIEWED" /\ ~R!Accepted(k) /\ ~R!Accepted(k)'
      BY <1>2, <2>1, <2>2 DEF R!Accepted
    <3>2. CompletedDelivery(k)'
      BY <1>3, <2>1, <3>1 DEF CompletedDelivery
    <3> QED BY <2>1, <3>1, <3>2
  <2>3. CASE k # h
    <3>1. version'[k] = version[k]
      BY <1>1, <2>1, <2>3
    <3>2. R!Accepted(k)' = R!Accepted(k) /\ net' = net
      BY <2>1 DEF R!Accepted
    <3>3. CompletedDelivery(k)'
      BY <3>1, <3>2 DEF CompletedDelivery
    <3> QED BY <3>1, <3>3
  <2> QED BY <2>2, <2>3
<1>7. ASSUME NEW who, HandoffStep(AcceptHandoffDelivery(h, who))
      PROVE  CompletedDelivery(k)' /\ version' = version
  <2>1. /\ version' = version /\ version[h] > 0 /\ acceptedAt' = [acceptedAt EXCEPT ![h] = now]
        /\ net' = net \/ net' = net \cup {R!Complete(h, version[h])}
    BY <1>7 DEF HandoffStep, AcceptHandoffDelivery, R!AcceptHandoffDelivery, R!Emit
  <2> QED BY <1>1, <1>4, <2>1 DEF CompletedDelivery, R!Accepted
<1>8. ASSUME NEW who, HandoffStep(RetryHandoffCompletion(h, who))
      PROVE  CompletedDelivery(k)' /\ version' = version
  <2>1. UNCHANGED <<version, acceptedAt>> /\ net' = net \cup {R!Complete(h, version[h])}
    BY <1>8 DEF HandoffStep, RetryHandoffCompletion, R!RetryHandoffCompletion, R!Emit,
       R!registryVars
  <2> QED BY <1>4, <2>1 DEF CompletedDelivery, R!Accepted
<1>9. ASSUME NEW who, HandoffStep(RepairHandoffDelivery(h, who))
      PROVE  /\ CompletedDelivery(k)'
             /\ version'[k] = version[k] \/ (UNCHANGED caseVars /\ View[k].status # "REVIEWED")
  <2>1. /\ version' = [version EXCEPT ![h] = version[h] + 1]
        /\ UNCHANGED <<acceptedAt, net, caseVars>> /\ cases[h].status = "REPAIR_REQUIRED"
    BY <1>1, <1>9 DEF HandoffStep, RepairHandoffDelivery, R!RepairHandoffDelivery,
       R!NeedsDelivery
  <2>2. CASE k = h
    <3>1. View[k].status # "REVIEWED" /\ ~R!Accepted(k) /\ ~R!Accepted(k)'
      BY <1>2, <2>1, <2>2 DEF R!Accepted
    <3>2. CompletedDelivery(k)'
      BY <1>3, <2>1, <3>1 DEF CompletedDelivery
    <3> QED BY <2>1, <3>1, <3>2
  <2>3. CASE k # h
    <3>1. version'[k] = version[k]
      BY <1>1, <2>1, <2>3
    <3>2. R!Accepted(k)' = R!Accepted(k) /\ net' = net
      BY <2>1 DEF R!Accepted
    <3>3. CompletedDelivery(k)'
      BY <3>1, <3>2 DEF CompletedDelivery
    <3> QED BY <3>1, <3>3
  <2> QED BY <2>2, <2>3
<1> QED BY <1>5, <1>6, <1>7, <1>8, <1>9, CallShape DEF handoffVars

\* The review is of the delivery shown, and stays so.
LEMMA CallReviews ==
    ASSUME SeenInv, NEW h \in Handoff, CoreCall(h), NEW k \in Handoff,
           CompletedDelivery(k), ReviewedDelivery(k)
    PROVE  ReviewedDelivery(k)'
<1>1. CA!TypeOK /\ CA!VerdictIsCurrent /\ FatesSound
  BY DEF SeenInv, CInv, CA!IInv
<1>2. \/ version'[k] = version[k]
      \/ UNCHANGED caseVars /\ View[k].status # "REVIEWED"
  BY CallDelivers
<1>3. CASE UNCHANGED caseVars /\ View[k].status # "REVIEWED"
  BY <1>3 DEF ReviewedDelivery, View, caseVars
<1>4. CASE version'[k] = version[k]
  <2> SUFFICES ASSUME View'[k].status = "REVIEWED"
               PROVE  verdicts'[View'[k].verdict].delivery = version[k]
    BY <1>4 DEF ReviewedDelivery
  <2>1. CASE CA!ResolveCase(h, version[h])
    BY <1>1, <2>1, ReviewShape DEF ReviewedDelivery
  <2>2. CASE ~CA!ResolveCase(h, version[h])
    <3>1. \/ CA!AdjudicatorStep
          \/ \E given \in [responseDeadline : Nat, recoveryDeadline : Nat] :
                CA!InitializeCase(h, given)
          \/ UNCHANGED CA!vars
      BY <1>1, <2>2, CallAction
    <3> QED BY <1>1, <3>1, WorkShape DEF ReviewedDelivery
  <2> QED BY <2>1, <2>2
<1> QED BY <1>2, <1>3, <1>4

LEMMA InitDelivery == Init => DeliverySound
<1> SUFFICES ASSUME Init, NEW h \in Handoff PROVE ReviewedDelivery(h) /\ CompletedDelivery(h)
  BY DEF DeliverySound
<1>1. View[h].status = "NONE"
  BY DEF Init, A!Init, A!NoCase, View, AsDecided
<1> QED BY <1>1 DEF Init, A!Init, ReviewedDelivery, CompletedDelivery, R!Accepted

LEMMA NextDelivery == SeenInv /\ DeliverySound /\ [Next]_vars => DeliverySound'
<1> SUFFICES ASSUME SeenInv, DeliverySound, [Next]_vars, NEW k \in Handoff
             PROVE  ReviewedDelivery(k)' /\ CompletedDelivery(k)'
  BY DEF DeliverySound
<1>1. ReviewedDelivery(k) /\ CompletedDelivery(k) /\ DOMAIN handoffs \subseteq Handoff
  BY DEF DeliverySound, SeenInv, CInv, FatesSound, Typed
<1>2. ASSUME NEW h \in DOMAIN handoffs, CoreCall(h)
      PROVE  ReviewedDelivery(k)' /\ CompletedDelivery(k)'
  BY <1>1, <1>2, CallDelivers, CallReviews
<1>3. CASE \/ Tick \/ (\E who \in Account : BindVault(who))
           \/ Draft \/ VaultCall \/ UNCHANGED vars
           \/ \E h \in DOMAIN handoffs : Deliver(h)
  <2>1. UNCHANGED <<net, cases, verdicts, handoffVars>>
    BY <1>3 DEF Tick, BindVault, A!BindVault, Draft, DraftStep, VaultCall, Deliver, vars, caseVars
  <2> QED BY <1>1, <2>1 DEF ReviewedDelivery, CompletedDelivery, View, R!Accepted, handoffVars
<1> QED BY <1>2, <1>3 DEF Next

LEMMA DeliveryInvariant == Spec => []DeliverySound
BY InitDelivery, NextDelivery, SeenInvariant, PTL DEF Spec

\* In the single contract too, every completion instruction is for an accepted handoff
\* and names the delivery accepted.
THEOREM CoreCompletionIsUnique == Spec => []R!CompletionNamesAcceptedDelivery
<1>1. SeenInv /\ DeliverySound => R!CompletionNamesAcceptedDelivery
  BY DEF SeenInv, CInv, FatesSound, InstructionsSound, DeliverySound, CompletedDelivery,
     R!CompletionNamesAcceptedDelivery
<1> QED BY <1>1, SeenInvariant, DeliveryInvariant, PTL

\* A verdict on a case that its parties could not revise any more: on the delivery the
\* handoff still shows, from the case's last revision, resting on cited evidence from
\* enough issuers and publishers, all of it fresh when the review was made.
Founded(h, v) ==
    LET revision == revisions[h][v.revision]
        cited == {evidence[e] : e \in revision.evidence}
    IN  /\ v.case = h
        /\ v.revision = Len(revisions[h])
        /\ v.delivery = version[h]
        /\ Cardinality({e.issuer : e \in cited}) >= MinIssuers
        /\ Cardinality({e.source.publisher : e \in cited}) >= MinPublishers
        /\ \A e \in cited : e.freshUntil >= v.at

\* Every consequence the Vault paid is that of a founded verdict that was queued, or
\* the neutral one of a case recovered before anything was queued, although the case
\* may since show the status copied from the Vault instead of its own.
PaymentsFounded ==
    \A h, c \in Handoff, r \in 1..3 :
        log[h] = <<V!VerdictApplied(c, r)>> =>
            /\ c = h
            /\ \/ ~cases[h].queued /\ cases[h].status = "RECOVERED" /\ r = A!NEUTRAL_RECOVERY
               \/ /\ cases[h].queued /\ verdicts[cases[h].verdict].rule = r
                  /\ Founded(h, verdicts[cases[h].verdict])

LEMMA SameCount == \A S : CA!Cardinality(S) = Cardinality(S)
BY DEF CA!Cardinality, Cardinality

\* In the single contract no money moves on a superseded verdict, on a replaced
\* delivery or on evidence that corroborates nothing.
THEOREM CorePaymentsAreFounded == Spec => []PaymentsFounded
<1>1. SeenInv /\ DeliverySound /\ CA!VerdictBasis => PaymentsFounded
  <2> SUFFICES ASSUME SeenInv, DeliverySound, CA!VerdictBasis,
                      NEW h \in Handoff, NEW c \in Handoff, NEW r \in 1..3,
                      log[h] = <<V!VerdictApplied(c, r)>>
               PROVE  /\ c = h
                      /\ \/ /\ ~cases[h].queued /\ cases[h].status = "RECOVERED"
                            /\ r = A!NEUTRAL_RECOVERY
                         \/ /\ cases[h].queued /\ verdicts[cases[h].verdict].rule = r
                            /\ Founded(h, verdicts[cases[h].verdict])
    BY DEF PaymentsFounded
  <2>1. c = h /\ DecidedFor(h, r)
    <3> DEFINE e == V!VerdictApplied(c, r)
    <3>1. /\ e.kind = "VerdictApplied" /\ e.rule = r
          /\ \A s : V!VerdictApplied(h, s) = e => c = h
      BY DEF V!VerdictApplied
    <3> HIDE DEF e
    <3>2. log[h] = <<e>> /\ log[h] # <<>> /\ Head(log[h]) = e
      BY DEF e
    <3>3. Backed(h, e)
      BY <3>2 DEF SeenInv, CInv, EscrowSound, Ended
    <3> QED BY <3>1, <3>3 DEF Backed
  <2>2. CASE cases[h].queued
    <3> DEFINE i == cases[h].verdict
               v == verdicts[i]
    <3>1. CaseSound(h) /\ Field \subseteq DOMAIN cases[h]
      BY DEF SeenInv, CInv, FatesSound, CasesSound, Typed
    <3>2. View[h].status = "REVIEWED" /\ View[h].verdict = i /\ i \in DOMAIN verdicts
      BY <2>2, <3>1 DEF CaseSound, View, AsDecided, Field
    <3>3. v.delivery = version[h]
      BY <3>2 DEF DeliverySound, ReviewedDelivery
    <3>4. v.case = h /\ v.revision = Len(revisions[h])
      BY <3>2 DEF SeenInv, CA!IInv, CA!VerdictIsCurrent, CA!Current
    <3>5. \A n : n \in DOMAIN verdicts =>
             LET revision == revisions[verdicts[n].case][verdicts[n].revision]
                 cited == {evidence[e] : e \in revision.evidence}
             IN  /\ Cardinality({e.issuer : e \in cited}) >= MinIssuers
                 /\ Cardinality({e.source.publisher : e \in cited}) >= MinPublishers
                 /\ \A e \in cited : e.freshUntil >= verdicts[n].at
      BY SameCount DEF CA!VerdictBasis
    <3>6. Founded(h, v)
      BY <3>2, <3>3, <3>4, <3>5 DEF Founded
    <3> QED BY <2>1, <2>2, <3>6 DEF DecidedFor
  <2> QED BY <2>1, <2>2 DEF DecidedFor
<1>2. CA!Spec => []CA!VerdictBasis
  BY CaseAssumptions, CA!VerdictsAreFounded
<1> QED BY <1>1, <1>2, SeenInvariant, DeliveryInvariant, CoreIsAdjudicator, PTL

-----------------------------------------------------------------------------
(* The draft of the single contract is that of WorkflowSetup.  Only the    *)
(* closing of the workflow, which ends nothing the draft knows of, is put  *)
(* back.                                                                   *)

AsActivated(w) == IF w.status = "CLOSED" THEN [w EXCEPT !.status = "ACTIVE"] ELSE w
DraftView == [i \in DOMAIN workflows |-> AsActivated(workflows[i])]

WS == INSTANCE WorkflowSetupProofs
    WITH PolicyTerms <- {OwnerPolicy}, WorkflowDeadlines <- {WorkflowDeadline},
         MaxPolicy <- 1, MaxWorkflow <- 1, MaxHandoff <- Cardinality(Handoff),
         workflows <- DraftView

OneWorkflow == [owner : Account, policy : Nat, status : {"DRAFT", "ACTIVE", "CLOSED"},
                deadline : Nat]

\* One policy and one workflow, of one owner.
DraftInv ==
    /\ WS!TypeInv
    /\ workflows \in Seq(OneWorkflow)
    /\ Len(policies) <= 1

LEMMA DraftAssumptions == WS!OfferedAssumption
BY CoreAssumption DEF D!OfferedAssumption, WS!OfferedAssumption

\* A draft is seen as it is, and so is what becomes of it.
LEMMA DraftSeen ==
    ASSUME workflows \in Seq(OneWorkflow)
    PROVE  /\ DOMAIN DraftView = DOMAIN workflows /\ Len(DraftView) = Len(workflows)
           /\ \A i \in DOMAIN workflows :
                /\ DraftView[i].owner = workflows[i].owner
                /\ DraftView[i].status = "DRAFT" <=> workflows[i].status = "DRAFT"
                /\ DraftView[i].deadline = workflows[i].deadline
           /\ workflows' = workflows => DraftView' = DraftView
<1>1. DOMAIN workflows = 1..Len(workflows) /\ Len(workflows) \in Nat
      /\ \A i \in DOMAIN workflows : workflows[i] \in OneWorkflow
  OBVIOUS
<1>2. DOMAIN DraftView = DOMAIN workflows
  BY DEF DraftView
<1>3. Len(DraftView) = Len(workflows)
  BY <1>1, <1>2 DEF DraftView
<1>4. \A i \in DOMAIN workflows :
        /\ DraftView[i].owner = workflows[i].owner
        /\ DraftView[i].status = "DRAFT" <=> workflows[i].status = "DRAFT"
        /\ DraftView[i].deadline = workflows[i].deadline
  BY <1>1 DEF DraftView, AsActivated, OneWorkflow
<1>5. workflows' = workflows => DraftView' = DraftView
  BY DEF DraftView, AsActivated
<1> QED BY <1>2, <1>3, <1>4, <1>5

\* The work on the policy.
LEMMA PolicyAction ==
    ASSUME DraftInv,
           \/ CreateEvidencePolicy
           \/ /\ policies # <<>>
              /\ \/ \E issuer \in Account : AddPolicyIssuer(issuer)
                 \/ \E prefix \in Prefix : AddPolicyPublisher(prefix)
                 \/ SealEvidencePolicy
    PROVE  WS!Next /\ workflows' = workflows /\ Len(policies') <= 1
<1>1. Owner \in Account
  BY CoreAssumption
<1>2. policies \in Seq(WS!Policy) /\ DOMAIN policies = 1..Len(policies) /\ Len(policies) \in Nat
  BY DEF DraftInv, WS!TypeInv, WS!Typed
<1>3. workflows' = workflows => DraftView' = DraftView
  BY DraftSeen DEF DraftInv
<1>4. CASE CreateEvidencePolicy
  <2>1. workflows' = workflows /\ Len(policies) < 1
    BY <1>4 DEF CreateEvidencePolicy, D!CreateEvidencePolicy
  <2>2. WS!CreateEvidencePolicy(Owner, OwnerPolicy)
    BY <1>3, <1>4, <2>1 DEF CreateEvidencePolicy, D!CreateEvidencePolicy, WS!CreateEvidencePolicy,
       D!Unsealed, WS!Unsealed
  <2>3. Len(policies') <= 1
    <3>1. \E e : policies' = Append(policies, e)
      BY <1>4 DEF CreateEvidencePolicy, D!CreateEvidencePolicy
    <3> QED BY <1>2, <2>1, <3>1
  <2> QED BY <1>1, <2>1, <2>2, <2>3 DEF WS!Next
<1>5. \A S : D!Cardinality(S) = WS!Cardinality(S)
  BY DEF D!Cardinality, WS!Cardinality
<1>6. /\ D!Extensible(1, Owner) <=> WS!Extensible(1, Owner)
      /\ D!Payload(1) = WS!Payload(1)
      /\ \A prefix : D!NewOrigin(1, prefix) <=> WS!NewOrigin(1, prefix)
  BY DEF D!Extensible, WS!Extensible, D!Sealed, WS!Sealed, D!Unsealed, WS!Unsealed, D!Payload,
     WS!Payload, D!NewOrigin, WS!NewOrigin
<1>7. CASE policies # <<>>
  <2>1. 1 \in DOMAIN policies
    BY <1>2, <1>7
  <2>2. ASSUME NEW e, policies' = [policies EXCEPT ![1] = e] PROVE Len(policies') <= 1
    BY <1>2, <2>2 DEF DraftInv
  <2>3. ASSUME NEW issuer \in Account, AddPolicyIssuer(issuer)
        PROVE  WS!Next /\ workflows' = workflows /\ Len(policies') <= 1
    <3>1. workflows' = workflows /\ \E e : policies' = [policies EXCEPT ![1] = e]
      BY <2>3 DEF AddPolicyIssuer, D!AddPolicyIssuer
    <3>2. WS!AddPolicyIssuer(1, Owner, issuer)
      BY <1>3, <1>5, <1>6, <2>3, <3>1 DEF AddPolicyIssuer, D!AddPolicyIssuer, WS!AddPolicyIssuer
    <3> QED BY <1>1, <2>1, <2>2, <3>1, <3>2 DEF WS!Next
  <2>4. ASSUME NEW prefix \in Prefix, AddPolicyPublisher(prefix)
        PROVE  WS!Next /\ workflows' = workflows /\ Len(policies') <= 1
    <3>1. workflows' = workflows /\ \E e : policies' = [policies EXCEPT ![1] = e]
      BY <2>4 DEF AddPolicyPublisher, D!AddPolicyPublisher
    <3>2. WS!AddPolicyPublisher(1, Owner, prefix)
      BY <1>3, <1>5, <1>6, <2>4, <3>1 DEF AddPolicyPublisher, D!AddPolicyPublisher,
         WS!AddPolicyPublisher
    <3> QED BY <1>1, <2>1, <2>2, <3>1, <3>2 DEF WS!Next
  <2>5. CASE SealEvidencePolicy
    <3>1. workflows' = workflows /\ \E e : policies' = [policies EXCEPT ![1] = e]
      BY <2>5 DEF SealEvidencePolicy, D!SealEvidencePolicy
    <3>2. WS!SealEvidencePolicy(1, Owner)
      BY <1>3, <1>5, <1>6, <2>5, <3>1 DEF SealEvidencePolicy, D!SealEvidencePolicy,
         WS!SealEvidencePolicy
    <3> QED BY <1>1, <2>1, <2>2, <3>1, <3>2 DEF WS!Next
  <2> QED BY <1>4, <1>7, <2>3, <2>4, <2>5
<1> QED BY <1>4, <1>7

\* The work on the workflow and its handoffs.
LEMMA WorkflowAction ==
    ASSUME DraftInv,
           \/ policies # <<>> /\ CreateWorkflow
           \/ /\ workflows # <<>>
              /\ \/ \E h \in Handoff : AddHandoff(h)
                 \/ \E h, d \in DOMAIN handoffs : AddHandoffDependency(h, d)
                 \/ ActivateWorkflow
    PROVE  WS!Next /\ workflows' \in Seq(OneWorkflow) /\ policies' = policies
<1>1. Owner \in Account /\ WorkflowDeadline \in Nat
  BY CoreAssumption DEF D!OfferedAssumption
<1>2. /\ policies \in Seq(WS!Policy) /\ DOMAIN policies = 1..Len(policies) /\ Len(policies) \in Nat
      /\ workflows \in Seq(OneWorkflow) /\ DOMAIN workflows = 1..Len(workflows)
      /\ Len(workflows) \in Nat
      /\ \A h \in DOMAIN handoffs : handoffs[h].workflow \in DOMAIN workflows
  BY DraftSeen DEF DraftInv, WS!TypeInv, WS!Typed, WS!References
<1>3. /\ \A i \in DOMAIN workflows :
            /\ DraftView[i].owner = workflows[i].owner
            /\ DraftView[i].status = "DRAFT" <=> workflows[i].status = "DRAFT"
            /\ DraftView[i].deadline = workflows[i].deadline
      /\ DOMAIN DraftView = DOMAIN workflows /\ Len(DraftView) = Len(workflows)
      /\ workflows' = workflows => DraftView' = DraftView
  BY DraftSeen, <1>2
<1>4. \A S : D!Cardinality(S) = WS!Cardinality(S)
  BY DEF D!Cardinality, WS!Cardinality
<1>5. \A w \in DOMAIN workflows :
        /\ D!Draftable(w, Owner) <=> WS!Draftable(w, Owner)
        /\ \A t : D!NestedDeadlines(w, t) <=> WS!NestedDeadlines(w, t)
        /\ D!HandoffsOf(w) = WS!HandoffsOf(w)
        /\ D!NextOrdinal(w) = WS!NextOrdinal(w)
  BY <1>3, <1>4 DEF D!Draftable, WS!Draftable, D!NestedDeadlines, WS!NestedDeadlines,
     D!HandoffsOf, WS!HandoffsOf, D!NextOrdinal, WS!NextOrdinal
<1>6. CASE policies # <<>> /\ CreateWorkflow
  <2> DEFINE new == [owner |-> Owner, policy |-> 1, status |-> "DRAFT",
                     deadline |-> WorkflowDeadline]
  <2>1. /\ workflows' = Append(workflows, new) /\ UNCHANGED <<now, policies, handoffs>>
        /\ WorkflowDeadline > now /\ Len(workflows) < 1 /\ D!Sealed(1)
    BY <1>6 DEF CreateWorkflow, D!CreateWorkflow
  <2>2. new \in OneWorkflow /\ AsActivated(new) = new
    BY <1>1 DEF OneWorkflow, AsActivated
  <2> HIDE DEF new
  <2>3. workflows' \in Seq(OneWorkflow) /\ workflows' = <<new>> /\ workflows = <<>>
    <3>1. Len(workflows) = 0
      BY <1>2, <2>1
    <3>2. workflows = <<>>
      BY <1>2, <3>1
    <3>3. Append(<<>>, new) = <<new>>
      OBVIOUS
    <3> QED BY <2>1, <2>2, <3>2, <3>3
  <2>4. DraftView' = Append(DraftView, new)
    <3>1. DraftView = <<>>
      BY <2>3 DEF DraftView
    <3>2. DraftView' = <<new>>
      BY <2>2, <2>3 DEF DraftView, AsActivated
    <3> QED BY <3>1, <3>2
  <2>5. WS!CreateWorkflow(Owner, 1, WorkflowDeadline)
    BY <1>3, <2>1, <2>4 DEF WS!CreateWorkflow, D!Sealed, WS!Sealed, D!Unsealed, WS!Unsealed, new
  <2>6. 1 \in DOMAIN policies
    BY <1>2, <1>6
  <2> QED BY <1>1, <2>1, <2>3, <2>5, <2>6 DEF WS!Next
<1>7. CASE workflows # <<>>
  <2>1. 1 \in DOMAIN workflows
    BY <1>2, <1>7
  <2>2. ASSUME NEW h \in Handoff, AddHandoff(h)
        PROVE  WS!Next /\ UNCHANGED <<workflows, policies>>
    <3>1. UNCHANGED <<workflows, policies>>
      BY <2>2 DEF AddHandoff, D!AddHandoff
    <3>2. WS!AddHandoff(1, Owner, Agreed[h])
      BY <1>3, <1>4, <1>5, <2>1, <2>2, <3>1 DEF AddHandoff, D!AddHandoff, WS!AddHandoff,
         D!ValidCriteria, WS!ValidCriteria
    <3>3. Agreed[h] \in HandoffTerms
      BY DEF HandoffTerms
    <3> QED BY <1>1, <1>3, <2>1, <3>1, <3>2, <3>3 DEF WS!Next
  <2>3. ASSUME NEW h \in DOMAIN handoffs, NEW d \in DOMAIN handoffs, AddHandoffDependency(h, d)
        PROVE  WS!Next /\ UNCHANGED <<workflows, policies>>
    <3>1. UNCHANGED <<workflows, policies>>
      BY <2>3 DEF AddHandoffDependency, D!AddHandoffDependency
    <3>2. WS!AddHandoffDependency(h, d, Owner)
      BY <1>2, <1>3, <1>4, <1>5, <2>3, <3>1 DEF AddHandoffDependency, D!AddHandoffDependency,
         WS!AddHandoffDependency, D!Precedes, WS!Precedes
    <3> QED BY <1>1, <3>1, <3>2 DEF WS!Next
  <2>4. CASE ActivateWorkflow
    <3> DEFINE new == [workflows[1] EXCEPT !.status = "ACTIVE"]
    <3>1. /\ workflows' = [workflows EXCEPT ![1] = new] /\ UNCHANGED <<now, policies, handoffs>>
          /\ D!Draftable(1, Owner) /\ D!HandoffsOf(1) # {}
      BY <2>4 DEF ActivateWorkflow, D!ActivateWorkflow
    <3>2. /\ new \in OneWorkflow /\ AsActivated(new) = new
          /\ AsActivated(workflows[1]) = workflows[1]
      <4>1. workflows[1] \in OneWorkflow
        BY <1>2, <2>1
      <4>2. workflows[1].status = "DRAFT"
        BY <3>1 DEF D!Draftable
      <4>3. new \in OneWorkflow /\ new.status = "ACTIVE"
        BY <4>1 DEF OneWorkflow
      <4> QED BY <4>2, <4>3 DEF AsActivated
    <3>3. new = [DraftView[1] EXCEPT !.status = "ACTIVE"]
      BY <2>1, <3>2 DEF DraftView
    <3> HIDE DEF new
    <3>4. workflows' \in Seq(OneWorkflow)
      BY <1>2, <2>1, <3>1, <3>2
    <3>5. DraftView' = [DraftView EXCEPT ![1] = new]
      BY <2>1, <3>1, <3>2 DEF DraftView, AsActivated
    <3>6. WS!ActivateWorkflow(1, Owner)
      BY <1>5, <2>1, <3>1, <3>3, <3>5 DEF WS!ActivateWorkflow
    <3> QED BY <1>1, <1>3, <2>1, <3>1, <3>4, <3>6 DEF WS!Next
  <2> QED BY <1>2, <1>6, <1>7, <2>2, <2>3, <2>4
<1> QED BY <1>6, <1>7

\* The closing of the workflow is not seen.
LEMMA CloseAction ==
    ASSUME DraftInv, workflows # <<>>, CloseWorkflow
    PROVE  UNCHANGED WS!vars /\ workflows' \in Seq(OneWorkflow) /\ policies' = policies
<1> DEFINE new == [workflows[1] EXCEPT !.status = "CLOSED"]
<1>1. /\ workflows' = [workflows EXCEPT ![1] = new] /\ UNCHANGED <<now, policies, handoffs>>
      /\ workflows[1].status = "ACTIVE"
  BY DEF CloseWorkflow
<1>2. workflows \in Seq(OneWorkflow) /\ 1 \in DOMAIN workflows
  BY DEF DraftInv
<1>3. workflows[1] \in OneWorkflow
  BY <1>2
<1>4. new \in OneWorkflow /\ AsActivated(new) = AsActivated(workflows[1])
  <2>1. new \in OneWorkflow /\ new.status = "CLOSED"
    BY <1>3 DEF OneWorkflow
  <2>2. [new EXCEPT !.status = "ACTIVE"] = workflows[1]
    BY <1>1, <1>3 DEF OneWorkflow
  <2> QED BY <1>1, <2>1, <2>2 DEF AsActivated
<1> HIDE DEF new
<1>5. workflows' \in Seq(OneWorkflow)
  BY <1>1, <1>2, <1>4
<1>6. DraftView' = DraftView
  BY <1>1, <1>2, <1>4 DEF DraftView, AsActivated
<1> QED BY <1>1, <1>5, <1>6 DEF WS!vars

\* A call about a handoff takes no time, drafts nothing and leaves the Vault alone.
LEMMA CallRest ==
    ASSUME NEW h, CoreCall(h)
    PROVE  UNCHANGED <<now, draftVars, vaultVars>>
<1>1. UNCHANGED <<draftVars, vaultVars>>
  BY DEF CoreCall, HandoffStep, CaseStep
<1>2. ASSUME NEW who PROVE
        /\ OpenCase(h, who) => now' = now
        /\ SubmitResponse(h, who) => now' = now
        /\ MarkRevisionReady(h, who) => now' = now
        /\ RetryCurrentRevision(h, who) => now' = now
        /\ SyncCaseVaultStatus(h, who) => now' = now
  BY DEF OpenCase, A!InitializeCase, SubmitResponse, A!SubmitResponse, MarkRevisionReady,
     A!MarkRevisionReady, RetryCurrentRevision, A!RetryCurrentRevision, SyncCaseVaultStatus
<1>3. \A who, response : BeginRevision(h, who, response) => now' = now
  BY DEF BeginRevision, A!BeginRevision
<1>4. \A who, source, v, f : RegisterEvidence(h, who, source, v, f) => now' = now
  BY DEF RegisterEvidence, A!RegisterEvidence
<1>5. /\ ResolveCase(h) => now' = now
      /\ RecoverCase(h) => now' = now
      /\ \A x : QueueSettlement(h, x) => now' = now
  BY DEF ResolveCase, RecoverCase, A!RecoverCase, QueueSettlement, A!QueueSettlement
<1>6. ASSUME NEW who,
             \/ HandoffStep(RegisterHandoffInVault(h))
             \/ HandoffStep(SubmitHandoffDelivery(h, who))
             \/ HandoffStep(AcceptHandoffDelivery(h, who))
             \/ HandoffStep(RetryHandoffCompletion(h, who))
             \/ HandoffStep(RepairHandoffDelivery(h, who))
             \/ HandoffStep(SyncHandoffVaultStatus(h, who))
      PROVE  now' = now
  BY <1>6, HandoffAction
<1> QED BY <1>1, <1>2, <1>3, <1>4, <1>5, <1>6 DEF CoreCall, CaseStep

LEMMA InitDraft == Init => DraftInv /\ WS!Init
<1> SUFFICES ASSUME Init PROVE DraftInv /\ WS!Init
  OBVIOUS
<1>1. policies = <<>> /\ workflows = <<>> /\ handoffs = <<>> /\ now = 1
  BY DEF Init, D!Init
<1>2. DraftView = <<>>
  BY <1>1 DEF DraftView
<1>3. WS!Init
  BY <1>1, <1>2 DEF WS!Init
<1>4. WS!TypeInv
  BY <1>3, DraftAssumptions, WS!InitTypes DEF WS!TypeInv
<1> QED BY <1>1, <1>3, <1>4 DEF DraftInv

LEMMA NextDraft == DraftInv /\ [Next]_vars => DraftInv' /\ [WS!Next]_(WS!vars)
<1> SUFFICES ASSUME DraftInv, [Next]_vars PROVE DraftInv' /\ [WS!Next]_(WS!vars)
  OBVIOUS
<1>1. /\ [WS!Next]_(WS!vars)
      /\ workflows' \in Seq(OneWorkflow) /\ Len(policies') <= 1
  <2>1. workflows \in Seq(OneWorkflow) /\ Len(policies) <= 1
        /\ (workflows' = workflows => DraftView' = DraftView)
    BY DraftSeen DEF DraftInv
  <2>2. CASE Draft
    <3>1. CASE \/ CreateEvidencePolicy
               \/ /\ policies # <<>>
                  /\ \/ \E issuer \in Account : AddPolicyIssuer(issuer)
                     \/ \E prefix \in Prefix : AddPolicyPublisher(prefix)
                     \/ SealEvidencePolicy
      BY <2>1, <3>1, PolicyAction
    <3>2. CASE \/ policies # <<>> /\ CreateWorkflow
               \/ /\ workflows # <<>>
                  /\ \/ \E h \in Handoff : AddHandoff(h)
                     \/ \E h, d \in DOMAIN handoffs : AddHandoffDependency(h, d)
                     \/ ActivateWorkflow
      BY <2>1, <3>2, WorkflowAction
    <3>3. CASE workflows # <<>> /\ CloseWorkflow
      BY <2>1, <3>3, CloseAction
    <3> QED BY <2>2, <3>1, <3>2, <3>3 DEF Draft, DraftStep
  <2>3. CASE Tick
    BY <2>1, <2>3 DEF Tick, V!Tick, WS!Next, WS!Tick, draftVars
  <2>4. ASSUME UNCHANGED <<now, draftVars>>
        PROVE  UNCHANGED WS!vars /\ workflows' \in Seq(OneWorkflow) /\ Len(policies') <= 1
    BY <2>1, <2>4 DEF WS!vars, draftVars
  <2>5. ASSUME NEW h, CoreCall(h) PROVE UNCHANGED <<now, draftVars>>
    BY <2>5, CallRest
  <2>6. CASE VaultCall \/ (\E h \in DOMAIN handoffs : Deliver(h)) \/ UNCHANGED vars
    <3>1. UNCHANGED draftVars
      BY <2>6 DEF VaultCall, Deliver, vars
    <3>2. ASSUME NEW h, Deliver(h) PROVE now' = now
      BY <3>2 DEF Deliver, V!RegisterHandoff, V!RegistrationIgnored, V!ApplyHandoffCompletion,
         V!CompletionIgnored, V!ApplyFinalVerdict, V!VerdictIgnored, V!vars
    <3>3. VaultCall \/ UNCHANGED vars => now' = now
      BY OtherAction
    <3> QED BY <2>4, <2>6, <3>1, <3>2, <3>3
  <2>7. CASE \E who \in Account : BindVault(who)
    BY <2>4, <2>7 DEF BindVault, A!BindVault
  <2> QED BY <2>2, <2>3, <2>4, <2>5, <2>6, <2>7 DEF Next
<1>2. WS!TypeInv'
  BY <1>1, DraftAssumptions, WS!NextTyped, WS!NextReferences, WS!NextOrdinals
     DEF DraftInv, WS!TypeInv
<1> QED BY <1>1, <1>2 DEF DraftInv

LEMMA DraftInvariant == Spec => []DraftInv
BY InitDraft, NextDraft, PTL DEF Spec

\* The single contract drafts policies and workflows as WorkflowSetup does.
THEOREM CoreDraftIsSetup == Spec => WS!Spec
BY InitDraft, NextDraft, DraftInvariant, PTL DEF Spec, WS!Spec

\* In the single contract, too, a workflow rests on the policy that was sealed, its
\* dependencies have no cycle, its terms are sound, and once active it is fixed.
THEOREM CoreDraftIsSound ==
    Spec => /\ [](WS!PolicyIsAsSealed /\ WS!DependenciesAcyclic /\ WS!ActiveTermsAreSound)
            /\ WS!ActiveWorkflowIsFixed
<1>1. /\ WS!Spec => []WS!PolicyIsAsSealed
      /\ WS!Spec => []WS!DependenciesAcyclic
      /\ WS!Spec => []WS!ActiveTermsAreSound
      /\ WS!Spec => WS!ActiveWorkflowIsFixed
  BY DraftAssumptions, WS!SealedPolicies, WS!NoDependencyCycle, WS!TermsAreSound, WS!ActiveIsFixed
<1> QED BY <1>1, CoreDraftIsSetup, PTL

-----------------------------------------------------------------------------
(* The Vault of the single contract is that of EscrowVault, offered the    *)
(* agreed terms under the fingerprint of the sealed policy.                *)

Fingerprints ==
    [policy : Nat, owner : Account, terms : {OwnerPolicy}, issuers : SUBSET Account,
     publishers : SUBSET Prefix] \cup {WS!Unsealed}

EscrowUnder(h, b) ==
    [binding |-> b, requester |-> Agreed[h].requester, provider |-> Agreed[h].provider,
     principal |-> Agreed[h].principal, bond |-> Agreed[h].bond,
     fundingDeadline |-> Agreed[h].fundingDeadline,
     recoveryDeadline |-> Agreed[h].recoveryDeadline]

CV == INSTANCE EscrowVaultProofs
    WITH Case <- Handoff, Binding <- Fingerprints,
         Offered <- {EscrowUnder(h, b) : h \in Handoff, b \in Fingerprints}

LEMMA CoreVaultAssumptions == CV!FiniteAssumption /\ CV!OfferedAssumption
<1>1. CV!FiniteAssumption
  BY CoreAssumption DEF V!FiniteAssumption, CV!FiniteAssumption, V!IsFiniteSet, CV!IsFiniteSet
<1>2. ASSUME NEW h \in Handoff, NEW b \in Fingerprints PROVE EscrowUnder(h, b) \in CV!Terms
  <2>1. Agreed[h] \in [requester : Account, provider : Account, principal : Nat, bond : Nat,
                       criteria : SUBSET (1..3), fundingDeadline : Nat, deadline : Nat,
                       recoveryDeadline : Nat]
    BY CoreAssumption DEF D!OfferedAssumption, HandoffTerms
  <2> QED BY <2>1 DEF EscrowUnder, CV!Terms
<1> QED BY <1>1, <1>2 DEF CV!OfferedAssumption

\* A handoff exists under a policy that is sealed for good.
LEMMA DraftedUnderSealed ==
    ASSUME DraftInv, WS!PolicyIsAsSealed, NEW h \in DOMAIN handoffs
    PROVE  /\ Fingerprint \in Fingerprints /\ Fingerprint # WS!Unsealed
           /\ [Next]_vars => policies' = policies /\ h \in DOMAIN handoffs'
<1>1. /\ policies \in Seq(WS!Policy) /\ DOMAIN policies = 1..Len(policies) /\ Len(policies) \in Nat
      /\ handoffs[h].workflow \in DOMAIN DraftView
      /\ \A w \in DOMAIN DraftView : DraftView[w].policy \in DOMAIN policies
  BY DEF DraftInv, WS!TypeInv, WS!Typed, WS!References
<1>2. Len(policies) = 1 /\ WS!Sealed(1)
  BY <1>1 DEF DraftInv, WS!PolicyIsAsSealed
<1>3. policies[1] \in WS!Policy /\ Fingerprint # WS!Unsealed
  BY <1>1, <1>2 DEF WS!Sealed, Fingerprint
<1>4. Fingerprint \in Fingerprints
  BY <1>3 DEF Fingerprint, Fingerprints, WS!Policy
<1>5. ASSUME [Next]_vars PROVE policies' = policies /\ h \in DOMAIN handoffs'
  <2>1. DraftInv' /\ [WS!Next]_(WS!vars)
    BY <1>5, NextDraft
  <2>2. WS!Typed
    BY DEF DraftInv, WS!TypeInv
  <2>3. h \in DOMAIN handoffs'
    BY <2>1, <2>2, DraftAssumptions, WS!HandoffsKept
  <2>4. \/ policies' = policies
        \/ WS!PolicyAdded
        \/ \E p \in DOMAIN policies : WS!PolicyChanged(p)
    BY <2>1, <2>2, DraftAssumptions, WS!StepsOfPolicies
  <2>5. ~WS!PolicyAdded
    <3>1. ASSUME NEW e, policies' = Append(policies, e) PROVE Len(policies') = 2
      <4>1. policies \in Seq(WS!Policy \cup {e})
        BY <1>1
      <4>2. Len(Append(policies, e)) = Len(policies) + 1
        BY <4>1
      <4> QED BY <1>2, <3>1, <4>2
    <3>2. Len(policies') <= 1
      BY <2>1 DEF DraftInv
    <3>3. \A e : policies' # Append(policies, e)
      BY <3>1, <3>2
    <3> QED BY <3>3 DEF WS!PolicyAdded
  <2>6. \A p \in DOMAIN policies : ~WS!PolicyChanged(p)
    BY <1>1, <1>2 DEF WS!PolicyChanged
  <2> QED BY <2>3, <2>4, <2>5, <2>6
<1> QED BY <1>3, <1>4, <1>5

\* The messages of the contract are those its Vault's module allows for.
LEMMA DeliverAction ==
    ASSUME DraftInv, WS!PolicyIsAsSealed, NEW h \in Handoff, h \in DOMAIN handoffs, Deliver(h)
    PROVE  CV!ControllerMessage(h)
<1>1. Fingerprint \in Fingerprints
  BY DraftedUnderSealed
<1>2. Escrow(h) \in {EscrowUnder(k, b) : k \in Handoff, b \in Fingerprints}
  BY <1>1 DEF Escrow, EscrowUnder
<1>3. /\ V!RegisterHandoff(h, Escrow(h)) => CV!RegisterHandoff(h, Escrow(h))
      /\ V!RegistrationIgnored(h, Escrow(h)) => CV!RegistrationIgnored(h, Escrow(h))
  BY DEF V!RegisterHandoff, CV!RegisterHandoff, V!RegistrationIgnored, CV!RegistrationIgnored,
     V!ValidTerms, CV!ValidTerms, V!TopLevel, CV!TopLevel, V!vars, CV!vars
<1>4. /\ V!ApplyHandoffCompletion(h, Fingerprint) => CV!ApplyHandoffCompletion(h, Fingerprint)
      /\ V!CompletionIgnored(h, Fingerprint) => CV!CompletionIgnored(h, Fingerprint)
  BY DEF V!ApplyHandoffCompletion, CV!ApplyHandoffCompletion, V!CompletionIgnored,
     CV!CompletionIgnored, V!Close, CV!Close, V!Credit, CV!Credit, V!HandoffCompleted,
     CV!HandoffCompleted, V!TopLevel, CV!TopLevel, V!vars, CV!vars
<1>5. /\ \A r : V!ApplyFinalVerdict(h, h, Fingerprint, r) =>
                  CV!ApplyFinalVerdict(h, h, Fingerprint, r)
      /\ V!VerdictIgnored(h, h, Fingerprint) => CV!VerdictIgnored(h, h, Fingerprint)
  BY DEF V!ApplyFinalVerdict, CV!ApplyFinalVerdict, V!VerdictIgnored, CV!VerdictIgnored,
     V!Close, CV!Close, V!Credit, CV!Credit, V!Consequence, CV!Consequence,
     V!VerdictApplied, CV!VerdictApplied, V!RELEASE_PROVIDER, CV!RELEASE_PROVIDER,
     V!PROVIDER_BREACH, CV!PROVIDER_BREACH, V!TopLevel, CV!TopLevel, V!vars, CV!vars
<1> QED BY <1>1, <1>2, <1>3, <1>4, <1>5 DEF Deliver, CV!ControllerMessage, CV!Rule

LEMMA VaultStepIsKnown ==
    ASSUME CInv, DraftInv, WS!PolicyIsAsSealed, [Next]_vars
    PROVE  [CV!Next]_(CV!vars)
<1>1. DOMAIN handoffs \subseteq Handoff
  BY DEF CInv, FatesSound, Typed
<1>2. now' = now /\ UNCHANGED vaultVars => UNCHANGED CV!vars
  BY DEF vaultVars, CV!vars
<1>3. CASE Tick
  BY <1>3 DEF Tick, V!Tick, V!TopLevel, CV!Next, CV!Tick, CV!TopLevel
<1>4. ASSUME NEW h \in DOMAIN handoffs, Deliver(h) PROVE CV!Next
  BY <1>1, <1>4, DeliverAction DEF CV!Next
<1>5. CASE VaultCall
  <2>1. \A h \in Handoff : V!AccountCall(h) => CV!AccountCall(h)
    BY DEF V!AccountCall, CV!AccountCall, V!FundHandoff, CV!FundHandoff, V!PostBond, CV!PostBond,
       V!RecoverUnactivated, CV!RecoverUnactivated, V!RecoverActive, CV!RecoverActive,
       V!Close, CV!Close, V!Credit, CV!Credit, V!EscrowRecovered, CV!EscrowRecovered
  <2> QED BY <1>5, <2>1 DEF VaultCall, CV!Next
<1>6. ASSUME NEW h, CoreCall(h) PROVE UNCHANGED CV!vars
  BY <1>2, <1>6, CallRest
<1>7. CASE Draft \/ (\E who \in Account : BindVault(who)) \/ UNCHANGED vars
  <2>1. UNCHANGED vaultVars
    BY <1>7 DEF Draft, DraftStep, BindVault, vars
  <2>2. now' = now
    <3>1. Draft \/ UNCHANGED vars => now' = now
      BY OtherAction
    <3> QED BY <1>7, <3>1 DEF BindVault, A!BindVault
  <2> QED BY <1>2, <2>1, <2>2
<1> QED BY <1>3, <1>4, <1>5, <1>6, <1>7 DEF Next

\* Driven by the single contract, the Vault makes steps of EscrowVault only.  None of
\* them is a withdrawal: this system has none.
THEOREM CoreVaultIsEscrow == Spec => CV!Spec
<1>1. Init => CV!Init
  BY DEF Init, V!Init, CV!Init
<1>2. CInv /\ DraftInv /\ WS!PolicyIsAsSealed /\ [Next]_vars => [CV!Next]_(CV!vars)
  BY VaultStepIsKnown
<1>3. WS!Spec => []WS!PolicyIsAsSealed
  BY DraftAssumptions, WS!SealedPolicies
<1> QED BY <1>1, <1>2, <1>3, CoreDraftIsSetup, CoreInvariant, DraftInvariant, PTL DEF Spec, CV!Spec

\* Whatever the single contract instructs, its Vault holds what the live escrows were
\* funded with and what it owes, owes what the ended escrows awarded, and ends each
\* escrow once.  Withdrawals are left out here: that they keep the Vault solvent is
\* the theorem of EscrowVaultProofs, and of DisputeSystemProofs among messages.
THEOREM CoreIsSolvent ==
    Spec => [](CV!Solvent /\ CV!ExactEntitlement /\ CV!EndsOnce) /\ CV!EndIsFinal
<1>1. /\ CV!Spec => []CV!Solvent
      /\ CV!Spec => []CV!ExactEntitlement
      /\ CV!Spec => []CV!EndsOnce
      /\ CV!Spec => CV!EndIsFinal
  BY CoreVaultAssumptions, CV!VaultIsSolvent, CV!EntitlementIsExact, CV!EscrowEndsOnce,
     CV!EndingIsFinal
<1> QED BY <1>1, CoreVaultIsEscrow, PTL

\* An escrow the Vault knows has the terms its handoff was drafted with, under the
\* fingerprint of the policy as it was sealed and still is.
EscrowIsAsDrafted ==
    \A h \in Handoff : status[h] # "NONE" =>
        /\ h \in DOMAIN handoffs
        /\ terms[h] = Escrow(h)
        /\ Fingerprint = D!Payload(1)

KnownEscrow(h) == status[h] # "NONE" => h \in DOMAIN handoffs /\ terms[h] = Escrow(h)

LEMMA NextKnown ==
    ASSUME CInv, DraftInv, WS!PolicyIsAsSealed, [Next]_vars, DOMAIN terms = Handoff,
           NEW k \in Handoff, KnownEscrow(k)
    PROVE  KnownEscrow(k)' /\ DOMAIN terms' = Handoff
<1>1. DOMAIN status = Handoff /\ DOMAIN handoffs \subseteq Handoff
  BY DEF CInv, EscrowSound, FatesSound, Typed
<1>2. \A h \in DOMAIN handoffs : h \in DOMAIN handoffs' /\ Escrow(h)' = Escrow(h)
  BY DraftedUnderSealed DEF Escrow, Fingerprint
<1>3. ASSUME terms' = terms, status'[k] # "NONE" => status[k] # "NONE"
      PROVE  KnownEscrow(k)' /\ DOMAIN terms' = Handoff
  BY <1>2, <1>3 DEF KnownEscrow
<1>4. ASSUME NEW h \in DOMAIN handoffs, Deliver(h)
      PROVE  KnownEscrow(k)' /\ DOMAIN terms' = Handoff
  <2>1. CASE V!RegisterHandoff(h, Escrow(h))
    <3>1. terms' = [terms EXCEPT ![h] = Escrow(h)] /\ status' = [status EXCEPT ![h] = "REGISTERED"]
      BY <2>1 DEF V!RegisterHandoff
    <3>2. CASE k = h
      BY <1>1, <1>2, <3>1, <3>2 DEF KnownEscrow
    <3>3. CASE k # h
      BY <1>1, <1>2, <3>1, <3>3 DEF KnownEscrow
    <3> QED BY <3>2, <3>3, <3>1
  <2>2. CASE ~V!RegisterHandoff(h, Escrow(h))
    <3>1. \/ V!RegistrationIgnored(h, Escrow(h)) \/ V!CompletionIgnored(h, Fingerprint)
          \/ V!VerdictIgnored(h, h, Fingerprint) \/ V!ApplyHandoffCompletion(h, Fingerprint)
          \/ \E r : V!ApplyFinalVerdict(h, h, Fingerprint, r)
      BY <1>4, <2>2 DEF Deliver
    <3>2. /\ terms' = terms
          /\ \/ status' = status
             \/ /\ status[h] # "NONE"
                /\ \E s : status' = [status EXCEPT ![h] = s]
      BY <3>1 DEF V!RegistrationIgnored, V!CompletionIgnored, V!VerdictIgnored,
         V!ApplyHandoffCompletion, V!ApplyFinalVerdict, V!Close, V!vars
    <3> QED BY <1>1, <1>3, <3>2
  <2> QED BY <2>1, <2>2
<1>5. CASE VaultCall
  <2>1. terms' = terms
        /\ \E h \in Handoff : status[h] # "NONE" /\ \E s : status' = [status EXCEPT ![h] = s]
    BY <1>5 DEF VaultCall, V!AccountCall, V!FundHandoff, V!PostBond, V!RecoverUnactivated,
       V!RecoverActive, V!Close
  <2> QED BY <1>1, <1>3, <2>1
<1>6. CASE \/ Tick \/ (\E who \in Account : BindVault(who)) \/ Draft \/ UNCHANGED vars
           \/ \E h \in DOMAIN handoffs : CoreCall(h)
  <2>1. UNCHANGED <<status, terms>>
    BY <1>6, CallRest DEF Tick, V!Tick, BindVault, Draft, DraftStep, vars, vaultVars
  <2> QED BY <1>3, <2>1
<1> QED BY <1>4, <1>5, <1>6 DEF Next

\* No escrow is paid on terms or under a policy other than those drafted, although the
\* registration is a message of its own: no later message is refused for its fingerprint.
THEOREM EscrowsAreAsDrafted == Spec => []EscrowIsAsDrafted
<1> DEFINE Known == DOMAIN terms = Handoff /\ \A h \in Handoff : KnownEscrow(h)
<1>1. Init => Known
  BY DEF Init, V!Init, KnownEscrow
<1>2. CInv /\ DraftInv /\ WS!PolicyIsAsSealed /\ Known /\ [Next]_vars => Known'
  <2> SUFFICES ASSUME CInv, DraftInv, WS!PolicyIsAsSealed, Known, [Next]_vars PROVE Known'
    OBVIOUS
  <2>1. \A k \in Handoff : KnownEscrow(k)' /\ DOMAIN terms' = Handoff
    BY NextKnown
  <2>2. DOMAIN terms' = Handoff
    <3>1. CASE Handoff = {}
      <4>1. UNCHANGED terms
        BY <3>1 DEF CInv, FatesSound, Typed, Next, Tick, V!Tick, BindVault, Draft, DraftStep,
           VaultCall, vars, vaultVars
      <4> QED BY <4>1
    <3>2. CASE Handoff # {}
      BY <2>1, <3>2
    <3> QED BY <3>1, <3>2
  <2> QED BY <2>1, <2>2
<1>3. CInv /\ DraftInv /\ WS!PolicyIsAsSealed /\ Known => EscrowIsAsDrafted
  <2> SUFFICES ASSUME CInv, DraftInv, WS!PolicyIsAsSealed, Known, NEW h \in Handoff,
                      status[h] # "NONE"
               PROVE  h \in DOMAIN handoffs /\ terms[h] = Escrow(h) /\ Fingerprint = D!Payload(1)
    BY DEF EscrowIsAsDrafted
  <2>1. h \in DOMAIN handoffs /\ terms[h] = Escrow(h)
    BY DEF KnownEscrow
  <2>2. Fingerprint # WS!Unsealed /\ policies # <<>>
    <3>1. DOMAIN policies # {}
      BY <2>1 DEF DraftInv, WS!TypeInv, WS!References
    <3> QED BY <2>1, <3>1, DraftedUnderSealed
  <2>3. 1 \in DOMAIN policies
    BY <2>2 DEF DraftInv, WS!TypeInv, WS!Typed
  <2>4. Fingerprint = WS!Payload(1)
    BY <2>2, <2>3 DEF WS!PolicyIsAsSealed, WS!Sealed, Fingerprint
  <2> QED BY <2>1, <2>4 DEF D!Payload, WS!Payload
<1>4. WS!Spec => []WS!PolicyIsAsSealed
  BY DraftAssumptions, WS!SealedPolicies
<1>5. Spec => []Known
  BY <1>1, <1>2, <1>4, CoreDraftIsSetup, CoreInvariant, DraftInvariant, PTL DEF Spec
<1> QED BY <1>3, <1>4, <1>5, CoreDraftIsSetup, CoreInvariant, DraftInvariant, PTL
=============================================================================
