------------------------- MODULE LabVerdictsProofs -------------------------
(***************************************************************************)
(* Theorems about LabVerdicts for any suites, items of the model and       *)
(* failing statements.  Four invariants are inductive, the later on top of *)
(* the earlier: Accounts, about what a run counts; Scene, about the        *)
(* scenario in hand; Typed; and Foretold, about the verdicts of the        *)
(* scenarios of the code.                                                  *)
(***************************************************************************)
EXTENDS LabVerdicts, TLAPS, SequenceTheorems, FiniteSetTheorems

AccountsTypeOK ==
  /\ at \in Nat \ {0}
  /\ verdict \in Verdicts
  /\ failedAt \subseteq 1..(at - 1)
  /\ faults \in Nat

Accounts == AccountsTypeOK /\ RiskIsOfAFailure

InHand == {"injecting", "enqueueing", "logging"}

FinalTypes == {"payment.captured", "checkout_verify", "payment.failed"}

\* The row of the intent and the runner's copy move together, and an event is
\* logged after both moved.
RowFollows ==
  /\ step \in InHand => intent = local
  /\ step = "seeding" => local = current.seed /\ logged = {}
  /\ step = "enqueueing" => IsTerminal(local)
  /\ step = "logging" /\ current.events[ev].type \in FinalTypes => IsTerminal(local)

\* The event in hand was let pass.
EventAccepted ==
  step \in {"enqueueing", "logging"} =>
    /\ ev \in DOMAIN current.events
    /\ Refusal(current.events[ev]) = 200

Scene ==
  /\ ev \in Nat \ {0}
  /\ RowFollows
  /\ EventAccepted
  /\ PaidIsSettled
  /\ ForgedMovesNothing

----------------------------------------------------------------------------
(* The oracle's answers are statuses of a result.                          *)
LEMMA OracleAnswers ==
  \A want, state, http1, policy, tasked1 :
    Oracle(want, state, http1, policy, tasked1) \in Verdicts
BY DEF Oracle, Verdicts

(* A capture or a failure leads every state to a terminal one, and no      *)
(* event of the lab leads out of one.                                      *)
LEMMA MovesSettle ==
  ASSUME NEW s, NEW type
  PROVE  /\ type \in FinalTypes => IsTerminal(MovedBy(s, type))
         /\ IsTerminal(s) => IsTerminal(MovedBy(s, type))
<1>1. /\ IsTerminal(Transition(s, "PAYMENT_CAPTURED"))
      /\ IsTerminal(Transition(s, "PAYMENT_FAILED"))
  <2>1. CASE s \in DOMAIN Transitions
    BY <2>1, SMTT(60) DEF Transition, AllowedEvents, Transitions, IsTerminal, Terminal
  <2>2. CASE s \notin DOMAIN Transitions
    BY <2>2 DEF Transition, AllowedEvents, IsTerminal, Terminal
  <2> QED BY <2>1, <2>2
<1>2. IsTerminal(s) => IsTerminal(Transition(s, "ILLEGAL_JUMP"))
  <2>1. CASE s \in DOMAIN Transitions
    BY <2>1, SMTT(60) DEF Transition, AllowedEvents, Transitions, IsTerminal, Terminal
  <2>2. CASE s \notin DOMAIN Transitions
    BY <2>2 DEF Transition, AllowedEvents, IsTerminal, Terminal
  <2> QED BY <2>1, <2>2
<1> QED BY <1>1, <1>2 DEF MovedBy, FinalTypes

----------------------------------------------------------------------------
LEMMA AccountsInit == LabVerdictsInit => Accounts
BY DEF LabVerdictsInit, Accounts, AccountsTypeOK, RiskIsOfAFailure, Verdicts

(* What is counted when a result is there keeps the risk a failure's.      *)
LEMMA CountKeepsRisk ==
  ASSUME Accounts, Count, suite' = suite
  PROVE  /\ at' \in Nat \ {0}
         /\ failedAt' \subseteq 1..(at' - 1)
         /\ RiskIsOfAFailure'
<1> USE DEF Accounts, AccountsTypeOK
<1>1. at' = at + 1 /\ at' \in Nat \ {0}
  BY DEF Count
<1>2. failedAt' \subseteq failedAt \cup {at} /\ failedAt \subseteq failedAt'
  BY DEF Count
<1>3. failedAt' \subseteq 1..(at' - 1)
  <2>1. at \in 1..at /\ 1..(at - 1) \subseteq 1..at
    OBVIOUS
  <2> QED BY <1>1, <1>2, <2>1
<1> DEFINE grave == {i \in failedAt : suite[i].risk \in {"HIGH", "CRITICAL"}}
<1>4. CASE verdict = "FAIL" /\ current.risk \in {"HIGH", "CRITICAL"}
  <2>1. risk' = suite[at].risk /\ failedAt' = failedAt \cup {at}
    BY <1>4 DEF Count, RiskAfter, current
  <2>2. at \in failedAt' /\ \A j \in failedAt' : j <= at
    BY <2>1
  <2> QED BY <1>1, <1>3, <1>4, <2>1, <2>2 DEF RiskIsOfAFailure, current
<1>5. CASE ~(verdict = "FAIL" /\ current.risk \in {"HIGH", "CRITICAL"})
  <2>1. risk' = risk
    BY <1>5 DEF Count, RiskAfter
  <2>2. {i \in failedAt' : suite'[i].risk \in {"HIGH", "CRITICAL"}} = grave
    BY <1>5 DEF Count, current
  <2> QED BY <1>1, <1>3, <2>1, <2>2 DEF RiskIsOfAFailure
<1> QED BY <1>4, <1>5

(* Only a result that is saved or cancelled counts; every other step can   *)
(* but fail.                                                               *)
LEMMA AccountsStep == Accounts /\ [LabVerdictsNext]_vars => Accounts'
<1> SUFFICES ASSUME Accounts, [LabVerdictsNext]_vars PROVE Accounts'
  OBVIOUS
<1>1. ASSUME UNCHANGED <<suite, at, risk, failedAt>>,
             verdict' \in Verdicts, faults' \in {faults, faults + 1}
      PROVE  Accounts'
  BY <1>1 DEF Accounts, AccountsTypeOK, RiskIsOfAFailure
<1>2. ASSUME Count, suite' = suite, verdict' = verdict,
             faults' \in {faults, faults + 1}
      PROVE  Accounts'
  BY <1>2, CountKeepsRisk DEF Accounts, AccountsTypeOK
<1> USE DEF suiteVars, totalVars
<1>3. verdict \in Verdicts /\ "FAIL" \in Verdicts
  BY DEF Accounts, AccountsTypeOK, Verdicts
<1>4. CASE NextScenario
  BY <1>1, <1>3, <1>4 DEF NextScenario
<1>5. CASE Seed
  BY <1>1, <1>3, <1>5 DEF Seed, Raises
<1>6. CASE Refuse
  BY <1>1, <1>3, <1>6 DEF Refuse
<1>7. CASE Accept
  BY <1>1, <1>3, <1>7 DEF Accept, Raises
<1>8. CASE Enqueue
  BY <1>1, <1>3, <1>8 DEF Enqueue, Raises
<1>9. CASE Log
  BY <1>1, <1>3, <1>9 DEF Log, Raises
<1>10. CASE Judge
  BY <1>1, <1>3, <1>10, OracleAnswers DEF Judge, Raises
<1>11. CASE SaveResult
  BY <1>2, <1>11 DEF SaveResult
<1>12. CASE Close
  BY <1>1, <1>3, <1>12 DEF Close
<1>13. CASE Timeout
  <2>1. suite' = suite /\ verdict' = verdict /\ faults' = faults + 1
    BY <1>13 DEF Timeout
  <2>2. CASE step = "saving"
    <3>1. Count
      BY <1>13, <2>2 DEF Timeout
    <3> QED BY <1>2, <2>1, <3>1
  <2>3. CASE step # "saving"
    <3>1. UNCHANGED <<at, risk, failedAt>>
      BY <1>13, <2>3 DEF Timeout
    <3> QED BY <1>1, <1>3, <2>1, <3>1
  <2> QED BY <2>2, <2>3
<1>14. CASE UNCHANGED vars
  BY <1>1, <1>3, <1>14 DEF vars
<1> QED
  BY <1>4, <1>5, <1>6, <1>7, <1>8, <1>9, <1>10, <1>11, <1>12, <1>13, <1>14
  DEF LabVerdictsNext

----------------------------------------------------------------------------
LEMMA SceneInit == LabVerdictsInit => Scene
BY DEF LabVerdictsInit, Scene, RowFollows, EventAccepted, PaidIsSettled,
       ForgedMovesNothing, InHand

(* What a step leaves of the scene, by the event in hand.                  *)
LEMMA SceneStep == Scene /\ [LabVerdictsNext]_vars => Scene'
<1> SUFFICES ASSUME Scene, [LabVerdictsNext]_vars PROVE Scene'
  OBVIOUS
<1> DEFINE e == current.events[ev]
           Out(w) == w \notin InHand \cup {"seeding"}
<1> USE DEF suiteVars, intentVars, seenVars, totalVars
<1>1. ASSUME Out(step'), ev' = ev, PaidIsSettled' PROVE Scene'
  BY <1>1 DEF Scene, RowFollows, EventAccepted, ForgedMovesNothing, InHand
<1>2. CASE NextScenario
  <2>1. step' = "seeding" /\ local' = current.seed /\ logged' = {} /\ ev' = 1
        /\ suite' = suite /\ at' = at
    BY <1>2 DEF NextScenario
  <2> QED BY <2>1 DEF Scene, RowFollows, EventAccepted, ForgedMovesNothing,
                      PaidIsSettled, InHand, current
<1>3. CASE Seed
  <2>1. logged = {} /\ logged' = {} /\ local = current.seed /\ ev' = ev
        /\ local' = local /\ suite' = suite /\ at' = at
    BY <1>3 DEF Seed, Scene, RowFollows
  <2>2. PaidIsSettled'
    BY <2>1 DEF PaidIsSettled
  <2>3. CASE intent' = local /\ step' = "injecting" /\ UNCHANGED <<verdict, faults>>
    BY <2>1, <2>2, <2>3 DEF Scene, RowFollows, EventAccepted,
                            ForgedMovesNothing, InHand, current
  <2>4. CASE step' = "saving"
    BY <1>1, <2>1, <2>2, <2>4 DEF InHand
  <2> QED BY <1>3, <2>3, <2>4 DEF Seed, Raises
<1>4. CASE Refuse
  <2>1. /\ step = "injecting" /\ step' = step /\ ev' = ev + 1
        /\ UNCHANGED <<suite, at, local, intent, logged>>
        /\ Refusal(e) # 200 /\ ev \in DOMAIN current.events
    BY <1>4 DEF Refuse
  <2>2. ~e.signed \/ e.type = "raw_malformed"
    BY <2>1 DEF Refusal
  <2>3. ForgedMovesNothing'
    BY <2>1, <2>2 DEF Scene, ForgedMovesNothing, current
  <2> QED BY <2>1, <2>3 DEF Scene, RowFollows, EventAccepted, PaidIsSettled, InHand
<1>5. CASE Accept
  <2>1. /\ step = "injecting" /\ intent = local /\ ev \in DOMAIN current.events
        /\ Refusal(e) = 200 /\ local' = MovedBy(local, e.type)
        /\ UNCHANGED <<suite, at, ev, logged>>
        /\ intent' \in {intent, local'}
    BY <1>5 DEF Accept, Scene, RowFollows, InHand
  <2>2. PaidIsSettled'
    BY <2>1, MovesSettle DEF Scene, PaidIsSettled
  <2>3. CASE Raises
    BY <1>1, <2>1, <2>2, <2>3 DEF Raises, InHand
  <2>4. CASE ~Raises
    <3>1. intent' = local'
          /\ step' = IF e.type = "payment.captured" THEN "enqueueing" ELSE "logging"
      BY <1>5, <2>4 DEF Accept
    <3>2. e' = e
      BY <2>1 DEF current
    <3>3. RowFollows'
      <4>1. e.type \in FinalTypes => IsTerminal(local')
        BY <2>1, MovesSettle
      <4>2. step' = "enqueueing" => e.type \in FinalTypes
        BY <3>1 DEF FinalTypes
      <4> QED BY <3>1, <3>2, <4>1, <4>2 DEF RowFollows, InHand
    <3>4. EventAccepted'
      BY <2>1 DEF EventAccepted, current
    <3>5. ~(~e.signed \/ e.type = "raw_malformed") /\ ev \in 1..ev
      BY <2>1 DEF Refusal, Scene
    <3>6. ForgedMovesNothing'
      BY <2>1, <3>2, <3>5 DEF ForgedMovesNothing, current
    <3> QED BY <2>1, <2>2, <3>3, <3>4, <3>6 DEF Scene
  <2> QED BY <2>3, <2>4
<1>6. CASE Enqueue
  <2>1. /\ step = "enqueueing" /\ intent = local /\ IsTerminal(local)
        /\ UNCHANGED <<suite, at, ev, local, intent, logged>>
    BY <1>6 DEF Enqueue, Scene, RowFollows, InHand
  <2>2. PaidIsSettled'
    BY <2>1 DEF Scene, PaidIsSettled
  <2>3. CASE Raises
    BY <1>1, <2>1, <2>2, <2>3 DEF Raises, InHand
  <2>4. CASE ~Raises
    <3>1. step' = "logging"
      BY <1>6, <2>4 DEF Enqueue
    <3> QED BY <2>1, <2>2, <3>1 DEF Scene, RowFollows, EventAccepted,
                                    ForgedMovesNothing, InHand, current
  <2> QED BY <2>3, <2>4
<1>7. CASE Log
  <2>1. /\ step = "logging" /\ intent = local
        /\ e.type \in FinalTypes => IsTerminal(local)
        /\ UNCHANGED <<suite, at, local, intent>>
        /\ logged' \in {logged, logged \cup {e.type}}
    BY <1>7 DEF Log, Scene, RowFollows, InHand
  <2>2. PaidIsSettled'
    BY <2>1 DEF Scene, PaidIsSettled, FinalTypes
  <2>3. CASE Raises
    <3>1. ev' = ev
      BY <1>7, <2>1, <2>3 DEF Log, Raises
    <3> QED BY <1>1, <2>2, <2>3, <3>1 DEF Raises, InHand
  <2>4. CASE ~Raises
    <3>1. step' = "injecting" /\ ev' = ev + 1
      BY <1>7, <2>4 DEF Log
    <3>2. ev \in DOMAIN current.events /\ ev \in 1..(ev + 1)
          /\ ~(~e.signed \/ e.type = "raw_malformed")
      BY <2>1 DEF Scene, EventAccepted, Refusal
    <3>3. ForgedMovesNothing'
      BY <2>1, <3>1, <3>2 DEF ForgedMovesNothing, current
    <3> QED BY <2>1, <2>2, <3>1, <3>3 DEF Scene, RowFollows, EventAccepted, InHand
  <2> QED BY <2>3, <2>4
<1>8. CASE Judge
  <2>1. step' = "saving" /\ UNCHANGED <<ev, intent, logged>>
    BY <1>8 DEF Judge, Raises
  <2> QED BY <1>1, <2>1 DEF Scene, PaidIsSettled, InHand
<1>9. CASE SaveResult
  <2>1. step' = "looping" /\ UNCHANGED <<ev, intent, logged>>
    BY <1>9 DEF SaveResult
  <2> QED BY <1>1, <2>1 DEF Scene, PaidIsSettled, InHand
<1>10. CASE Close
  <2>1. step' = "closed" /\ UNCHANGED <<ev, intent, logged>>
    BY <1>10 DEF Close
  <2> QED BY <1>1, <2>1 DEF Scene, PaidIsSettled, InHand
<1>11. CASE Timeout
  <2>1. step' = "closed" /\ ev' = ev
    BY <1>11 DEF Timeout
  <2>2. CASE step = "seeding"
    <3>1. logged = {} /\ logged' = logged
      BY <1>11, <2>2 DEF Timeout, Scene, RowFollows
    <3> QED BY <1>1, <2>1, <3>1 DEF PaidIsSettled, InHand
  <2>3. CASE step = "injecting"
    <3>1. logged' = logged /\ intent = local
          /\ intent' \in {intent, MovedBy(local, e.type)}
      BY <1>11, <2>3 DEF Timeout, Scene, RowFollows, InHand
    <3>2. PaidIsSettled'
      BY <3>1, MovesSettle DEF Scene, PaidIsSettled
    <3> QED BY <1>1, <2>1, <3>2 DEF InHand
  <2>4. CASE step \notin {"seeding", "injecting"}
    <3>1. intent' = intent
      BY <1>11, <2>4 DEF Timeout
    <3>2. CASE step = "logging"
      <4>1. /\ logged' \in {logged, logged \cup {e.type}} /\ intent = local
            /\ e.type \in FinalTypes => IsTerminal(local)
        BY <1>11, <3>2 DEF Timeout, Scene, RowFollows, InHand
      <4>2. PaidIsSettled'
        BY <3>1, <4>1 DEF Scene, PaidIsSettled, FinalTypes
      <4> QED BY <1>1, <2>1, <4>2 DEF InHand
    <3>3. CASE step # "logging"
      <4>1. logged' = logged
        BY <1>11, <3>3 DEF Timeout
      <4>2. PaidIsSettled'
        BY <3>1, <4>1 DEF Scene, PaidIsSettled
      <4> QED BY <1>1, <2>1, <4>2 DEF InHand
    <3> QED BY <3>2, <3>3
  <2> QED BY <2>2, <2>3, <2>4
<1>12. CASE UNCHANGED vars
  BY <1>12 DEF vars, Scene, RowFollows, EventAccepted, PaidIsSettled,
               ForgedMovesNothing, current
<1> QED
  BY <1>2, <1>3, <1>4, <1>5, <1>6, <1>7, <1>8, <1>9, <1>10, <1>11, <1>12
  DEF LabVerdictsNext

----------------------------------------------------------------------------
(* The risk a run reports is that of its last grave failure.               *)
THEOREM RiskIsReported == LabVerdictsSpec => []RiskIsOfAFailure
<1>1. Accounts => RiskIsOfAFailure
  BY DEF Accounts
<1> QED BY <1>1, AccountsInit, AccountsStep, PTL DEF LabVerdictsSpec

(* Whatever a scenario seeds and whatever its events: as long as each was  *)
(* turned away the intent is as it was seeded.                             *)
THEOREM ForgeriesMoveNothing == LabVerdictsSpec => []ForgedMovesNothing
<1>1. Scene => ForgedMovesNothing
  BY DEF Scene
<1> QED BY <1>1, SceneInit, SceneStep, PTL DEF LabVerdictsSpec

(* Whatever statement fails, the run leaves no intent to the poller that   *)
(* a logged event reports captured or failed.                              *)
THEOREM PaidIntentsAreSettled == LabVerdictsSpec => []PaidIsSettled
<1>1. Scene => PaidIsSettled
  BY DEF Scene
<1> QED BY <1>1, SceneInit, SceneStep, PTL DEF LabVerdictsSpec

----------------------------------------------------------------------------
(* Types.                                                                  *)

(* The suites: tuples of four put together, a choice among them, and what  *)
(* the generator returns.                                                  *)
Groups == <<PlainOutcomes, DuplicatedOrForged, LateOrConflicting,
            MalformedOrMisordered, RepeatedOrImpossible>>

Grouped == UNION {{Groups[g][i] : i \in 1..4} : g \in 1..5}

LEMMA FourLong ==
  ASSUME NEW q, NEW a, NEW b, NEW c, NEW d, q = <<a, b, c, d>>
  PROVE  Len(q) = 4 /\ q \in Seq({q[i] : i \in 1..4})
OBVIOUS

LEMMA GroupsAreFour ==
  ASSUME NEW g \in 1..5
  PROVE  Groups[g] \in Seq(Grouped) /\ Len(Groups[g]) = 4
<1> DEFINE IsFour(q) == q = <<q[1], q[2], q[3], q[4]>>
<1>1. IsFour(PlainOutcomes)
  BY DEF PlainOutcomes
<1>2. IsFour(DuplicatedOrForged)
  BY DEF DuplicatedOrForged
<1>3. IsFour(LateOrConflicting)
  BY DEF LateOrConflicting
<1>4. IsFour(MalformedOrMisordered)
  BY DEF MalformedOrMisordered
<1>5. IsFour(RepeatedOrImpossible)
  BY DEF RepeatedOrImpossible
<1>6. \/ Groups[g] = PlainOutcomes \/ Groups[g] = DuplicatedOrForged
      \/ Groups[g] = LateOrConflicting \/ Groups[g] = MalformedOrMisordered
      \/ Groups[g] = RepeatedOrImpossible
  BY DEF Groups
<1> HIDE DEF IsFour
<1>7. IsFour(Groups[g])
  BY <1>1, <1>2, <1>3, <1>4, <1>5, <1>6
<1>8. Len(Groups[g]) = 4 /\ Groups[g] \in Seq({Groups[g][i] : i \in 1..4})
  BY <1>7, FourLong, Zenon DEF IsFour
<1>9. {Groups[g][i] : i \in 1..4} \subseteq Grouped
  BY DEF Grouped
<1> QED BY <1>8, <1>9, SeqMonotonic

(* The library: twenty scenarios, each of one of the groups.               *)
LEMMA LibraryIsGrouped == Library \in Seq(Grouped) /\ Len(Library) = 20
<1> DEFINE one == PlainOutcomes \o DuplicatedOrForged
           two == one \o LateOrConflicting
           three == two \o MalformedOrMisordered
<1>1. /\ PlainOutcomes = Groups[1] /\ DuplicatedOrForged = Groups[2]
      /\ LateOrConflicting = Groups[3] /\ MalformedOrMisordered = Groups[4]
      /\ RepeatedOrImpossible = Groups[5]
  BY DEF Groups
<1>2. /\ PlainOutcomes \in Seq(Grouped) /\ Len(PlainOutcomes) = 4
      /\ DuplicatedOrForged \in Seq(Grouped) /\ Len(DuplicatedOrForged) = 4
      /\ LateOrConflicting \in Seq(Grouped) /\ Len(LateOrConflicting) = 4
      /\ MalformedOrMisordered \in Seq(Grouped) /\ Len(MalformedOrMisordered) = 4
      /\ RepeatedOrImpossible \in Seq(Grouped) /\ Len(RepeatedOrImpossible) = 4
  BY <1>1, GroupsAreFour
<1> HIDE DEF one, two, three
<1>3. /\ one \in Seq(Grouped)
      /\ Len(one) = Len(PlainOutcomes) + Len(DuplicatedOrForged)
  BY <1>2, ConcatProperties, Zenon DEF one
<1>4. two \in Seq(Grouped) /\ Len(two) = Len(one) + Len(LateOrConflicting)
  BY <1>2, <1>3, ConcatProperties, Zenon DEF two
<1>5. three \in Seq(Grouped) /\ Len(three) = Len(two) + Len(MalformedOrMisordered)
  BY <1>2, <1>4, ConcatProperties, Zenon DEF three
<1>6. Library = three \o RepeatedOrImpossible
  BY DEF Library, one, two, three
<1>7. /\ Library \in Seq(Grouped)
      /\ Len(Library) = Len(three) + Len(RepeatedOrImpossible)
  BY <1>2, <1>5, <1>6, ConcatProperties, Zenon
<1> QED BY <1>2, <1>3, <1>4, <1>5, <1>7

LEMMA SelectionIsBounded ==
  ASSUME NEW types
  PROVE  Len(Selected(types)) \in 0..20
<1> DEFINE chosen == {i \in DOMAIN Library : Library[i].type \in types}
<1>1. DOMAIN Library = 1..Len(Library) /\ Len(Library) \in Nat
  BY LibraryIsGrouped, LenProperties
<1>2. \A n \in Nat : IsFiniteSet(1..n) /\ Cardinality(1..n) = n
  BY FS_Interval
<1>3. chosen \subseteq 1..Len(Library)
  BY <1>1
<1>4. Cardinality(chosen) \in Nat /\ Cardinality(chosen) <= Len(Library)
  BY <1>1, <1>2, <1>3, FS_Subset, FS_CardinalityType
<1> HIDE DEF chosen
<1>5. \A n \in Nat : \A f : Len([k \in 1..n |-> f[k]]) = n
  OBVIOUS
<1> DEFINE Nth(k) == CHOOSE i \in chosen : Cardinality({j \in chosen : j <= i}) = k
           picked == [k \in 1..Cardinality(chosen) |-> Library[Nth(k)]]
<1>6. Selected(types) = picked
  BY DEF Selected, chosen
<1>7. Len(picked) = Cardinality(chosen)
  <2> DEFINE n == Cardinality(chosen)
  <2>1. n \in Nat
    BY <1>4
  <2> HIDE DEF n
  <2>2. Len([k \in 1..n |-> Library[Nth(k)]]) = n
    BY <2>1
  <2> QED BY <2>2 DEF n
<1> HIDE DEF picked
<1> QED BY <1>4, <1>6, <1>7, LibraryIsGrouped, SMTT(30)

LEMMA FallbackIsLong ==
  ASSUME NEW n \in Nat
  PROVE  Len(Fallback(n)) = n /\ Fallback(n) \in Seq({Templates[i] : i \in 1..5})
<1>1. Len(Templates) = 5
  BY DEF Templates
<1>2. \A i \in 1..n : ((i - 1) % 5) + 1 \in 1..5
  OBVIOUS
<1> QED BY <1>1, <1>2 DEF Fallback

(* As many scenarios as asked for, whatever the model writes.              *)
LEMMA GenerationIsLong ==
  ASSUME NEW items \in ModelAnswers, NEW count \in Nat
  PROVE  Len(Generate(items, count)) = count
<1> DEFINE upto == IF Len(items) < count THEN Len(items) ELSE count
           kept == SubSeq(items, 1, upto)
           both == AIItems \cup {Templates[i] : i \in 1..5}
<1>1. PICK n \in 0..MaxAIItems : items \in [1..n -> AIItems]
  BY DEF ModelAnswers
<1>2. n \in Nat /\ Len(items) = n
  BY <1>1, LabVerdictsAssumption
<1>3. upto \in Nat /\ upto <= n /\ upto <= count
  BY <1>2
<1> HIDE DEF upto
<1>4. \A i \in 1..upto : items[i] \in both
  BY <1>1, <1>2, <1>3
<1>5. kept \in Seq(both) /\ Len(kept) = upto
  <2>1. Len(kept) = IF 1 <= upto THEN upto - 1 + 1 ELSE 0
    BY <1>3, <1>4, SubSeqProperties
  <2>2. kept \in Seq(both)
    BY <1>3, <1>4, SubSeqProperties
  <2> QED BY <1>3, <2>1, <2>2
<1>6. /\ Fallback(count - upto) \in Seq(both)
      /\ Len(Fallback(count - upto)) = count - upto
  <2>1. count - upto \in Nat
    BY <1>3
  <2> QED BY <2>1, FallbackIsLong, SeqMonotonic
<1>7. Generate(items, count) = kept \o Fallback(count - upto)
  <2>1. Generate(items, count) = kept \o Fallback(count - Len(kept))
    BY DEF Generate, upto
  <2> QED BY <1>5, <2>1
<1> HIDE DEF kept, both
<1>8. Len(Generate(items, count)) = upto + (count - upto)
  BY <1>3, <1>5, <1>6, <1>7, ConcatProperties, ZenonT(40)
<1> QED BY <1>3, <1>8

LEMMA SuitesAreBounded == \A q \in Suites : Len(q) \in 0..25
<1>1. Len(Library) \in 0..25
  BY LibraryIsGrouped
<1>2. \A types : Len(Selected(types)) \in 0..25
  BY SelectionIsBounded
<1>3. ASSUME NEW items \in ModelAnswers, NEW n \in Requested
      PROVE  Len(Generate(items, Clamped(n))) \in 0..25
  <2>1. Clamped(n) \in 5..25
    BY LabVerdictsAssumption DEF Clamped
  <2>2. Clamped(n) \in Nat
    BY <2>1
  <2>3. Len(Generate(items, Clamped(n))) = Clamped(n)
    BY <2>2, GenerationIsLong
  <2> QED BY <2>1, <2>3
<1> QED BY <1>1, <1>2, <1>3 DEF Suites

(* The runner reads only scenarios there are, and nothing fails beyond the *)
(* bound but by the timer.                                                 *)
Typed ==
  /\ LabVerdictsTypeOK
  /\ step \notin {"looping", "closed"} => at <= Len(suite)
  /\ step # "closed" => faults <= MaxFaults

LEMMA MovedInStates ==
  ASSUME NEW s \in States, NEW type
  PROVE  MovedBy(s, type) \in States
<1>1. \A e : Transition(s, e) \in States
  <2>1. CASE s \in DOMAIN Transitions
    BY <2>1, SMTT(60) DEF Transition, AllowedEvents, Transitions, States, Terminal
  <2>2. CASE s \notin DOMAIN Transitions
    BY <2>2 DEF Transition, AllowedEvents, States, Terminal
  <2> QED BY <2>1, <2>2
<1> QED BY <1>1 DEF MovedBy

LEMMA TypedInit == LabVerdictsInit => Typed
<1> SUFFICES ASSUME LabVerdictsInit PROVE Typed
  OBVIOUS
<1>1. Len(suite) \in 0..25
  BY SuitesAreBounded DEF LabVerdictsInit
<1>2. 0 \in 0..(MaxFaults + 1) /\ 0 <= MaxFaults
  BY LabVerdictsAssumption
<1>3. at \in 1..(Len(suite) + 1)
  BY <1>1 DEF LabVerdictsInit
<1>4. /\ step = "looping" /\ ev \in Nat /\ intent \in States \cup {"none"}
      /\ http \in {200, 400, 401} /\ tasked \in BOOLEAN /\ verdict \in Verdicts
      /\ risk \in Risks /\ failedAt \subseteq 1..Len(suite) /\ faults = 0
  BY DEF LabVerdictsInit, Verdicts, Risks
<1> QED BY <1>1, <1>2, <1>3, <1>4 DEF Typed, LabVerdictsTypeOK

LEMMA TypedStep ==
  Typed /\ Accounts /\ Accounts' /\ Scene /\ [LabVerdictsNext]_vars => Typed'
<1> SUFFICES ASSUME Typed, Accounts, Accounts', Scene, [LabVerdictsNext]_vars
             PROVE  Typed'
  OBVIOUS
<1> USE DEF suiteVars, intentVars, seenVars, totalVars
<1>a. /\ at' \in Nat \ {0} /\ verdict' \in Verdicts /\ failedAt' \subseteq 1..(at' - 1)
  BY DEF Accounts, AccountsTypeOK
<1>s. suite' = suite
  BY DEF LabVerdictsNext, NextScenario, Seed, Refuse, Accept, Enqueue, Log, Judge,
         SaveResult, Close, Timeout, vars
<1>t. /\ at <= Len(suite) + 1 /\ faults \in 0..(MaxFaults + 1) /\ MaxFaults \in Nat
      /\ Len(suite) \in 0..25 /\ at \in Nat
  BY LabVerdictsAssumption DEF Typed, LabVerdictsTypeOK
<1> DEFINE InHandOK ==
             step \in InHand =>
               /\ local \in States
               /\ logged \subseteq {current.events[k].type : k \in DOMAIN current.events}
           Places == {"looping", "seeding", "injecting", "enqueueing", "logging",
                      "saving", "closed"}
<1>g. ASSUME at' <= Len(suite) + 1, step' \in Places, ev' \in Nat,
             InHandOK', intent' \in States \cup {"none"}, http' \in {200, 400, 401},
             tasked' \in BOOLEAN, risk' \in Risks,
             step' \notin {"looping", "closed"} => at' <= Len(suite),
             faults' \in 0..MaxFaults \/ (step' = "closed" /\ faults' = MaxFaults + 1)
      PROVE  Typed'
  <2>0. at' <= Len(suite) + 1
    BY <1>g
  <2>1. 1..(at' - 1) \subseteq 1..Len(suite)
    <3>1. \A m, n \in Nat : m <= n + 1 => 1..(m - 1) \subseteq 1..n
      OBVIOUS
    <3>2. at' \in Nat /\ Len(suite) \in Nat
      BY <1>a, <1>t
    <3> QED BY <2>0, <3>1, <3>2
  <2>2. at' \in 1..(Len(suite) + 1)
    BY <1>a, <1>t, <2>0
  <2>3. faults' \in 0..(MaxFaults + 1) /\ (step' # "closed" => faults' <= MaxFaults)
    BY <1>t, <1>g
  <2>4. Len(suite)' \in 0..25 /\ at' \in 1..(Len(suite)' + 1)
        /\ failedAt' \subseteq 1..Len(suite)'
    BY <1>a, <1>s, <1>t, <2>1, <2>2
  <2>5. step' \notin {"looping", "closed"} => at' <= Len(suite)'
    BY <1>s, <1>g
  <2>6. step' \in {"injecting", "enqueueing", "logging"} =>
          /\ local' \in States
          /\ logged' \subseteq {current'.events[k].type : k \in DOMAIN current'.events}
    BY <1>g DEF InHand
  <2>7. LabVerdictsTypeOK'
    BY <1>a, <1>g, <2>3, <2>4, <2>6 DEF LabVerdictsTypeOK
  <2> QED BY <2>3, <2>5, <2>7 DEF Typed
<1>o. /\ ev \in Nat /\ intent \in States \cup {"none"} /\ http \in {200, 400, 401}
      /\ tasked \in BOOLEAN /\ risk \in Risks /\ InHandOK /\ step \in Places
      /\ step \notin {"looping", "closed"} => at <= Len(suite)
      /\ step # "closed" => faults \in 0..MaxFaults
  BY <1>t DEF Typed, LabVerdictsTypeOK, InHand
<1>r. Raises => step' = "saving" /\ faults' \in 0..MaxFaults
  BY <1>t DEF Raises
<1>c. Count => at' = at + 1 /\ risk' \in Risks
  BY <1>o DEF Count, RiskAfter, Risks
<1>1. CASE NextScenario
  BY <1>1, <1>g, <1>o, <1>t DEF NextScenario, InHand
<1>2. CASE Seed
  <2>1. logged = {} /\ current' = current
    BY <1>2 DEF Seed, Scene, RowFollows, current
  <2>2. step' = "injecting" => local \in States /\ faults' = faults
    BY <1>2 DEF Seed, Raises
  <2>3. /\ step' \in {"injecting", "saving"} /\ intent' \in States \cup {"none"}
        /\ (faults' = faults \/ Raises)
    BY <1>2, <1>o DEF Seed, Raises
  <2>4. UNCHANGED <<at, ev, local, logged, http, tasked, risk>> /\ step = "seeding"
    BY <1>2 DEF Seed
  <2> QED BY <1>g, <1>o, <1>r, <1>t, <2>1, <2>2, <2>3, <2>4 DEF InHand
<1>3. CASE Refuse
  <2>1. /\ step = "injecting" /\ ev' = ev + 1 /\ http' = Refusal(current.events[ev])
        /\ UNCHANGED <<at, step, local, intent, logged, tasked, risk, faults>>
    BY <1>3 DEF Refuse
  <2>2. http' \in {200, 400, 401} /\ current' = current
    BY <1>s, <2>1 DEF Refusal, current
  <2> QED BY <1>g, <1>o, <1>t, <2>1, <2>2 DEF InHand
<1>4. CASE Accept
  <2>1. /\ step = "injecting" /\ local' = MovedBy(local, current.events[ev].type)
        /\ intent' \in {intent, local'}
        /\ UNCHANGED <<at, ev, logged, http, tasked, risk>>
        /\ \/ step' \in {"enqueueing", "logging"} /\ faults' = faults
           \/ Raises
    BY <1>4 DEF Accept, Raises
  <2>2. local' \in States /\ current' = current
    BY <1>o, <1>s, <2>1, MovedInStates DEF InHand, current
  <2>3. InHandOK'
    BY <1>o, <2>1, <2>2 DEF InHand
  <2> HIDE DEF InHandOK
  <2> QED BY <1>g, <1>o, <1>r, <1>t, <2>1, <2>2, <2>3
<1>5. CASE Enqueue
  <2>1. /\ step = "enqueueing" /\ tasked' \in {tasked, TRUE}
        /\ UNCHANGED <<at, ev, local, intent, logged, http, risk>>
        /\ \/ step' = "logging" /\ faults' = faults
           \/ Raises
    BY <1>5 DEF Enqueue
  <2>2. current' = current
    BY <1>s, <2>1 DEF current
  <2>3. InHandOK'
    BY <1>o, <2>1, <2>2 DEF InHand
  <2> HIDE DEF InHandOK
  <2> QED BY <1>g, <1>o, <1>r, <1>t, <2>1, <2>3, ZenonT(40)
<1>6. CASE Log
  <2>1. /\ step = "logging" /\ ev' \in {ev, ev + 1}
        /\ logged' \in {logged, logged \cup {current.events[ev].type}}
        /\ UNCHANGED <<at, local, intent, http, tasked, risk>>
        /\ \/ step' = "injecting" /\ faults' = faults
           \/ Raises
    BY <1>6 DEF Log
  <2>2. current' = current /\ ev \in DOMAIN current.events
    BY <1>s, <2>1 DEF Scene, EventAccepted, current
  <2>3. InHandOK'
    BY <1>o, <2>1, <2>2 DEF InHand
  <2> QED BY <1>g, <1>o, <1>r, <1>t, <2>1, <2>3 DEF InHand
<1>7. CASE Judge
  <2>1. /\ step = "injecting" /\ step' = "saving" /\ (faults' = faults \/ Raises)
        /\ UNCHANGED <<at, ev, local, intent, logged, http, tasked, risk>>
    BY <1>7 DEF Judge, Raises
  <2> QED BY <1>g, <1>o, <1>r, <1>t, <2>1 DEF InHand
<1>8. CASE SaveResult
  <2>1. /\ step = "saving" /\ step' = "looping" /\ Count
        /\ faults' = faults \/ (faults < MaxFaults /\ faults' = faults + 1)
        /\ UNCHANGED <<ev, local, intent, logged, http, tasked>>
    BY <1>8 DEF SaveResult
  <2> QED BY <1>c, <1>g, <1>o, <1>t, <2>1 DEF InHand
<1>9. CASE Close
  BY <1>9, <1>g, <1>o, <1>t DEF Close, InHand
<1>10. CASE Timeout
  <2>1. /\ step \notin {"looping", "closed"} /\ step' = "closed" /\ faults' = faults + 1
        /\ UNCHANGED <<ev, local, http, tasked>>
        /\ Count \/ UNCHANGED <<at, risk>>
    BY <1>10 DEF Timeout
  <2>2. intent' \in States \cup {"none"}
    <3>1. CASE step = "injecting"
      <4>1. MovedBy(local, current.events[ev].type) \in States
        BY <1>o, <3>1, MovedInStates DEF InHand
      <4> QED BY <1>10, <1>o, <3>1, <4>1 DEF Timeout
    <3>2. CASE step # "injecting"
      BY <1>10, <1>o, <3>2 DEF Timeout
    <3> QED BY <3>1, <3>2
  <2> QED BY <1>c, <1>g, <1>o, <1>t, <2>1, <2>2 DEF InHand
<1>11. CASE UNCHANGED vars
  BY <1>11, <1>g, <1>o, <1>t DEF vars, current
<1> QED
  BY <1>1, <1>2, <1>3, <1>4, <1>5, <1>6, <1>7, <1>8, <1>9, <1>10, <1>11
  DEF LabVerdictsNext

(* The suite of a run holds, by name, the types of every variable.         *)
THEOREM LabVerdictsTypeCorrect == LabVerdictsSpec => []LabVerdictsTypeOK
<1>1. Typed => LabVerdictsTypeOK
  BY DEF Typed
<1> QED
  BY <1>1, AccountsInit, AccountsStep, SceneInit, SceneStep, TypedInit,
     TypedStep, PTL
  DEF LabVerdictsSpec

----------------------------------------------------------------------------
(* Verdicts.                                                               *)

(* The state an intent is in after an event, and after the first k events  *)
(* of its scenario, of which the code's own have three at the most.        *)
After(state, e) == IF Refusal(e) = 200 THEN MovedBy(state, e.type) ELSE state

StateAfter(s, k) ==
  LET one == After(s.seed, s.events[1])
      two == After(one, s.events[2])
  IN  CASE k = 0 -> s.seed
        [] k = 1 -> one
        [] k = 2 -> two
        [] OTHER -> After(two, s.events[3])

\* What makes the oracle FAIL a scenario whose intent ends in a state.
FailsIn(s, state) ==
  state # s.want.state \/ s.want.policy \notin {"any", LabPolicy(s, state)}

\* A scenario that FAILs if and only if it is known to.
IsForetold(s) ==
  /\ s.seed \in States
  /\ Len(s.events) \in 0..3 /\ DOMAIN s.events = 1..Len(s.events)
  /\ FailsIn(s, StateAfter(s, Len(s.events))) <=> s.type \in KnownFailures

(* The rows of the state machine that the scenarios of the code meet.      *)
LEMMA MovesMet ==
  /\ MovedBy("CREATED", "payment.captured") = "CAPTURED"
  /\ MovedBy("CREATED", "checkout_verify") = "CAPTURED"
  /\ MovedBy("CREATED", "payment.failed") = "FAILED"
  /\ MovedBy("CREATED", "illegal_state_jump") = "MANUAL_REVIEW"
  /\ MovedBy("UNCERTAIN", "payment.captured") = "MANUAL_REVIEW"
  /\ MovedBy("DUPLICATE_SUSPECTED", "payment.captured") = "MANUAL_REVIEW"
  /\ MovedBy("CAPTURED", "payment.captured") = "CAPTURED"
  /\ MovedBy("CAPTURED", "checkout_verify") = "CAPTURED"
  /\ MovedBy("CAPTURED", "payment.failed") = "CAPTURED"
  /\ MovedBy("FAILED", "payment.captured") = "FAILED"
  /\ MovedBy("RECONCILED", "payment.failed") = "RECONCILED"
  /\ \A state, type : type \notin FinalTypes \cup {"illegal_state_jump"} =>
       MovedBy(state, type) = state
BY DEF MovedBy, Transition, Transitions, AllowedEvents, Terminal, FinalTypes

(* The policy engine's decisions in the states the scenarios end in.       *)
LEMMA DecisionsMet ==
  ASSUME NEW s
  PROVE  /\ LabPolicy(s, "UNCERTAIN") = "REJECT"
         /\ LabPolicy(s, "CAPTURED") = "REJECT"
         /\ LabPolicy(s, "MANUAL_REVIEW") = "REJECT"
         /\ s.large => LabPolicy(s, "DUPLICATE_SUSPECTED") = "MANUAL_REVIEW"
BY DEF LabPolicy, LabAdvice, Recommendation, Evaluate, AllowedActions, Resolvable

(* Every scenario of the code, group by group, is run through by the       *)
(* definitions: its verdict is the known one.                              *)
LEMMA PlainOutcomesForetold ==
  \A i \in 1..4 : IsForetold(PlainOutcomes[i])
<1> USE MovesMet, DecisionsMet
    DEF IsForetold, FailsIn, StateAfter, After, Refusal, KnownFailures,
        FinalTypes, PlainOutcomes, Scenario, Signed, Forged, captured,
        failed, checked, Want, Refused, WithPolicy, WithTask, States, Terminal
<1>1. IsForetold(PlainOutcomes[1])
  OBVIOUS
<1>2. IsForetold(PlainOutcomes[2])
  OBVIOUS
<1>3. IsForetold(PlainOutcomes[3])
  OBVIOUS
<1>4. IsForetold(PlainOutcomes[4])
  OBVIOUS
<1> HIDE MovesMet, DecisionsMet DEF IsForetold, PlainOutcomes
<1> QED BY <1>1, <1>2, <1>3, <1>4

LEMMA DuplicatedOrForgedForetold ==
  \A i \in 1..4 : IsForetold(DuplicatedOrForged[i])
<1> USE MovesMet, DecisionsMet
    DEF IsForetold, FailsIn, StateAfter, After, Refusal, KnownFailures,
        FinalTypes, DuplicatedOrForged, Scenario, Signed, Forged, captured,
        failed, checked, Want, Refused, WithPolicy, WithTask, States, Terminal
<1>1. IsForetold(DuplicatedOrForged[1])
  OBVIOUS
<1>2. IsForetold(DuplicatedOrForged[2])
  OBVIOUS
<1>3. IsForetold(DuplicatedOrForged[3])
  OBVIOUS
<1>4. IsForetold(DuplicatedOrForged[4])
  OBVIOUS
<1> HIDE MovesMet, DecisionsMet DEF IsForetold, DuplicatedOrForged
<1> QED BY <1>1, <1>2, <1>3, <1>4

LEMMA LateOrConflictingForetold ==
  \A i \in 1..4 : IsForetold(LateOrConflicting[i])
<1> USE MovesMet, DecisionsMet
    DEF IsForetold, FailsIn, StateAfter, After, Refusal, KnownFailures,
        FinalTypes, LateOrConflicting, Scenario, Signed, Forged, captured,
        failed, checked, Want, Refused, WithPolicy, WithTask, States, Terminal
<1>1. IsForetold(LateOrConflicting[1])
  OBVIOUS
<1>2. IsForetold(LateOrConflicting[2])
  OBVIOUS
<1>3. IsForetold(LateOrConflicting[3])
  OBVIOUS
<1>4. IsForetold(LateOrConflicting[4])
  OBVIOUS
<1> HIDE MovesMet, DecisionsMet DEF IsForetold, LateOrConflicting
<1> QED BY <1>1, <1>2, <1>3, <1>4

LEMMA MalformedOrMisorderedForetold ==
  \A i \in 1..4 : IsForetold(MalformedOrMisordered[i])
<1> USE MovesMet, DecisionsMet
    DEF IsForetold, FailsIn, StateAfter, After, Refusal, KnownFailures,
        FinalTypes, MalformedOrMisordered, Scenario, Signed, Forged, captured,
        failed, checked, Want, Refused, WithPolicy, WithTask, States, Terminal
<1>1. IsForetold(MalformedOrMisordered[1])
  OBVIOUS
<1>2. IsForetold(MalformedOrMisordered[2])
  OBVIOUS
<1>3. IsForetold(MalformedOrMisordered[3])
  OBVIOUS
<1>4. IsForetold(MalformedOrMisordered[4])
  OBVIOUS
<1> HIDE MovesMet, DecisionsMet DEF IsForetold, MalformedOrMisordered
<1> QED BY <1>1, <1>2, <1>3, <1>4

LEMMA RepeatedOrImpossibleForetold ==
  \A i \in 1..4 : IsForetold(RepeatedOrImpossible[i])
<1> USE MovesMet, DecisionsMet
    DEF IsForetold, FailsIn, StateAfter, After, Refusal, KnownFailures,
        FinalTypes, RepeatedOrImpossible, Scenario, Signed, Forged, captured,
        failed, checked, Want, Refused, WithPolicy, WithTask, States, Terminal
<1>1. IsForetold(RepeatedOrImpossible[1])
  OBVIOUS
<1>2. IsForetold(RepeatedOrImpossible[2])
  OBVIOUS
<1>3. IsForetold(RepeatedOrImpossible[3])
  OBVIOUS
<1>4. IsForetold(RepeatedOrImpossible[4])
  OBVIOUS
<1> HIDE MovesMet, DecisionsMet DEF IsForetold, RepeatedOrImpossible
<1> QED BY <1>1, <1>2, <1>3, <1>4

LEMMA TemplatesForetold ==
  \A i \in 1..5 : IsForetold(Templates[i])
<1> USE MovesMet, DecisionsMet
    DEF IsForetold, FailsIn, StateAfter, After, Refusal, KnownFailures,
        FinalTypes, Templates, Scenario, Signed, Forged, captured,
        failed, checked, Want, Refused, WithPolicy, WithTask, States, Terminal
<1>1. IsForetold(Templates[1])
  OBVIOUS
<1>2. IsForetold(Templates[2])
  OBVIOUS
<1>3. IsForetold(Templates[3])
  OBVIOUS
<1>4. IsForetold(Templates[4])
  OBVIOUS
<1>5. IsForetold(Templates[5])
  OBVIOUS
<1> HIDE MovesMet, DecisionsMet DEF IsForetold, Templates
<1> QED BY <1>1, <1>2, <1>3, <1>4, <1>5

LEMMA KnownForetold == \A s \in Known : IsForetold(s)
<1>1. ASSUME NEW g \in 1..5, NEW i \in 1..4 PROVE IsForetold(Groups[g][i])
  <2>1. \/ Groups[g] = PlainOutcomes \/ Groups[g] = DuplicatedOrForged
        \/ Groups[g] = LateOrConflicting \/ Groups[g] = MalformedOrMisordered
        \/ Groups[g] = RepeatedOrImpossible
    BY DEF Groups
  <2> QED
    BY <2>1, PlainOutcomesForetold, DuplicatedOrForgedForetold,
       LateOrConflictingForetold, MalformedOrMisorderedForetold,
       RepeatedOrImpossibleForetold
<1>2. \A i \in DOMAIN Library : Library[i] \in Grouped
  BY LibraryIsGrouped, ElementOfSeq, LenProperties
<1>3. \A i \in DOMAIN Library : IsForetold(Library[i])
  BY <1>1, <1>2 DEF Grouped
<1>4. DOMAIN Templates = 1..5
  BY DEF Templates
<1> QED BY <1>3, <1>4, TemplatesForetold DEF Known

(* One event after the other.                                              *)
LEMMA StateAfterNext ==
  ASSUME NEW s, NEW k \in 0..2
  PROVE  StateAfter(s, k + 1) = After(StateAfter(s, k), s.events[k + 1])
<1>1. k = 0 \/ k = 1 \/ k = 2
  OBVIOUS
<1> QED BY <1>1 DEF StateAfter

(* The HTTP status and the task decide between a pass and a warning only.  *)
LEMMA OracleFails ==
  ASSUME NEW s, NEW state, NEW http1, NEW tasked1
  PROVE  Oracle(s.want, state, http1, LabPolicy(s, state), tasked1) = "FAIL"
           <=> FailsIn(s, state)
BY DEF Oracle, FailsIn

(* While nothing has failed, a scenario of the code is where its events    *)
(* lead, and its verdict the one foretold.                                 *)
WhereForetold ==
  faults = 0 /\ current \in Known =>
    /\ step = "seeding" => ev = 1
    /\ step = "injecting" =>
         ev <= Len(current.events) + 1 /\ local = StateAfter(current, ev - 1)
    /\ step \in {"enqueueing", "logging"} => local = StateAfter(current, ev)
    /\ step = "saving" => (verdict = "FAIL" <=> current.type \in KnownFailures)

Foretold == WhereForetold /\ OnlyKnownScenariosFail

LEMMA ForetoldInit == LabVerdictsInit => Foretold
BY DEF LabVerdictsInit, Foretold, WhereForetold, OnlyKnownScenariosFail

LEMMA ForetoldStep ==
  Foretold /\ Accounts /\ Scene /\ [LabVerdictsNext]_vars => Foretold'
<1> SUFFICES ASSUME Foretold, Accounts, Scene, [LabVerdictsNext]_vars,
                    faults' = 0
             PROVE  Foretold'
  BY DEF Foretold, WhereForetold, OnlyKnownScenariosFail
<1> USE DEF suiteVars, intentVars, seenVars, totalVars
<1>a. faults \in Nat /\ at \in Nat \ {0} /\ failedAt \subseteq 1..(at - 1)
  BY DEF Accounts, AccountsTypeOK
<1>f. faults' # faults + 1
  BY <1>a
<1>r. ~Raises
  BY <1>f DEF Raises
<1>g. ASSUME UNCHANGED <<suite, at, failedAt, faults>>, WhereForetold'
      PROVE  Foretold'
  BY <1>g DEF Foretold, OnlyKnownScenariosFail
<1>k. current \in Known =>
        /\ current.seed \in States
        /\ Len(current.events) \in 0..3
        /\ DOMAIN current.events = 1..Len(current.events)
        /\ FailsIn(current, StateAfter(current, Len(current.events)))
             <=> current.type \in KnownFailures
  BY KnownForetold DEF IsForetold
<1>e. ev \in Nat \ {0} /\ (step = "seeding" => local = current.seed)
      /\ (step \in InHand => intent = local)
  BY DEF Scene, RowFollows
<1>1. CASE NextScenario
  <2>1. UNCHANGED <<suite, at, failedAt, faults>> /\ step' = "seeding" /\ ev' = 1
    BY <1>1 DEF NextScenario
  <2> QED BY <1>g, <2>1 DEF WhereForetold
<1>2. CASE Seed
  <2>1. /\ UNCHANGED <<suite, at, failedAt, faults, ev, local>> /\ step = "seeding"
        /\ \/ step' = "injecting"
           \/ local \notin States /\ step' = "saving"
    BY <1>2, <1>r DEF Seed
  <2>2. WhereForetold'
    <3> SUFFICES ASSUME current \in Known PROVE WhereForetold'
      BY <2>1 DEF WhereForetold, current
    <3>1. ev = 1 /\ faults = 0
      BY <2>1 DEF Foretold, WhereForetold
    <3>2. step' = "injecting" /\ local' = StateAfter(current, 0)
      BY <1>e, <1>k, <2>1 DEF StateAfter
    <3> QED BY <1>k, <2>1, <3>1, <3>2 DEF WhereForetold, current
  <2> QED BY <1>g, <2>1, <2>2
<1>3. CASE Refuse
  <2>1. /\ UNCHANGED <<suite, at, failedAt, faults, step, local>> /\ ev' = ev + 1
        /\ step = "injecting" /\ ev \in DOMAIN current.events
        /\ Refusal(current.events[ev]) # 200
    BY <1>3 DEF Refuse
  <2>2. WhereForetold'
    <3> SUFFICES ASSUME current \in Known PROVE WhereForetold'
      BY <2>1 DEF WhereForetold, current
    <3>1. local = StateAfter(current, ev - 1) /\ ev - 1 \in 0..2
      BY <1>e, <1>k, <2>1 DEF Foretold, WhereForetold
    <3>2. StateAfter(current, ev) = After(local, current.events[ev])
      BY <1>e, <3>1, StateAfterNext
    <3>3. local' = StateAfter(current, ev' - 1) /\ ev' <= Len(current.events) + 1
      BY <1>e, <1>k, <2>1, <3>2 DEF After
    <3> QED BY <2>1, <3>3 DEF WhereForetold, current
  <2> QED BY <1>g, <2>1, <2>2
<1>4. CASE Accept
  <2>1. /\ UNCHANGED <<suite, at, failedAt, faults, ev>>
        /\ local' = MovedBy(local, current.events[ev].type)
        /\ step = "injecting" /\ ev \in DOMAIN current.events
        /\ Refusal(current.events[ev]) = 200 /\ step' \in {"enqueueing", "logging"}
    BY <1>4, <1>r DEF Accept
  <2>2. WhereForetold'
    <3> SUFFICES ASSUME current \in Known PROVE WhereForetold'
      BY <2>1 DEF WhereForetold, current
    <3>1. local = StateAfter(current, ev - 1) /\ ev - 1 \in 0..2
      BY <1>e, <1>k, <2>1 DEF Foretold, WhereForetold
    <3>2. StateAfter(current, ev) = After(local, current.events[ev])
      BY <1>e, <3>1, StateAfterNext
    <3> QED BY <2>1, <3>2 DEF WhereForetold, After, current
  <2> QED BY <1>g, <2>1, <2>2
<1>5. CASE Enqueue
  <2>1. UNCHANGED <<suite, at, failedAt, faults, ev, local>>
        /\ step = "enqueueing" /\ step' = "logging"
    BY <1>5, <1>r DEF Enqueue
  <2> QED BY <1>g, <2>1 DEF Foretold, WhereForetold, current
<1>6. CASE Log
  <2>1. UNCHANGED <<suite, at, failedAt, faults, local>> /\ ev' = ev + 1
        /\ step = "logging" /\ step' = "injecting" /\ ev \in DOMAIN current.events
    BY <1>6, <1>r DEF Log, Scene, EventAccepted
  <2>2. current \in Known => ev' <= Len(current.events) + 1 /\ ev' - 1 = ev
    BY <1>e, <1>k, <2>1
  <2> QED BY <1>g, <2>1, <2>2 DEF Foretold, WhereForetold, current
<1>7. CASE Judge
  <2>1. /\ UNCHANGED <<suite, at, failedAt, faults>> /\ step = "injecting"
        /\ step' = "saving" /\ ev > Len(current.events)
        /\ verdict' = Oracle(current.want, local, http,
                             LabPolicy(current, local), tasked)
    BY <1>7, <1>e, <1>r DEF Judge, InHand
  <2>2. WhereForetold'
    <3> SUFFICES ASSUME current \in Known PROVE WhereForetold'
      BY <2>1 DEF WhereForetold, current
    <3>1. local = StateAfter(current, ev - 1) /\ ev - 1 = Len(current.events)
      BY <1>e, <1>k, <2>1 DEF Foretold, WhereForetold
    <3>2. verdict' = "FAIL" <=> FailsIn(current, local)
      BY <2>1, OracleFails
    <3> QED BY <1>k, <2>1, <3>1, <3>2 DEF WhereForetold, current
  <2> QED BY <1>g, <2>1, <2>2
<1>c. ASSUME Count, suite' = suite, step = "saving", step' = "looping", faults = 0
      PROVE  Foretold'
  <2>1. /\ at' = at + 1
        /\ failedAt' = failedAt \cup (IF verdict = "FAIL" THEN {at} ELSE {})
    BY <1>c DEF Count
  <2>2. OnlyKnownScenariosFail'
    <3> SUFFICES ASSUME NEW i \in 1..(at' - 1), suite[i] \in Known
                 PROVE  i \in failedAt' <=> suite[i].type \in KnownFailures
      BY <1>c DEF OnlyKnownScenariosFail
    <3>1. CASE i = at
      <4>1. i \in failedAt' <=> verdict = "FAIL"
        BY <1>a, <2>1, <3>1
      <4> QED BY <1>c, <3>1, <4>1 DEF Foretold, WhereForetold, current
    <3>2. CASE i # at
      <4>1. i \in 1..(at - 1) /\ (i \in failedAt' <=> i \in failedAt)
        BY <1>a, <2>1, <3>2
      <4> QED BY <1>c, <4>1 DEF Foretold, OnlyKnownScenariosFail
    <3> QED BY <3>1, <3>2
  <2> QED BY <1>c, <2>2 DEF Foretold, WhereForetold
<1>8. CASE SaveResult
  BY <1>8, <1>c, <1>f DEF SaveResult
<1>9. CASE Close
  <2>1. UNCHANGED <<suite, at, failedAt, faults>> /\ step' = "closed"
    BY <1>9 DEF Close
  <2> QED BY <1>g, <2>1 DEF WhereForetold
<1>10. CASE Timeout
  BY <1>10, <1>f DEF Timeout
<1>11. CASE UNCHANGED vars
  BY <1>11, <1>g DEF vars, Foretold, WhereForetold, current
<1> QED
  BY <1>1, <1>2, <1>3, <1>4, <1>5, <1>6, <1>7, <1>8, <1>9, <1>10, <1>11
  DEF LabVerdictsNext

(* With no statement failing, the scenarios of the code that FAIL are the  *)
(* six known ones, in every suite and at any place in it.                  *)
THEOREM KnownScenariosFail == LabVerdictsSpec => []OnlyKnownScenariosFail
<1>1. Foretold => OnlyKnownScenariosFail
  BY DEF Foretold
<1> QED
  BY <1>1, AccountsInit, AccountsStep, SceneInit, SceneStep, ForetoldInit,
     ForetoldStep, PTL
  DEF LabVerdictsSpec
=============================================================================
