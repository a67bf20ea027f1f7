----------------------------- MODULE GuideProofs -----------------------------
(***************************************************************************)
(* Proofs about WebGuide, for any workers, requests and failures.          *)
(*                                                                         *)
(* FinishedMeansDone is inductive: the steps passed only grow, except in   *)
(* reset_guide, which also takes back the end of the guide, and the        *)
(* workflow only changes together with it.                                 *)
(*                                                                         *)
(* PassedWasSaved is not: a worker that is about to pass a step must have  *)
(* saved its settings before.  The invariant says so of the stages that    *)
(* every worker still has to perform (Due), and that a stage which saves   *)
(* is never skipped as a best effort (Firm).                               *)
(***************************************************************************)
EXTENDS WebGuide, TLAPS

(* Every step keeps the property: one case per stage. *)
LEMMA NextDone == FinishedMeansDone /\ [Next]_vars => FinishedMeansDone'
<1> SUFFICES ASSUME FinishedMeansDone, [Next]_vars
             PROVE  FinishedMeansDone'
  OBVIOUS
<1> USE DEF FinishedMeansDone, HasNextStep
<1>1. CASE UNCHANGED <<wizard, dismissed>>
  BY <1>1 DEF wizard
<1>2. ASSUME NEW w \in Worker, NEW stages, Request(w, stages)
      PROVE  UNCHANGED <<wizard, dismissed>>
  BY <1>2 DEF Request, wizard, history
<1>3. ASSUME NEW w \in Worker,
             \/ SaveSettings(w) \/ ApplySettings(w) \/ LookAtWan(w)
             \/ SaveDefaultWan(w) \/ StageFails(w)
      PROVE  UNCHANGED <<wizard, dismissed>>
  BY <1>3 DEF SaveSettings, ApplySettings, LookAtWan, SaveDefaultWan, StageFails, wizard, history
<1>4. ASSUME NEW w \in Worker, update_passed(w)
      PROVE  FinishedMeansDone'
  <2>1. /\ passed \subseteq passed' /\ workflow' = workflow /\ dismissed' = dismissed
        /\ finished' = (finished \/ WORKFLOWS[workflow] \subseteq passed')
    BY <1>4 DEF update_passed
  <2>2. QED
    BY <2>1
<1>5. ASSUME NEW w \in Worker, EnableGuide(w) \/ ResetGuide(w)
      PROVE  FinishedMeansDone'
  <2>1. finished' = FALSE
    BY <1>5 DEF EnableGuide, ResetGuide
  <2>2. QED
    BY <2>1
<1>6. ASSUME NEW w \in Worker, DisableGuide(w)
      PROVE  FinishedMeansDone'
  <2>1. dismissed' = TRUE
    BY <1>6 DEF DisableGuide
  <2>2. QED
    BY <2>1
<1>7. CASE Idle \/ UNCHANGED vars
  BY <1>1, <1>7 DEF Idle, vars, history
<1>8. QED
  BY <1>1, <1>2, <1>3, <1>4, <1>5, <1>6, <1>7 DEF Next

(* The guide ends only when it is dismissed or every step of its workflow  *)
(* is passed, whatever requests overlap or fail.                           *)
THEOREM GuideFinishedMeansDone == Spec => []FinishedMeansDone
<1>1. Init => FinishedMeansDone
  BY DEF Init, FinishedMeansDone
<1>2. QED
  BY <1>1, NextDone, PTL DEF Spec

-----------------------------------------------------------------------------
(* A step is passed only after it was saved. *)

NoSettings == {"profile", "finished"}
Kinds == {"save", "pass", "apply", "enable", "disable", "reset", "look", "default"}
Workflows == {"old", "router", "min", "shield", "bridge", "unset"}
StageType == [do : Kinds, arg : Step \cup Workflows \cup {"none"}, best : BOOLEAN]

\* the stage saves the settings of the step
Saves(stage, step) ==
  \/ stage.do = "save" /\ stage.arg = step
  \/ stage.do = "default" /\ step = "wan"

\* Of the stages, each that passes a step finds its settings in S or comes
\* after the stage that saves them.
Due(stages, S) ==
  \A i \in 1 .. Len(stages) :
    stages[i].do = "pass" /\ stages[i].arg \notin NoSettings
    => \/ stages[i].arg \in S
       \/ \E j \in 1 .. i - 1 : Saves(stages[j], stages[i].arg)

\* What saves settings is not a best effort.
Firm(stages) ==
  \A i \in 1 .. Len(stages) : stages[i].do \in {"save", "default"} => ~stages[i].best

GoodPlan(stages, S) == stages \in Seq(StageType) /\ Due(stages, S) /\ Firm(stages)

PlansOK == todo \in [Worker -> Seq(StageType)] /\ \A w \in Worker : GoodPlan(todo[w], saved)

SavedInv == PlansOK /\ PassedWasSaved

(* More saved settings do no harm. *)
LEMMA GoodPlanGrows ==
  ASSUME NEW stages, NEW S, NEW T, GoodPlan(stages, S), S \subseteq T
  PROVE  GoodPlan(stages, T)
BY DEF GoodPlan, Due

(* After its first stage the rest of a plan is good with what that stage   *)
(* saved.                                                                  *)
LEMMA GoodPlanTail ==
  ASSUME NEW stages, NEW S, NEW T, GoodPlan(stages, S), stages # <<>>, S \subseteq T,
         \A step : Saves(Head(stages), step) => step \in T
  PROVE  GoodPlan(Tail(stages), T)
<1> DEFINE rest == Tail(stages)
<1>1. /\ stages \in Seq(StageType) /\ rest \in Seq(StageType)
      /\ Len(rest) = Len(stages) - 1
      /\ Len(stages) \in Nat
      /\ \A i \in 1 .. Len(rest) : rest[i] = stages[i + 1]
      /\ Head(stages) = stages[1]
  BY DEF GoodPlan
<1> HIDE DEF rest
<1>2. ASSUME NEW i \in 1 .. Len(rest), rest[i].do = "pass", rest[i].arg \notin NoSettings
      PROVE  \/ rest[i].arg \in T
             \/ \E j \in 1 .. i - 1 : Saves(rest[j], rest[i].arg)
  <2>1. /\ i + 1 \in 1 .. Len(stages) /\ rest[i] = stages[i + 1]
    BY <1>1
  <2>2. \/ rest[i].arg \in S
        \/ \E j \in 1 .. (i + 1) - 1 : Saves(stages[j], rest[i].arg)
    BY <2>1, <1>2 DEF GoodPlan, Due
  <2>3. ASSUME NEW j \in 1 .. i, Saves(stages[j], rest[i].arg), j # 1
        PROVE  \E k \in 1 .. i - 1 : Saves(rest[k], rest[i].arg)
    <3>1. j - 1 \in 1 .. i - 1 /\ j - 1 \in 1 .. Len(rest)
      BY <2>3, <1>1
    <3>2. rest[j - 1] = stages[j]
      BY <3>1, <1>1
    <3>3. QED
      BY <3>1, <3>2, <2>3
  <2>4. QED
    BY <2>2, <2>3, <1>1
<1>3. Due(rest, T)
  BY <1>2 DEF Due
<1>4. Firm(rest)
  <2>1. \A i \in 1 .. Len(rest) : i + 1 \in 1 .. Len(stages) /\ rest[i] = stages[i + 1]
    BY <1>1
  <2>2. QED
    BY <2>1 DEF GoodPlan, Firm
<1>5. QED
  BY <1>1, <1>3, <1>4 DEF GoodPlan, rest

(* One good plan after another is a good plan. *)
LEMMA GoodPlanThen ==
  ASSUME NEW first, NEW second, NEW S, GoodPlan(first, S), GoodPlan(second, S)
  PROVE  GoodPlan(first \o second, S)
<1> DEFINE all == first \o second
           n == Len(first)
<1>1. /\ all \in Seq(StageType) /\ Len(all) = n + Len(second)
      /\ n \in Nat /\ Len(second) \in Nat
      /\ \A i \in 1 .. n : all[i] = first[i]
      /\ \A i \in 1 .. Len(second) : all[n + i] = second[i]
  BY DEF GoodPlan
<1> HIDE DEF all, n
<1>2. ASSUME NEW i \in 1 .. Len(all), i > n
      PROVE  i - n \in 1 .. Len(second) /\ all[i] = second[i - n]
  <2>1. i - n \in 1 .. Len(second) /\ n + (i - n) = i
    BY <1>1, <1>2
  <2>2. QED
    BY <2>1, <1>1
<1>3. ASSUME NEW i \in 1 .. Len(all), all[i].do = "pass", all[i].arg \notin NoSettings
      PROVE  \/ all[i].arg \in S
             \/ \E j \in 1 .. i - 1 : Saves(all[j], all[i].arg)
  <2>1. CASE i <= n
    <3>1. i \in 1 .. n /\ all[i] = first[i]
      BY <2>1, <1>1
    <3>2. \/ all[i].arg \in S
          \/ \E j \in 1 .. i - 1 : Saves(first[j], all[i].arg)
      BY <3>1, <1>3 DEF GoodPlan, Due, n
    <3>3. \A j \in 1 .. i - 1 : all[j] = first[j]
      BY <3>1, <1>1
    <3>4. QED
      BY <3>2, <3>3
  <2>2. CASE i > n
    <3>1. i - n \in 1 .. Len(second) /\ all[i] = second[i - n]
      BY <2>2, <1>2
    <3>2. \/ all[i].arg \in S
          \/ \E j \in 1 .. (i - n) - 1 : Saves(second[j], all[i].arg)
      BY <3>1, <1>3 DEF GoodPlan, Due
    <3>3. ASSUME NEW j \in 1 .. (i - n) - 1
          PROVE  n + j \in 1 .. i - 1 /\ all[n + j] = second[j]
      BY <3>1, <1>1
    <3>4. QED
      BY <3>2, <3>3
  <2>3. QED
    BY <2>1, <2>2, <1>1
<1>4. Due(all, S)
  BY <1>3 DEF Due
<1>5. Firm(all)
  <2>1. ASSUME NEW i \in 1 .. Len(all), all[i].do \in {"save", "default"}
        PROVE  ~all[i].best
    <3>1. CASE i <= n
      <4>1. i \in 1 .. n /\ all[i] = first[i]
        BY <3>1, <1>1
      <4>2. QED
        BY <4>1, <2>1 DEF GoodPlan, Firm, n
    <3>2. CASE i > n
      BY <3>2, <2>1, <1>2 DEF GoodPlan, Firm
    <3>3. QED
      BY <3>1, <3>2, <1>1
  <2>2. QED
    BY <2>1 DEF Firm
<1>6. QED
  BY <1>1, <1>4, <1>5 DEF GoodPlan, all

\* The first stage saves the settings of every step that is passed later.
FirstSaves(stages) ==
  \A i \in 1 .. Len(stages) :
    stages[i].do = "pass" => \/ stages[i].arg \in NoSettings
                             \/ i > 1 /\ Saves(stages[1], stages[i].arg)

(* A plan whose first stage saves what is passed is good whatever was      *)
(* saved before.                                                           *)
LEMMA FirstSavesGood ==
  ASSUME NEW stages \in Seq(StageType), FirstSaves(stages), Firm(stages), NEW S
  PROVE  GoodPlan(stages, S)
BY DEF GoodPlan, Due, FirstSaves

(* Types of the stages that the handlers are made of. *)
LEMMA StageTypes ==
  /\ Apply \in StageType /\ TryApply \in StageType
  /\ \A step \in Step : /\ Save(step) \in StageType
                        /\ Pass(step) \in StageType /\ TryPass(step) \in StageType
BY DEF Apply, TryApply, Save, Pass, TryPass, Stage, StageType, Kinds

(* The plans of all requests are good: every handler saves before it       *)
(* passes.                                                                 *)
LEMMA RequestsGood ==
  ASSUME NEW S
  PROVE  /\ GoodPlan(<<>>, S) /\ GoodPlan(ConfigureWan, S) /\ GoodPlan(DefaultWan, S)
         /\ \A step \in Step \ NoSettings : GoodPlan(update_settings(step), S)
         /\ \A flow \in Workflows :
              GoodPlan(update_guide_on(flow), S) /\ GoodPlan(reset_guide(flow), S)
         /\ GoodPlan(update_guide_off, S)
<1> USE DEF FirstSaves, Firm, Saves, NoSettings
<1>1. GoodPlan(set_password, S)
  <2>1. set_password \in Seq(StageType)
    BY StageTypes DEF set_password, Step
  <2>2. FirstSaves(set_password) /\ Firm(set_password)
    BY DEF set_password, Save, Pass, TryPass, Apply, TryApply, Stage
  <2>3. QED
    BY <2>1, <2>2, FirstSavesGood
<1>2. GoodPlan(networks_update_settings, S)
  <2>1. networks_update_settings \in Seq(StageType)
    BY StageTypes DEF networks_update_settings, Step
  <2>2. FirstSaves(networks_update_settings) /\ Firm(networks_update_settings)
    BY DEF networks_update_settings, Save, Pass, TryPass, Apply, TryApply, Stage
  <2>3. QED
    BY <2>1, <2>2, FirstSavesGood
<1>3. GoodPlan(wan_update_settings, S)
  <2>1. wan_update_settings \in Seq(StageType)
    BY StageTypes DEF wan_update_settings, Step
  <2>2. FirstSaves(wan_update_settings) /\ Firm(wan_update_settings)
    BY DEF wan_update_settings, Save, Pass, TryPass, Apply, TryApply, Stage
  <2>3. QED
    BY <2>1, <2>2, FirstSavesGood
<1>4. GoodPlan(time_update_settings, S)
  <2>1. time_update_settings \in Seq(StageType)
    BY StageTypes DEF time_update_settings, Step
  <2>2. FirstSaves(time_update_settings) /\ Firm(time_update_settings)
    BY DEF time_update_settings, Save, Pass, TryPass, Apply, TryApply, Stage
  <2>3. QED
    BY <2>1, <2>2, FirstSavesGood
<1>5. GoodPlan(dns_update_settings, S)
  <2>1. dns_update_settings \in Seq(StageType)
    BY StageTypes DEF dns_update_settings, Step
  <2>2. FirstSaves(dns_update_settings) /\ Firm(dns_update_settings)
    BY DEF dns_update_settings, Save, Pass, TryPass, Apply, TryApply, Stage
  <2>3. QED
    BY <2>1, <2>2, FirstSavesGood
<1>6. GoodPlan(updater_update_settings, S)
  <2>1. updater_update_settings \in Seq(StageType)
    BY StageTypes DEF updater_update_settings, Step
  <2>2. FirstSaves(updater_update_settings) /\ Firm(updater_update_settings)
    BY DEF updater_update_settings, Save, Pass, TryPass, Apply, TryApply, Stage
  <2>3. QED
    BY <2>1, <2>2, FirstSavesGood
<1>7. GoodPlan(lan_update_settings, S)
  <2>1. lan_update_settings \in Seq(StageType)
    BY StageTypes DEF lan_update_settings, Step
  <2>2. FirstSaves(lan_update_settings) /\ Firm(lan_update_settings)
    BY DEF lan_update_settings, Save, Pass, TryPass, Apply, TryApply, Stage
  <2>3. QED
    BY <2>1, <2>2, FirstSavesGood
<1>8. GoodPlan(ConfigureWan, S)
  <2>1. ConfigureWan \in Seq(StageType)
    BY StageTypes DEF ConfigureWan, Step, Stage, StageType, Kinds
  <2>2. FirstSaves(ConfigureWan) /\ Firm(ConfigureWan)
    BY DEF ConfigureWan, Save, Pass, TryPass, Apply, TryApply, Stage
  <2>3. QED
    BY <2>1, <2>2, FirstSavesGood
<1>9. GoodPlan(DefaultWan, S)
  <2>1. DefaultWan \in Seq(StageType)
    BY StageTypes DEF DefaultWan, Step, Stage, StageType, Kinds
  <2>2. FirstSaves(DefaultWan) /\ Firm(DefaultWan)
    BY DEF DefaultWan, Save, Pass, TryPass, Apply, TryApply, Stage
  <2>3. QED
    BY <2>1, <2>2, FirstSavesGood
<1>10. GoodPlan(update_guide_off, S)
  <2>1. update_guide_off \in Seq(StageType)
    BY StageTypes DEF update_guide_off, Step, Stage, StageType, Kinds
  <2>2. FirstSaves(update_guide_off) /\ Firm(update_guide_off)
    BY DEF update_guide_off, Save, Pass, TryPass, Apply, TryApply, Stage
  <2>3. QED
    BY <2>1, <2>2, FirstSavesGood
<1>11. ASSUME NEW flow \in Workflows
      PROVE  GoodPlan(update_guide_on(flow), S)
  <2>1. update_guide_on(flow) \in Seq(StageType)
    BY StageTypes DEF update_guide_on, Step, Stage, StageType, Kinds
  <2>2. FirstSaves(update_guide_on(flow)) /\ Firm(update_guide_on(flow))
    BY DEF update_guide_on, Pass, Stage
  <2>3. QED
    BY <2>1, <2>2, FirstSavesGood
<1>12. ASSUME NEW flow \in Workflows
      PROVE  GoodPlan(reset_guide(flow), S)
  <2>1. reset_guide(flow) \in Seq(StageType)
    BY StageTypes DEF reset_guide, Step, Stage, StageType, Kinds
  <2>2. FirstSaves(reset_guide(flow)) /\ Firm(reset_guide(flow))
    BY DEF reset_guide, Pass, Stage
  <2>3. QED
    BY <2>1, <2>2, FirstSavesGood
<1>13. GoodPlan(<<>>, S)
  <2>1. <<>> \in Seq(StageType) /\ FirstSaves(<<>>) /\ Firm(<<>>)
    OBVIOUS
  <2>2. QED
    BY <2>1, FirstSavesGood
<1>14. ASSUME NEW step \in Step \ NoSettings
       PROVE  GoodPlan(update_settings(step), S)
  BY <1>1, <1>2, <1>3, <1>4, <1>5, <1>6, <1>7 DEF update_settings, Step
<1>15. QED
  BY <1>8, <1>9, <1>10, <1>11, <1>12, <1>13, <1>14

(* A worker that goes on to a good plan while nothing saved is lost keeps  *)
(* all plans good.                                                         *)
LEMMA PlansKept ==
  ASSUME PlansOK, NEW w \in Worker, NEW plan, GoodPlan(plan, saved'),
         todo' = [todo EXCEPT ![w] = plan], saved \subseteq saved'
  PROVE  PlansOK'
<1>1. plan \in Seq(StageType)
  BY DEF GoodPlan
<1>2. todo' \in [Worker -> Seq(StageType)]
  BY <1>1 DEF PlansOK
<1>3. ASSUME NEW v \in Worker
      PROVE  GoodPlan(todo'[v], saved')
  <2>1. CASE v = w
    BY <2>1 DEF PlansOK
  <2>2. CASE v # w
    <3>1. GoodPlan(todo[v], saved) /\ todo'[v] = todo[v]
      BY <2>2 DEF PlansOK
    <3>2. QED
      BY <3>1, GoodPlanGrows
  <2>3. QED
    BY <2>1, <2>2
<1>4. QED
  BY <1>2, <1>3 DEF PlansOK

(* The stage a worker performs and what follows it. *)
LEMMA StagePerformed ==
  ASSUME PlansOK, NEW w \in Worker, NEW stages, GoodPlan(stages, saved'), Then(w, stages),
         todo[w] # <<>>, saved \subseteq saved',
         \A step : Saves(Head(todo[w]), step) => step \in saved'
  PROVE  PlansOK'
<1>1. GoodPlan(todo[w], saved)
  BY DEF PlansOK
<1>2. GoodPlan(Tail(todo[w]), saved')
  BY <1>1, GoodPlanTail
<1>3. GoodPlan(stages \o Tail(todo[w]), saved')
  BY <1>2, GoodPlanThen
<1>4. todo' = [todo EXCEPT ![w] = stages \o Tail(todo[w])]
  BY DEF Then, PlansOK
<1>5. QED
  BY <1>3, <1>4, PlansKept

(* Every step keeps the invariant: one case per action. *)
LEMMA NextSaved == SavedInv /\ [Next]_vars => SavedInv'
<1> SUFFICES ASSUME SavedInv, [Next]_vars
             PROVE  SavedInv'
  OBVIOUS
<1>1. PlansOK /\ PassedWasSaved
  BY DEF SavedInv
<1>2. CASE UNCHANGED vars
  <2>1. UNCHANGED <<todo, saved, passed>>
    BY <1>2 DEF vars, history, wizard
  <2>2. QED
    BY <2>1, <1>1 DEF SavedInv, PlansOK, PassedWasSaved
<1>3. ASSUME NEW w \in Worker, NEW plan, \A S : GoodPlan(plan, S), Request(w, plan)
      PROVE  SavedInv'
  <2>1. UNCHANGED <<passed, saved>> /\ todo' = [todo EXCEPT ![w] = plan]
    BY <1>3 DEF Request, wizard, history
  <2>2. PlansOK'
    BY <1>1, <1>3, <2>1, PlansKept
  <2>3. QED
    BY <2>1, <2>2, <1>1 DEF SavedInv, PassedWasSaved
<1>4. ASSUME NEW w \in Worker, SaveSettings(w) \/ SaveDefaultWan(w)
      PROVE  SavedInv'
  <2>1. /\ todo[w] # <<>> /\ Then(w, <<>>) /\ saved \subseteq saved' /\ passed' = passed
        /\ \A step : Saves(Head(todo[w]), step) => step \in saved'
    BY <1>4 DEF SaveSettings, SaveDefaultWan, AtStage, Arg, Go, Saves, wizard
  <2>2. PlansOK'
    BY <2>1, <1>1, RequestsGood, StagePerformed
  <2>3. QED
    BY <2>1, <2>2, <1>1 DEF SavedInv, PassedWasSaved
<1>5. ASSUME NEW w \in Worker, update_passed(w)
      PROVE  SavedInv'
  <2>1. /\ todo[w] # <<>> /\ Then(w, <<>>) /\ saved' = saved
        /\ passed' = passed \cup {Head(todo[w]).arg} /\ Head(todo[w]).do = "pass"
        /\ \A step : ~Saves(Head(todo[w]), step)
    BY <1>5 DEF update_passed, AtStage, Arg, Go, Saves
  <2>2. PlansOK'
    BY <2>1, <1>1, RequestsGood, StagePerformed
  <2>3. Head(todo[w]).arg \in NoSettings \cup saved
    <3>1. todo[w] \in Seq(StageType) /\ Due(todo[w], saved)
      BY <1>1 DEF PlansOK, GoodPlan
    <3>2. 1 \in 1 .. Len(todo[w]) /\ Head(todo[w]) = todo[w][1] /\ 1 .. 1 - 1 = {}
      BY <3>1, <2>1
    <3>3. QED
      BY <3>1, <3>2, <2>1 DEF Due
  <2>4. QED
    BY <2>1, <2>2, <2>3, <1>1 DEF SavedInv, PassedWasSaved, NoSettings
<1>6. ASSUME NEW w \in Worker,
             \/ ApplySettings(w) \/ EnableGuide(w) \/ DisableGuide(w)
             \/ ResetGuide(w) \/ LookAtWan(w)
      PROVE  SavedInv'
  <2>1. PICK stages \in {<<>>, ConfigureWan, DefaultWan} :
          /\ todo[w] # <<>> /\ Then(w, stages) /\ saved' = saved
          /\ \A step : ~Saves(Head(todo[w]), step)
          /\ passed' \subseteq passed
    BY <1>6 DEF ApplySettings, EnableGuide, DisableGuide, ResetGuide, LookAtWan,
                AtStage, Go, Saves, wizard, history
  <2>2. PlansOK'
    BY <2>1, <1>1, RequestsGood, StagePerformed
  <2>3. QED
    BY <2>1, <2>2, <1>1 DEF SavedInv, PassedWasSaved
<1>7. ASSUME NEW w \in Worker, StageFails(w)
      PROVE  SavedInv'
  <2>1. /\ todo[w] # <<>> /\ UNCHANGED <<saved, passed>>
        /\ todo' = [todo EXCEPT ![w] = IF Head(todo[w]).best THEN Tail(todo[w]) ELSE <<>>]
    BY <1>7, <1>1 DEF StageFails, PlansOK, wizard
  <2>2. CASE Head(todo[w]).best
    <3>1. GoodPlan(todo[w], saved)
      BY <1>1 DEF PlansOK
    <3>2. Head(todo[w]) = todo[w][1] /\ 1 \in 1 .. Len(todo[w])
      BY <3>1, <2>1 DEF GoodPlan
    <3>3. \A step : ~Saves(Head(todo[w]), step)
      BY <3>1, <3>2, <2>2 DEF GoodPlan, Firm, Saves
    <3>4. GoodPlan(Tail(todo[w]), saved)
      BY <3>1, <3>3, <2>1, GoodPlanTail
    <3>5. PlansOK'
      BY <3>4, <2>1, <2>2, <1>1, PlansKept
    <3>6. QED
      BY <3>5, <2>1, <1>1 DEF SavedInv, PassedWasSaved
  <2>3. CASE ~Head(todo[w]).best
    <3>1. PlansOK'
      BY <2>1, <2>3, <1>1, RequestsGood, PlansKept
    <3>2. QED
      BY <3>1, <2>1, <1>1 DEF SavedInv, PassedWasSaved
  <2>4. QED
    BY <2>2, <2>3
<1>8. DOMAIN WORKFLOWS = Workflows
  BY DEF WORKFLOWS, Workflows
<1>9. \A step \in Steps : \A S : GoodPlan(update_settings(step), S)
  BY GuideAssumption, RequestsGood DEF NoSettings
<1>10. \A flow \in Available \cup NEW_WORKFLOW \cup {Basic} : \A S :
          GoodPlan(update_guide_on(flow), S) /\ GoodPlan(reset_guide(flow), S)
  BY <1>8, GuideAssumption, RequestsGood DEF NEW_WORKFLOW, Workflows
<1>11. CASE Idle
  BY <1>11, <1>2 DEF Idle
<1>12. QED
  BY <1>2, <1>3, <1>4, <1>5, <1>6, <1>7, <1>9, <1>10, <1>11, RequestsGood DEF Next

(* A step of the guide counts as passed only after its settings were       *)
(* saved, for any number of workers, however their requests interleave,    *)
(* fail half-way or meet a reset of the guide.                             *)
THEOREM GuidePassedWasSaved == Spec => []PassedWasSaved
<1>1. Init => SavedInv
  <2>1. \A S : GoodPlan(<<>>, S)
    BY RequestsGood
  <2>2. QED
    BY <2>1 DEF Init, SavedInv, PlansOK, PassedWasSaved
<1>2. SavedInv => PassedWasSaved
  BY DEF SavedInv
<1>3. QED
  BY <1>1, <1>2, NextSaved, PTL DEF Spec
=============================================================================
