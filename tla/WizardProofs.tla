---------------------------- MODULE WizardProofs ----------------------------
(***************************************************************************)
(* Theorems about the wizard's page script, for any disks, swap choices,    *)
(* configurations, behaviours of the user and number of unanswered calls.   *)
(*                                                                         *)
(* An answer takes a call out of the middle of `calls` and may append the   *)
(* next one of the same handler.  The first lemmas say once what that does  *)
(* to the positions of the others; the invariants then never look at        *)
(* sequences again.                                                        *)
(***************************************************************************)
EXTENDS Wizard, SequenceTheorems, TLAPS

CallRec == [kind   : CallKind,
            choice : [disk : Disks \union {NoDisk}, swap : Swaps],
            config : Configs \union {NoConfig},
            plan   : Plannable \union {NoPlan}]

-----------------------------------------------------------------------------
(* The calls in flight after a step.                                       *)

\* Where the call now at position j was before the call at i was answered.
Before(i, j) == IF j < i THEN j ELSE j + 1

\* Call i is gone, the others keep their order.
Drops(i) ==
  /\ calls' \in Seq(CallRec)
  /\ DOMAIN calls' = 1..(Len(calls) - 1)
  /\ Len(calls') = Len(calls) - 1
  /\ \A j \in DOMAIN calls' : /\ Before(i, j) \in DOMAIN calls \ {i}
                              /\ calls'[j] = calls[Before(i, j)]
  /\ \A k \in DOMAIN calls \ {i} : \E j \in DOMAIN calls' : k = Before(i, j)

\* Call i is gone and c is made after all the others.
Follows(i, c) ==
  /\ calls' \in Seq(CallRec)
  /\ DOMAIN calls' = 1..Len(calls)
  /\ Len(calls') = Len(calls)
  /\ calls'[Len(calls)] = c
  /\ \A j \in 1..(Len(calls) - 1) : /\ Before(i, j) \in DOMAIN calls \ {i}
                                    /\ calls'[j] = calls[Before(i, j)]
  /\ \A k \in DOMAIN calls \ {i} :
       \E j \in 1..(Len(calls) - 1) : k = Before(i, j)

\* c is made after all the others.
Adds(c) ==
  /\ calls' \in Seq(CallRec)
  /\ DOMAIN calls' = 1..(Len(calls) + 1)
  /\ Len(calls') = Len(calls) + 1
  /\ calls'[Len(calls) + 1] = c
  /\ \A j \in DOMAIN calls : calls'[j] = calls[j]

\* Positions are shifted, none is lost.
LEMMA BeforeProperties ==
  ASSUME NEW n \in Nat, NEW i \in 1..n
  PROVE  /\ \A j \in 1..(n - 1) : Before(i, j) \in (1..n) \ {i}
         /\ \A k \in (1..n) \ {i} : \E j \in 1..(n - 1) : k = Before(i, j)
<1>1. ASSUME NEW k \in (1..n) \ {i}
      PROVE  \E j \in 1..(n - 1) : k = Before(i, j)
  <2>1. CASE k < i
    <3> k \in 1..(n - 1) BY <2>1
    <3> WITNESS k \in 1..(n - 1)
    <3> QED BY <2>1 DEF Before
  <2>2. CASE k > i
    <3> k - 1 \in 1..(n - 1) BY <2>2
    <3> WITNESS k - 1 \in 1..(n - 1)
    <3> QED BY <2>2 DEF Before
  <2> QED BY <2>1, <2>2
<1> QED
  BY <1>1 DEF Before

\* Taking an element out of a sequence, position by position.
LEMMA RemoveAtProperties ==
  ASSUME NEW S, NEW s \in Seq(S), NEW i \in DOMAIN s
  PROVE  /\ RemoveAt(s, i) \in Seq(S)
         /\ Len(RemoveAt(s, i)) = Len(s) - 1
         /\ \A j \in 1..(Len(s) - 1) :
              RemoveAt(s, i)[j] = s[IF j < i THEN j ELSE j + 1]
<1> DEFINE front == SubSeq(s, 1, i - 1)
           back  == SubSeq(s, i + 1, Len(s))
<1>1. i \in 1..Len(s) /\ Len(s) \in Nat /\ \A k \in 1..Len(s) : s[k] \in S
  OBVIOUS
<1>2. /\ front \in Seq(S) /\ Len(front) = i - 1
      /\ \A j \in 1..(i - 1) : front[j] = s[j]
  <2>1. \A k \in 1..(i - 1) : s[k] \in S
    BY <1>1
  <2>2. /\ front \in Seq(S)
        /\ Len(front) = IF 1 <= i - 1 THEN (i - 1) - 1 + 1 ELSE 0
        /\ \A j \in 1..((i - 1) - 1 + 1) : front[j] = s[1 + j - 1]
    BY <1>1, <2>1, SubSeqProperties
  <2> QED BY <1>1, <2>2
<1>3. /\ back \in Seq(S) /\ Len(back) = Len(s) - i
      /\ \A j \in 1..(Len(s) - i) : back[j] = s[i + j]
  <2>1. \A k \in (i + 1)..Len(s) : s[k] \in S
    BY <1>1
  <2>2. /\ back \in Seq(S)
        /\ Len(back) = IF i + 1 <= Len(s) THEN Len(s) - (i + 1) + 1 ELSE 0
        /\ \A j \in 1..(Len(s) - (i + 1) + 1) : back[j] = s[(i + 1) + j - 1]
    BY <1>1, <2>1, SubSeqProperties
  <2> QED BY <1>1, <2>2
<1> HIDE DEF front, back
<1>4. RemoveAt(s, i) = front \o back
  BY DEF RemoveAt, front, back
<1>5. /\ front \o back \in Seq(S)
      /\ Len(front \o back) = Len(front) + Len(back)
      /\ \A j \in 1..(Len(front) + Len(back)) :
           (front \o back)[j] = IF j <= Len(front) THEN front[j]
                                ELSE back[j - Len(front)]
  BY <1>2, <1>3, ConcatProperties
<1>6. Len(front) + Len(back) = Len(s) - 1
  BY <1>1, <1>2, <1>3
<1>7. ASSUME NEW j \in 1..(Len(s) - 1)
      PROVE  RemoveAt(s, i)[j] = s[IF j < i THEN j ELSE j + 1]
  <2>1. CASE j < i
    <3>1. j \in 1..(i - 1) /\ j <= i - 1
      BY <1>1, <2>1
    <3>2. (front \o back)[j] = front[j]
      BY <1>2, <1>5, <1>6, <3>1
    <3> QED BY <1>2, <1>4, <2>1, <3>1, <3>2
  <2>2. CASE ~(j < i)
    <3>1. /\ j - (i - 1) \in 1..(Len(s) - i) /\ ~(j <= i - 1)
          /\ i + (j - (i - 1)) = j + 1
      BY <1>1, <2>2
    <3>2. (front \o back)[j] = back[j - (i - 1)]
      BY <1>2, <1>5, <1>6, <3>1
    <3>3. back[j - (i - 1)] = s[j + 1]
      BY <1>3, <3>1
    <3> QED BY <1>4, <2>2, <3>2, <3>3
  <2> QED BY <2>1, <2>2
<1> QED
  BY <1>4, <1>5, <1>6, <1>7

\* An answer that ends its handler.
LEMMA AnswerDrops ==
  ASSUME calls \in Seq(CallRec), NEW i \in DOMAIN calls,
         calls' = RemoveAt(calls, i)
  PROVE  Drops(i)
<1>1. /\ calls' \in Seq(CallRec)
      /\ Len(calls') = Len(calls) - 1
      /\ \A j \in 1..(Len(calls) - 1) :
           calls'[j] = calls[IF j < i THEN j ELSE j + 1]
  BY RemoveAtProperties
<1>2. /\ DOMAIN calls' = 1..(Len(calls) - 1)
      /\ DOMAIN calls = 1..Len(calls) /\ Len(calls) \in Nat
  BY <1>1
<1>3. \A j \in DOMAIN calls' : calls'[j] = calls[Before(i, j)]
  BY <1>1, <1>2 DEF Before
<1>4. /\ \A j \in 1..(Len(calls) - 1) : Before(i, j) \in (1..Len(calls)) \ {i}
      /\ \A k \in (1..Len(calls)) \ {i} :
           \E j \in 1..(Len(calls) - 1) : k = Before(i, j)
  <2> i \in 1..Len(calls) /\ Len(calls) \in Nat BY <1>2
  <2> QED BY BeforeProperties
<1> QED
  BY <1>1, <1>2, <1>3, <1>4 DEF Drops

\* A new handler stops at its first await.
LEMMA ClickAdds ==
  ASSUME calls \in Seq(CallRec), NEW c \in CallRec,
         calls' = Append(calls, c)
  PROVE  Adds(c)
<1>1. /\ calls' \in Seq(CallRec)
      /\ Len(calls') = Len(calls) + 1
      /\ \A j \in 1..Len(calls) : calls'[j] = calls[j]
      /\ calls'[Len(calls) + 1] = c
  OBVIOUS
<1> QED
  BY <1>1 DEF Adds

\* An answer after which the handler stops at its next await.
LEMMA AnswerFollows ==
  ASSUME calls \in Seq(CallRec), NEW i \in DOMAIN calls, NEW c \in CallRec,
         calls' = Append(RemoveAt(calls, i), c)
  PROVE  Follows(i, c)
<1> DEFINE rest == RemoveAt(calls, i)
<1>1. /\ rest \in Seq(CallRec)
      /\ Len(rest) = Len(calls) - 1
      /\ \A j \in 1..(Len(calls) - 1) :
           rest[j] = calls[IF j < i THEN j ELSE j + 1]
  BY RemoveAtProperties
<1>0. calls' = Append(rest, c)
  OBVIOUS
<1> HIDE DEF rest
<1>2. /\ calls' \in Seq(CallRec)
      /\ Len(calls') = Len(rest) + 1
      /\ \A j \in 1..Len(rest) : calls'[j] = rest[j]
      /\ calls'[Len(rest) + 1] = c
  BY <1>0, <1>1
<1>3. /\ DOMAIN calls = 1..Len(calls) /\ Len(calls) \in Nat
      /\ DOMAIN calls' = 1..Len(calls) /\ i \in 1..Len(calls)
      /\ Len(rest) + 1 = Len(calls)
  BY <1>1, <1>2
<1>4. \A j \in 1..(Len(calls) - 1) : calls'[j] = calls[Before(i, j)]
  BY <1>1, <1>2, <1>3 DEF Before
<1>5. /\ \A j \in 1..(Len(calls) - 1) : Before(i, j) \in (1..Len(calls)) \ {i}
      /\ \A k \in (1..Len(calls)) \ {i} :
           \E j \in 1..(Len(calls) - 1) : k = Before(i, j)
  <2> i \in 1..Len(calls) /\ Len(calls) \in Nat BY <1>3
  <2> QED BY BeforeProperties
<1> QED
  BY <1>2, <1>3, <1>4, <1>5 DEF Follows

-----------------------------------------------------------------------------
(* Types.                                                                  *)

\* TypeOK without the bound on the page, which needs more than types.
Typing ==
  /\ page \in Nat /\ Form <= page
  /\ snapshot \in BOOLEAN
  /\ disk \in Disks \union {NoDisk}
  /\ swap \in Swaps
  /\ setting \in Settings
  /\ config \in setting.forms
  /\ plan \in Plannable \union {NoPlan}
  /\ shown \in (Disks \union {NoDisk}) \X Swaps \X (Configs \union {NoConfig})
  /\ configValid \in BOOLEAN /\ confirmed \in BOOLEAN
  /\ canConfirm \in BOOLEAN /\ canInstall \in BOOLEAN
  /\ installing \in BOOLEAN /\ terminal \in BOOLEAN
  /\ calls \in Seq(CallRec) /\ Len(calls) <= MaxCalls
  /\ written \subseteq Disks

\* The calls a click makes.
LEMMA ClickedCalls ==
  ASSUME Typing
  PROVE  /\ Selected \in [disk : Disks \union {NoDisk}, swap : Swaps]
         /\ config \in Configs
         /\ \A kind \in CallKind, conf \in Configs \union {NoConfig},
               choice \in [disk : Disks \union {NoDisk}, swap : Swaps] :
              /\ Call(kind, choice, conf, NoPlan) \in CallRec
              /\ Call(kind, choice, conf, NoPlan).kind = kind
              /\ Call(kind, choice, conf, NoPlan).choice = choice
              /\ Call(kind, choice, conf, NoPlan).config = conf
<1>1. config \in Configs
  BY SettingsAssumption DEF Typing
<1>2. Selected \in [disk : Disks \union {NoDisk}, swap : Swaps]
  BY DEF Typing, Selected
<1> QED
  BY <1>1, <1>2 DEF CallRec, Call

\* The call a handler goes on with keeps what it took at the click.
LEMMA NextCalls ==
  ASSUME NEW c \in CallRec, NEW kind \in CallKind,
         NEW p \in Plannable \union {NoPlan}
  PROVE  /\ [c EXCEPT !.kind = kind] \in CallRec
         /\ [c EXCEPT !.kind = kind].kind = kind
         /\ [c EXCEPT !.kind = kind].choice = c.choice
         /\ [c EXCEPT !.kind = kind].config = c.config
         /\ [c EXCEPT !.kind = kind].plan = c.plan
         /\ [c EXCEPT !.kind = kind, !.plan = p] \in CallRec
         /\ [c EXCEPT !.kind = kind, !.plan = p].kind = kind
         /\ [c EXCEPT !.kind = kind, !.plan = p].choice = c.choice
         /\ [c EXCEPT !.kind = kind, !.plan = p].config = c.config
         /\ [c EXCEPT !.kind = kind, !.plan = p].plan = p
  BY DEF CallRec

\* What each handler does to the calls in flight.
SummaryCall  == Call("summary", Selected, config, NoPlan)
PrecheckCall == Call("precheck", Selected, config, NoPlan)
PlanCall     == Call("plan", Selected, NoConfig, NoPlan)

\* A new handler adds its first call.
LEMMA ClickShapes ==
  ASSUME Typing
  PROVE  /\ NextFromStorage => Adds(SummaryCall)
         /\ ClickInstall => Adds(PrecheckCall)
         /\ SelectDisk => Adds(PlanCall') 
         /\ SelectSwap => IF disk = NoDisk THEN UNCHANGED calls
                                           ELSE Adds(PlanCall')
<1> USE DEF Typing
<1>1. /\ \A kind \in CallKind : Call(kind, Selected, config, NoPlan) \in CallRec
      /\ Selected \in [disk : Disks \union {NoDisk}, swap : Swaps]
  BY ClickedCalls
<1>2. NextFromStorage => Adds(SummaryCall)
  BY <1>1, ClickAdds DEF NextFromStorage, SummaryCall, CallKind
<1>3. ClickInstall => Adds(PrecheckCall)
  BY <1>1, ClickAdds DEF ClickInstall, PrecheckCall, CallKind
<1>4. ASSUME NEW choice \in [disk : Disks \union {NoDisk}, swap : Swaps],
             RefreshPlan(choice), choice.disk # NoDisk
      PROVE  Adds(Call("plan", choice, NoConfig, NoPlan))
  <2>1. Call("plan", choice, NoConfig, NoPlan) \in CallRec
    BY ClickedCalls DEF CallKind
  <2> QED BY <1>4, <2>1, ClickAdds DEF RefreshPlan
<1>5. ASSUME SelectDisk PROVE Adds(PlanCall')
  <2>1. PICK d \in Disks : disk' = d /\ RefreshPlan([disk |-> d, swap |-> swap])
    BY <1>5 DEF SelectDisk
  <2>2. PlanCall' = Call("plan", [disk |-> d, swap |-> swap], NoConfig, NoPlan)
    BY <1>5, <2>1 DEF PlanCall, Selected, SelectDisk, Call
  <2> QED BY <1>4, <2>1, <2>2, NullAssumption
<1>6. ASSUME SelectSwap
      PROVE  IF disk = NoDisk THEN UNCHANGED calls ELSE Adds(PlanCall')
  <2>1. PICK s \in Swaps : swap' = s /\ RefreshPlan([disk |-> disk, swap |-> s])
    BY <1>6 DEF SelectSwap
  <2>2. PlanCall' = Call("plan", [disk |-> disk, swap |-> s], NoConfig, NoPlan)
    BY <1>6, <2>1 DEF PlanCall, Selected, SelectSwap, Call
  <2>3. CASE disk = NoDisk
    BY <2>1, <2>3 DEF RefreshPlan
  <2>4. CASE disk # NoDisk
    BY <1>4, <2>1, <2>2, <2>4
  <2> QED BY <2>3, <2>4
<1> QED
  BY <1>2, <1>3, <1>5, <1>6

ListenCall(i)  == [calls[i] EXCEPT !.kind = "listen"]
ExecuteCall(i) == [calls[i] EXCEPT !.kind = "execute", !.plan = plan]
FitCall(i)     == [calls[i] EXCEPT !.kind = "fit"]

\* An answer ends its handler or takes it to its next call.
LEMMA AnswerShapes ==
  ASSUME Typing, NEW i \in DOMAIN calls
  PROVE  /\ calls[i] \in CallRec
         /\ \/ DiscoverAnswer(i) \/ PlanAnswer(i) \/ SummaryAnswer(i)
            \/ FailedAnswer(i) \/ RejectedAnswer(i) \/ FitAnswer(i)
            => Drops(i)
         /\ PrecheckAnswer(i) =>
              IF calls[i].config \in ValidConfigs THEN Follows(i, ListenCall(i))
                                                  ELSE Drops(i)
         /\ ListenAnswer(i) => Follows(i, ExecuteCall(i))
         /\ CompletedAnswer(i) => Follows(i, FitCall(i))
<1>1. calls[i] \in CallRec /\ calls \in Seq(CallRec)
  BY DEF Typing
<1>2. /\ ListenCall(i) \in CallRec
      /\ ExecuteCall(i) \in CallRec
      /\ FitCall(i) \in CallRec
  <2>1. /\ {"listen", "execute", "fit"} \subseteq CallKind
        /\ plan \in Plannable \union {NoPlan}
    BY DEF Typing, CallKind
  <2> QED
    BY <1>1, <2>1, NextCalls DEF ListenCall, ExecuteCall, FitCall
<1>3. calls' = RemoveAt(calls, i) => Drops(i)
  BY <1>1, AnswerDrops
<1>4. \A c \in CallRec : calls' = Append(RemoveAt(calls, i), c) => Follows(i, c)
  BY <1>1, AnswerFollows
<1> QED
  BY <1>1, <1>2, <1>3, <1>4
  DEF DiscoverAnswer, PlanAnswer, SummaryAnswer, FailedAnswer, RejectedAnswer,
      FitAnswer, PrecheckAnswer, ListenAnswer, CompletedAnswer, ListenCall,
      ExecuteCall, FitCall

\* What each of these calls carries.
LEMMA CallFields ==
  ASSUME Typing, Typing'
  PROVE  /\ SummaryCall \in CallRec /\ SummaryCall.kind = "summary"
         /\ SummaryCall.config = config
         /\ PrecheckCall \in CallRec /\ PrecheckCall.kind = "precheck"
         /\ PrecheckCall.choice = Selected /\ PrecheckCall.config = config
         /\ PlanCall' \in CallRec /\ PlanCall'.kind = "plan"
         /\ PlanCall'.choice = Selected'
         /\ \A i \in DOMAIN calls :
              /\ ListenCall(i) \in CallRec /\ ListenCall(i).kind = "listen"
              /\ ListenCall(i).choice = calls[i].choice
              /\ ListenCall(i).config = calls[i].config
              /\ ExecuteCall(i) \in CallRec /\ ExecuteCall(i).kind = "execute"
              /\ ExecuteCall(i).choice = calls[i].choice
              /\ ExecuteCall(i).config = calls[i].config
              /\ ExecuteCall(i).plan = plan
              /\ FitCall(i) \in CallRec /\ FitCall(i).kind = "fit"
              /\ FitCall(i).choice = calls[i].choice
              /\ FitCall(i).config = calls[i].config
<1>1. /\ SummaryCall \in CallRec /\ SummaryCall.kind = "summary"
      /\ SummaryCall.config = config
      /\ PrecheckCall \in CallRec /\ PrecheckCall.kind = "precheck"
      /\ PrecheckCall.choice = Selected /\ PrecheckCall.config = config
  BY ClickedCalls DEF SummaryCall, PrecheckCall, CallKind
<1>2. PlanCall' \in CallRec /\ PlanCall'.kind = "plan" /\ PlanCall'.choice = Selected'
  <2>1. Selected' \in [disk : Disks \union {NoDisk}, swap : Swaps]
    BY DEF Typing, Selected
  <2> QED BY <2>1 DEF PlanCall, Call, CallRec, CallKind
<1>3. plan \in Plannable \union {NoPlan}
  BY DEF Typing
<1>4. ASSUME NEW i \in DOMAIN calls
      PROVE  /\ ListenCall(i) \in CallRec /\ ListenCall(i).kind = "listen"
             /\ ListenCall(i).choice = calls[i].choice
             /\ ListenCall(i).config = calls[i].config
             /\ ExecuteCall(i) \in CallRec /\ ExecuteCall(i).kind = "execute"
             /\ ExecuteCall(i).choice = calls[i].choice
             /\ ExecuteCall(i).config = calls[i].config
             /\ ExecuteCall(i).plan = plan
             /\ FitCall(i) \in CallRec /\ FitCall(i).kind = "fit"
             /\ FitCall(i).choice = calls[i].choice
             /\ FitCall(i).config = calls[i].config
  <2>1. calls[i] \in CallRec
    BY AnswerShapes
  <2>2. "listen" \in CallKind /\ "execute" \in CallKind /\ "fit" \in CallKind
    BY DEF CallKind
  <2>3. /\ ListenCall(i) \in CallRec /\ ListenCall(i).kind = "listen"
        /\ ListenCall(i).choice = calls[i].choice
        /\ ListenCall(i).config = calls[i].config
    BY <2>1, <2>2, NextCalls DEF ListenCall
  <2>4. /\ ExecuteCall(i) \in CallRec /\ ExecuteCall(i).kind = "execute"
        /\ ExecuteCall(i).choice = calls[i].choice
        /\ ExecuteCall(i).config = calls[i].config
        /\ ExecuteCall(i).plan = plan
    BY <1>3, <2>1, <2>2 DEF ExecuteCall, CallRec
  <2>5. /\ FitCall(i) \in CallRec /\ FitCall(i).kind = "fit"
        /\ FitCall(i).choice = calls[i].choice
        /\ FitCall(i).config = calls[i].config
    BY <2>1, <2>2, NextCalls DEF FitCall
  <2> QED BY <2>3, <2>4, <2>5
<1> QED
  BY <1>1, <1>2, <1>4

\* Every handler keeps the types.
LEMMA TypingStep == Typing /\ [Next]_vars => Typing'
<1> SUFFICES ASSUME Typing, [Next]_vars
             PROVE  Typing'
  OBVIOUS
<1> USE DEF Typing
<1>0. /\ Selected \in [disk : Disks \union {NoDisk}, swap : Swaps]
      /\ config \in Configs
      /\ Len(calls) \in Nat /\ MaxCalls \in Nat
  BY ClickedCalls, BoundAssumption
<1>1. ASSUME EditForm, UNCHANGED setting
      PROVE  Typing'
  <2>1. calls' \in Seq(CallRec) /\ Len(calls') <= MaxCalls
    BY <1>1
       DEF EditForm
  <2> QED BY <1>1, <2>1
         DEF EditForm, selection, summary, buttons, progress
<1>2. ASSUME NextFromForm, UNCHANGED setting
      PROVE  Typing'
  <2>1. calls' \in Seq(CallRec) /\ Len(calls') <= MaxCalls
    BY <1>2
       DEF NextFromForm
  <2> QED BY <1>2, <2>1
         DEF NextFromForm, selection, summary, buttons, progress, Show,
             UpdateInstallButtonState, Storage, Form
<1>3. ASSUME NextFromStorage, UNCHANGED setting
      PROVE  Typing'
  <2>1. calls' \in Seq(CallRec) /\ Len(calls') <= MaxCalls
    BY <1>3, ClickShapes, <1>0
       DEF Adds, User, NextFromStorage
  <2> QED BY <1>3, <2>1, <1>0
         DEF NextFromStorage, selection, summary, buttons, progress,
             RenderSummary
<1>4. ASSUME BackClick, UNCHANGED setting
      PROVE  Typing'
  <2>1. calls' \in Seq(CallRec) /\ Len(calls') <= MaxCalls
    BY <1>4
       DEF BackClick
  <2> QED BY <1>4, <2>1
         DEF BackClick, selection, summary, buttons, progress, Show,
             UpdateInstallButtonState, Form
<1>5. ASSUME StepClick, UNCHANGED setting
      PROVE  Typing'
  <2>1. calls' \in Seq(CallRec) /\ Len(calls') <= MaxCalls
    BY <1>5
       DEF StepClick
  <2> QED BY <1>5, <2>1
         DEF StepClick, selection, summary, buttons, progress, Show,
             UpdateInstallButtonState, Form, Storage, Summary
<1>6. ASSUME SelectDisk, UNCHANGED setting
      PROVE  Typing'
  <2>1. calls' \in Seq(CallRec) /\ Len(calls') <= MaxCalls
    BY <1>6, ClickShapes, <1>0
       DEF Adds, User, SelectDisk
  <2> QED BY <1>6, <2>1
         DEF SelectDisk, selection, summary, buttons, progress, RefreshPlan
<1>7. ASSUME SelectSwap, UNCHANGED setting
      PROVE  Typing'
  <2>1. calls' \in Seq(CallRec) /\ Len(calls') <= MaxCalls
    BY <1>7, ClickShapes, <1>0
       DEF Adds, User, SelectSwap
  <2> QED BY <1>7, <2>1
         DEF SelectSwap, selection, summary, buttons, progress, RefreshPlan
<1>8. ASSUME Tick, UNCHANGED setting
      PROVE  Typing'
  <2>1. calls' \in Seq(CallRec) /\ Len(calls') <= MaxCalls
    BY <1>8
       DEF Tick
  <2> QED BY <1>8, <2>1
         DEF Tick, selection, summary, buttons, progress,
             UpdateInstallButtonState
<1>9. ASSUME ClickInstall, UNCHANGED setting
      PROVE  Typing'
  <2>1. calls' \in Seq(CallRec) /\ Len(calls') <= MaxCalls
    BY <1>9, ClickShapes, <1>0
       DEF Adds, User, ClickInstall
  <2> QED BY <1>9, <2>1
         DEF ClickInstall, selection, summary, buttons, progress,
             UpdateInstallButtonState
<1>10. ASSUME NEW i \in DOMAIN calls, DiscoverAnswer(i), UNCHANGED setting
      PROVE  Typing'
  <2>1. calls' \in Seq(CallRec) /\ Len(calls') <= MaxCalls
    BY <1>10, AnswerShapes, <1>0
       DEF Drops, Follows
  <2> QED BY <1>10, <2>1
         DEF DiscoverAnswer, selection, summary, buttons, progress
<1>11. ASSUME NEW i \in DOMAIN calls, PlanAnswer(i), UNCHANGED setting
      PROVE  Typing'
  <2>1. calls' \in Seq(CallRec) /\ Len(calls') <= MaxCalls
    BY <1>11, AnswerShapes, <1>0
       DEF Drops, Follows
  <2> QED BY <1>11, <2>1, PlannableAssumption
         DEF PlanAnswer, selection, summary, buttons, progress
<1>12. ASSUME NEW i \in DOMAIN calls, SummaryAnswer(i), UNCHANGED setting
      PROVE  Typing'
  <2>1. calls' \in Seq(CallRec) /\ Len(calls') <= MaxCalls
    BY <1>12, AnswerShapes, <1>0
       DEF Drops, Follows
  <2> QED BY <1>12, <2>1
         DEF SummaryAnswer, selection, summary, buttons, progress, Form, Show,
             UpdateInstallButtonState
<1>13. ASSUME NEW i \in DOMAIN calls, PrecheckAnswer(i), UNCHANGED setting
      PROVE  Typing'
  <2>1. calls' \in Seq(CallRec) /\ Len(calls') <= MaxCalls
    BY <1>13, AnswerShapes, <1>0
       DEF Drops, Follows
  <2> QED BY <1>13, <2>1
         DEF PrecheckAnswer, selection, summary, buttons, progress, Finally,
             UpdateInstallButtonState
<1>14. ASSUME NEW i \in DOMAIN calls, ListenAnswer(i), UNCHANGED setting
      PROVE  Typing'
  <2>1. calls' \in Seq(CallRec) /\ Len(calls') <= MaxCalls
    BY <1>14, AnswerShapes, <1>0
       DEF Drops, Follows
  <2> QED BY <1>14, <2>1
         DEF ListenAnswer, selection, summary, buttons, progress
<1>15. ASSUME NEW i \in DOMAIN calls, CompletedAnswer(i), UNCHANGED setting
      PROVE  Typing'
  <2>1. calls' \in Seq(CallRec) /\ Len(calls') <= MaxCalls
    BY <1>15, AnswerShapes, <1>0
       DEF Drops, Follows
  <2> QED BY <1>15, <2>1
         DEF CompletedAnswer, selection, summary, buttons, progress
<1>16. ASSUME NEW i \in DOMAIN calls, FailedAnswer(i), UNCHANGED setting
      PROVE  Typing'
  <2>1. calls' \in Seq(CallRec) /\ Len(calls') <= MaxCalls
    BY <1>16, AnswerShapes, <1>0
       DEF Drops, Follows
  <2> QED BY <1>16, <2>1
         DEF FailedAnswer, selection, summary, buttons, progress, Finally,
             UpdateInstallButtonState
<1>17. ASSUME NEW i \in DOMAIN calls, RejectedAnswer(i), UNCHANGED setting
      PROVE  Typing'
  <2>1. calls' \in Seq(CallRec) /\ Len(calls') <= MaxCalls
    BY <1>17, AnswerShapes, <1>0
       DEF Drops, Follows
  <2> QED BY <1>17, <2>1
         DEF RejectedAnswer, selection, summary, buttons, progress, Finally,
             UpdateInstallButtonState
<1>18. ASSUME NEW i \in DOMAIN calls, FitAnswer(i), UNCHANGED setting
      PROVE  Typing'
  <2>1. calls' \in Seq(CallRec) /\ Len(calls') <= MaxCalls
    BY <1>18, AnswerShapes, <1>0
       DEF Drops, Follows
  <2> QED BY <1>18, <2>1
         DEF FitAnswer, selection, summary, buttons, progress, Finally,
             UpdateInstallButtonState
<1>19. ASSUME NEW i \in DOMAIN calls, ServiceWrites(i), UNCHANGED setting
      PROVE  Typing'
  <2>1. calls' \in Seq(CallRec) /\ Len(calls') <= MaxCalls
    BY <1>19
       DEF ServiceWrites
  <2> QED BY <1>19, <2>1, AnswerShapes, PlannableAssumption, NullAssumption
         DEF ServiceWrites, selection, summary, buttons, progress, CallRec,
             Choice
<1>20. CASE UNCHANGED vars
  BY <1>20 DEF vars
<1> QED
  BY <1>1, <1>2, <1>3, <1>4, <1>5, <1>6, <1>7, <1>8, <1>9, <1>10, <1>11,
     <1>12, <1>13, <1>14, <1>15, <1>16, <1>17, <1>18, <1>19, <1>20
     DEF Next, Clicks, Answers, Answer, Writes


-----------------------------------------------------------------------------
(* The run: the calls executeInstallation waits for.                       *)

\* The step is none of the run's.
SameRun ==
  /\ Runs' = {} <=> Runs = {}
  /\ (\A j, k \in Runs : j = k) => (\A j, k \in Runs' : j = k)
  /\ \A j \in Runs' : \E k \in Runs : calls'[j] = calls[k]

\* The run is at c now, which it has just called.
RunIsAt(c) ==
  \E m \in DOMAIN calls' : Runs' = {m} /\ calls'[m] = c

\* An answer to another handler leaves the run where it is.
LEMMA OtherAnswer ==
  ASSUME Typing, NEW i \in DOMAIN calls, Drops(i), i \notin Runs
  PROVE  SameRun
<1>1. \A j \in Runs' : /\ Before(i, j) \in Runs
                       /\ calls'[j] = calls[Before(i, j)]
  BY DEF Drops, Runs
<1>2. \A k \in Runs : \E j \in Runs' : k = Before(i, j)
  <2> TAKE k \in Runs
  <2>1. k \in DOMAIN calls \ {i}
    BY DEF Runs
  <2>2. PICK j \in DOMAIN calls' : k = Before(i, j)
    BY <2>1 DEF Drops
  <2>3. j \in Runs'
    BY <2>2 DEF Drops, Runs
  <2> QED BY <2>2, <2>3
<1>3. \A j, k \in Runs' : Before(i, j) = Before(i, k) => j = k
  <2> SUFFICES ASSUME NEW j \in Runs', NEW k \in Runs',
                      Before(i, j) = Before(i, k)
               PROVE  j = k
    OBVIOUS
  <2>1. j \in Int /\ k \in Int /\ i \in Int
    BY DEF Runs, Drops, Typing
  <2> QED BY <2>1 DEF Before
<1> QED
  BY <1>1, <1>2, <1>3 DEF SameRun

\* A click that makes a call of another handler leaves the run where it is.
LEMMA OtherClick ==
  ASSUME Typing, NEW c \in CallRec, Adds(c), c.kind \notin RunKind
  PROVE  SameRun
<1>1. DOMAIN calls = 1..Len(calls) /\ Len(calls) \in Nat
  BY DEF Typing
<1>2. Runs' = Runs
  BY <1>1 DEF Adds, Runs
<1>3. \A j \in Runs : calls'[j] = calls[j]
  BY DEF Adds, Runs
<1> QED
  BY <1>2, <1>3 DEF SameRun

\* Nor does a step without a call.
LEMMA NoCall ==
  ASSUME UNCHANGED calls
  PROVE  SameRun
BY DEF SameRun, Runs

\* The click that starts the run.
LEMMA RunStarts ==
  ASSUME Typing, NEW c \in CallRec, Adds(c), c.kind \in RunKind, Runs = {}
  PROVE  RunIsAt(c)
<1>1. DOMAIN calls = 1..Len(calls) /\ Len(calls) \in Nat
  BY DEF Typing
<1>2. Runs' = {Len(calls) + 1}
  BY <1>1 DEF Adds, Runs
<1> QED
  BY <1>1, <1>2 DEF RunIsAt, Adds

\* An answer that takes the run to its next call.
LEMMA RunGoesOn ==
  ASSUME Typing, \A j, k \in Runs : j = k, NEW i \in Runs,
         NEW c \in CallRec, Follows(i, c), c.kind \in RunKind
  PROVE  RunIsAt(c)
<1>1. /\ DOMAIN calls = 1..Len(calls) /\ Len(calls) \in Nat
      /\ i \in 1..Len(calls)
  BY DEF Typing, Runs
<1>2. \A j \in 1..(Len(calls) - 1) : j \notin Runs'
  BY <1>1 DEF Follows, Runs
<1>3. Len(calls) \in Runs'
  BY <1>1 DEF Follows, Runs
<1>4. Runs' = {Len(calls)}
  BY <1>1, <1>2, <1>3 DEF Follows, Runs
<1> QED
  BY <1>1, <1>4 DEF RunIsAt, Follows

\* An answer that ends the run.
LEMMA RunIsOver ==
  ASSUME Typing, \A j, k \in Runs : j = k, NEW i \in Runs, Drops(i)
  PROVE  Runs' = {}
BY DEF Drops, Runs

\* One run at a time, on the summary page or after it, with the choice that is
\* still selected; it sends only what precheck let through.
RunInv ==
  /\ OneRun
  /\ installing => Summary <= page
  /\ canInstall => page = Summary
  /\ \A i \in Runs : calls[i].choice = Selected
  /\ \A i \in Runs :
       calls[i].kind # "precheck" => calls[i].config \in ValidConfigs

\* The controls are recomputed together with the page.
LEMMA ButtonsOnSummary ==
  ASSUME UpdateInstallButtonState
  PROVE  canInstall' => page' = Summary
BY DEF UpdateInstallButtonState

\* What is left to show for a step that is none of the run's.
LEMMA SameRunKeeps ==
  ASSUME RunInv, SameRun, UNCHANGED <<installing, terminal, disk, swap>>,
         installing => Summary <= page',
         canInstall' => page' = Summary
  PROVE  RunInv'
<1>1. OneRun'
  BY DEF RunInv, OneRun, SameRun
<1>2. /\ \A i \in Runs' : calls'[i].choice = Selected'
      /\ \A i \in Runs' : calls'[i].kind # "precheck"
                            => calls'[i].config \in ValidConfigs
  BY DEF RunInv, SameRun, Selected
<1> QED
  BY <1>1, <1>2 DEF RunInv

\* And for a step that moves it to its next call.
LEMMA NextRunKeeps ==
  ASSUME NEW c \in CallRec, RunIsAt(c), c.kind \in RunKind, c.choice = Selected',
         c.kind # "precheck" => c.config \in ValidConfigs,
         installing', terminal' => c.kind = "fit",
         Summary <= page', canInstall' => page' = Summary
  PROVE  RunInv'
BY DEF RunInv, OneRun, RunIsAt

\* And for a step that ends it.
LEMMA NoRunKeeps ==
  ASSUME Runs' = {}, ~installing', canInstall' => page' = Summary
  PROVE  RunInv'
BY DEF RunInv, OneRun

\* No step starts a second run, loses the only one, or moves it off its page.
LEMMA RunStep == Typing /\ Typing' /\ RunInv /\ [Next]_vars => RunInv'
<1> SUFFICES ASSUME Typing, Typing', RunInv, [Next]_vars
             PROVE  RunInv'
  OBVIOUS
<1>0. /\ SummaryCall \in CallRec /\ SummaryCall.kind = "summary"
      /\ PrecheckCall \in CallRec /\ PrecheckCall.kind = "precheck"
      /\ PrecheckCall.choice = Selected
      /\ PlanCall' \in CallRec /\ PlanCall'.kind = "plan"
      /\ page \in Nat
      /\ \A j, k \in Runs : j = k
      /\ installing => Summary <= page
  BY CallFields DEF Typing, RunInv, OneRun
<1>c. \A i \in DOMAIN calls :
        /\ ListenCall(i) \in CallRec /\ ListenCall(i).kind = "listen"
        /\ ListenCall(i).choice = calls[i].choice
        /\ ListenCall(i).config = calls[i].config
        /\ ExecuteCall(i) \in CallRec /\ ExecuteCall(i).kind = "execute"
        /\ ExecuteCall(i).choice = calls[i].choice
        /\ ExecuteCall(i).config = calls[i].config
        /\ FitCall(i) \in CallRec /\ FitCall(i).kind = "fit"
        /\ FitCall(i).choice = calls[i].choice
        /\ FitCall(i).config = calls[i].config
  BY CallFields
<1>1. ASSUME EditForm, UNCHANGED setting
      PROVE  RunInv'
  <2>1. SameRun
    BY <1>1, NoCall
       DEF EditForm
  <2>2. /\ UNCHANGED <<installing, terminal, disk, swap>>
        /\ installing => Summary <= page'
    BY <1>1, <1>0 DEF EditForm, selection, progress, RunInv
  <2>3. canInstall' => page' = Summary
    BY <1>1 DEF EditForm, RunInv, buttons
  <2> QED BY <2>1, <2>2, <2>3, SameRunKeeps
<1>2. ASSUME NextFromForm, UNCHANGED setting
      PROVE  RunInv'
  <2>1. SameRun
    BY <1>2, NoCall
       DEF NextFromForm
  <2>2. /\ UNCHANGED <<installing, terminal, disk, swap>>
        /\ installing => Summary <= page'
    BY <1>2, <1>0 DEF NextFromForm, Unlocked, Show, selection, progress, Form, Storage, Summary
  <2>3. canInstall' => page' = Summary
    BY <1>2, ButtonsOnSummary DEF NextFromForm, Show
  <2> QED BY <2>1, <2>2, <2>3, SameRunKeeps
<1>3. ASSUME NextFromStorage, UNCHANGED setting
      PROVE  RunInv'
  <2>1. SameRun
    BY <1>3, <1>0, ClickShapes, OtherClick
       DEF RunKind
  <2>2. /\ UNCHANGED <<installing, terminal, disk, swap>>
        /\ installing => Summary <= page'
    BY <1>3, <1>0 DEF NextFromStorage, selection, progress, RunInv
  <2>3. canInstall' => page' = Summary
    BY <1>3 DEF NextFromStorage, RunInv, buttons
  <2> QED BY <2>1, <2>2, <2>3, SameRunKeeps
<1>4. ASSUME BackClick, UNCHANGED setting
      PROVE  RunInv'
  <2>1. SameRun
    BY <1>4, NoCall
       DEF BackClick
  <2>2. /\ UNCHANGED <<installing, terminal, disk, swap>>
        /\ installing => Summary <= page'
    BY <1>4, <1>0 DEF BackClick, Unlocked, Show, selection, progress, Form, Storage, Summary
  <2>3. canInstall' => page' = Summary
    BY <1>4, ButtonsOnSummary DEF BackClick, Show
  <2> QED BY <2>1, <2>2, <2>3, SameRunKeeps
<1>5. ASSUME StepClick, UNCHANGED setting
      PROVE  RunInv'
  <2>1. SameRun
    BY <1>5, NoCall
       DEF StepClick
  <2>2. /\ UNCHANGED <<installing, terminal, disk, swap>>
        /\ installing => Summary <= page'
    BY <1>5, <1>0 DEF StepClick, Unlocked, Show, selection, progress, Form, Storage, Summary
  <2>3. canInstall' => page' = Summary
    BY <1>5, ButtonsOnSummary DEF StepClick, Show
  <2> QED BY <2>1, <2>2, <2>3, SameRunKeeps
<1>6. ASSUME SelectDisk, UNCHANGED setting
      PROVE  RunInv'
  <2>1. Runs = {} /\ ~installing /\ ~canInstall
    BY <1>6 DEF SelectDisk, Form, Storage, Summary, RunInv, OneRun
  <2>2. SameRun
    BY <1>6, <1>0, ClickShapes, OtherClick DEF RunKind
  <2>3. ~installing' /\ ~canInstall' /\ Runs' = {}
    BY <1>6, <2>1, <2>2 DEF SelectDisk, buttons, progress, SameRun
  <2> QED BY <2>3, NoRunKeeps
<1>7. ASSUME SelectSwap, UNCHANGED setting
      PROVE  RunInv'
  <2>1. Runs = {} /\ ~installing /\ ~canInstall
    BY <1>7 DEF SelectSwap, Form, Storage, Summary, RunInv, OneRun
  <2>2. SameRun
    <3>1. CASE disk = NoDisk
      BY <1>7, <3>1, ClickShapes, NoCall
    <3>2. CASE disk # NoDisk
      BY <1>7, <1>0, <3>2, ClickShapes, OtherClick DEF RunKind
    <3> QED BY <3>1, <3>2
  <2>3. ~installing' /\ ~canInstall' /\ Runs' = {}
    BY <1>7, <2>1, <2>2 DEF SelectSwap, buttons, progress, SameRun
  <2> QED BY <2>3, NoRunKeeps
<1>8. ASSUME Tick, UNCHANGED setting
      PROVE  RunInv'
  <2>1. SameRun
    BY <1>8, NoCall
       DEF Tick
  <2>2. /\ UNCHANGED <<installing, terminal, disk, swap>>
        /\ installing => Summary <= page'
    BY <1>8, <1>0 DEF Tick, selection, progress, RunInv
  <2>3. canInstall' => page' = Summary
    BY <1>8, ButtonsOnSummary DEF Tick, Show
  <2> QED BY <2>1, <2>2, <2>3, SameRunKeeps
<1>9. ASSUME ClickInstall, UNCHANGED setting
      PROVE  RunInv'
  <2>1. Runs = {} /\ page = Summary /\ ~terminal
    BY <1>9 DEF ClickInstall, MayInstall, Unlocked, RunInv, OneRun
  <2>2. RunIsAt(PrecheckCall)
    BY <1>9, <1>0, <2>1, ClickShapes, RunStarts DEF RunKind
  <2>3. /\ installing' /\ ~terminal' /\ page' = Summary /\ Selected' = Selected
    BY <1>9, <2>1 DEF ClickInstall, selection, Selected
  <2>4. Summary <= page'
    BY <2>3 DEF Summary
  <2> QED BY <1>0, <2>2, <2>3, <2>4, NextRunKeeps DEF RunKind
<1>10. ASSUME NEW i \in DOMAIN calls, DiscoverAnswer(i), UNCHANGED setting
      PROVE  RunInv'
  <2>1. SameRun
    BY <1>10, AnswerShapes, OtherAnswer
       DEF DiscoverAnswer, Answerable, Runs, RunKind
  <2>2. /\ UNCHANGED <<installing, terminal, disk, swap>>
        /\ installing => Summary <= page'
    BY <1>10, <1>0 DEF DiscoverAnswer, selection, progress, RunInv
  <2>3. canInstall' => page' = Summary
    BY <1>10 DEF DiscoverAnswer, RunInv, buttons
  <2> QED BY <2>1, <2>2, <2>3, SameRunKeeps
<1>11. ASSUME NEW i \in DOMAIN calls, PlanAnswer(i), UNCHANGED setting
      PROVE  RunInv'
  <2>1. SameRun
    BY <1>11, AnswerShapes, OtherAnswer
       DEF PlanAnswer, Answerable, Runs, RunKind
  <2>2. /\ UNCHANGED <<installing, terminal, disk, swap>>
        /\ installing => Summary <= page'
    BY <1>11, <1>0 DEF PlanAnswer, selection, progress, RunInv
  <2>3. canInstall' => page' = Summary
    BY <1>11 DEF PlanAnswer, RunInv, buttons
  <2> QED BY <2>1, <2>2, <2>3, SameRunKeeps
<1>12. ASSUME NEW i \in DOMAIN calls, SummaryAnswer(i), UNCHANGED setting
      PROVE  RunInv'
  <2>1. SameRun
    BY <1>12, AnswerShapes, OtherAnswer
       DEF SummaryAnswer, Answerable, Runs, RunKind
  <2>2. /\ UNCHANGED <<installing, terminal, disk, swap>>
        /\ installing => Summary <= page'
    BY <1>12, <1>0 DEF SummaryAnswer, selection, progress, RunInv, Show, Summary
  <2>3. canInstall' => page' = Summary
    BY <1>12, ButtonsOnSummary DEF SummaryAnswer, Show
  <2> QED BY <2>1, <2>2, <2>3, SameRunKeeps
<1>13. ASSUME NEW i \in DOMAIN calls, PrecheckAnswer(i), UNCHANGED setting
      PROVE  RunInv'
  <2>1. i \in Runs /\ calls[i].kind = "precheck"
    BY <1>13 DEF PrecheckAnswer, Answerable, Runs, RunKind
  <2>2. CASE calls[i].config \in ValidConfigs
    <3> DEFINE c == ListenCall(i)
    <3>1. /\ c \in CallRec /\ c.kind = "listen"
          /\ c.choice = Selected /\ c.config \in ValidConfigs
      <4>1. i \in DOMAIN calls /\ calls[i].choice = Selected
        BY <2>1 DEF Runs, RunInv
      <4> QED BY <1>c, <2>2, <4>1
    <3> HIDE DEF c
    <3>2. Follows(i, c)
      BY <1>13, <2>2, AnswerShapes DEF c
    <3>3. RunIsAt(c)
      BY <1>0, <2>1, <3>1, <3>2, RunGoesOn DEF RunKind
    <3>4. UNCHANGED <<installing, terminal, page, canInstall, disk, swap>>
      BY <1>13, <2>2 DEF PrecheckAnswer, selection, buttons, progress
    <3>5. installing /\ ~terminal
      BY <2>1 DEF RunInv, OneRun
    <3> QED BY <3>1, <3>3, <3>4, <3>5, NextRunKeeps DEF RunInv, RunKind, Selected
  <2>3. CASE calls[i].config \notin ValidConfigs
    <3>1. Runs' = {}
      BY <1>13, <1>0, <2>1, <2>3, AnswerShapes, RunIsOver
    <3>2. ~installing' /\ UpdateInstallButtonState
      BY <1>13, <2>3 DEF PrecheckAnswer, Finally
    <3> QED BY <3>1, <3>2, NoRunKeeps, ButtonsOnSummary
  <2> QED BY <2>2, <2>3
<1>14. ASSUME NEW i \in DOMAIN calls, ListenAnswer(i), UNCHANGED setting
      PROVE  RunInv'
  <2> DEFINE c == ExecuteCall(i)
  <2>1. i \in Runs /\ calls[i].kind = "listen"
    BY <1>14 DEF ListenAnswer, Answerable, Runs, RunKind
  <2>2. /\ c \in CallRec /\ c.kind = "execute"
        /\ c.choice = Selected /\ c.config \in ValidConfigs
    <3>1. i \in DOMAIN calls
      BY <2>1 DEF Runs
    <3>2. calls[i].choice = Selected /\ calls[i].config \in ValidConfigs
      BY <2>1 DEF RunInv
    <3> QED BY <1>c, <3>1, <3>2
  <2> HIDE DEF c
  <2>3. Follows(i, c)
    BY <1>14, AnswerShapes DEF c
  <2>4. RunIsAt(c)
    BY <1>0, <2>1, <2>2, <2>3, RunGoesOn DEF RunKind
  <2>5. UNCHANGED <<installing, terminal, page, canInstall, disk, swap>>
    BY <1>14 DEF ListenAnswer, selection, buttons, progress
  <2>6. installing /\ ~terminal
    BY <2>1 DEF RunInv, OneRun
  <2> QED BY <2>2, <2>4, <2>5, <2>6, NextRunKeeps DEF RunInv, RunKind, Selected
<1>15. ASSUME NEW i \in DOMAIN calls, CompletedAnswer(i), UNCHANGED setting
      PROVE  RunInv'
  <2> DEFINE c == FitCall(i)
  <2>1. i \in Runs /\ calls[i].kind = "execute"
    BY <1>15 DEF CompletedAnswer, Answerable, Runs, RunKind
  <2>2. /\ c \in CallRec /\ c.kind = "fit"
        /\ c.choice = Selected /\ c.config \in ValidConfigs
    <3>1. i \in DOMAIN calls
      BY <2>1 DEF Runs
    <3>2. calls[i].choice = Selected /\ calls[i].config \in ValidConfigs
      BY <2>1 DEF RunInv
    <3> QED BY <1>c, <3>1, <3>2
  <2> HIDE DEF c
  <2>3. Follows(i, c)
    BY <1>15, AnswerShapes DEF c
  <2>4. RunIsAt(c)
    BY <1>0, <2>1, <2>2, <2>3, RunGoesOn DEF RunKind
  <2>5. UNCHANGED <<installing, page, canInstall, disk, swap>>
    BY <1>15 DEF CompletedAnswer, selection, buttons, progress
  <2>6. installing
    BY <2>1 DEF RunInv, OneRun
  <2> QED BY <2>2, <2>4, <2>5, <2>6, NextRunKeeps DEF RunInv, RunKind, Selected
<1>16. ASSUME NEW i \in DOMAIN calls, FailedAnswer(i), UNCHANGED setting
      PROVE  RunInv'
  <2>1. i \in Runs
    BY <1>16 DEF FailedAnswer, Answerable, Runs, RunKind
  <2>2. Runs' = {}
    BY <1>16, <1>0, <2>1, AnswerShapes, RunIsOver
  <2>3. ~installing' /\ UpdateInstallButtonState
    BY <1>16 DEF FailedAnswer, Finally
  <2> QED BY <2>2, <2>3, NoRunKeeps, ButtonsOnSummary
<1>17. ASSUME NEW i \in DOMAIN calls, RejectedAnswer(i), UNCHANGED setting
      PROVE  RunInv'
  <2>1. i \in Runs
    BY <1>17 DEF RejectedAnswer, Answerable, Runs, RunKind
  <2>2. Runs' = {}
    BY <1>17, <1>0, <2>1, AnswerShapes, RunIsOver
  <2>3. ~installing' /\ UpdateInstallButtonState
    BY <1>17 DEF RejectedAnswer, Finally
  <2> QED BY <2>2, <2>3, NoRunKeeps, ButtonsOnSummary
<1>18. ASSUME NEW i \in DOMAIN calls, FitAnswer(i), UNCHANGED setting
      PROVE  RunInv'
  <2>1. i \in Runs
    BY <1>18 DEF FitAnswer, Answerable, Runs, RunKind
  <2>2. Runs' = {}
    BY <1>18, <1>0, <2>1, AnswerShapes, RunIsOver
  <2>3. ~installing' /\ UpdateInstallButtonState
    BY <1>18 DEF FitAnswer, Finally
  <2> QED BY <2>2, <2>3, NoRunKeeps, ButtonsOnSummary
<1>19. ASSUME NEW i \in DOMAIN calls, ServiceWrites(i), UNCHANGED setting
      PROVE  RunInv'
  <2>1. SameRun
    BY <1>19, NoCall
       DEF ServiceWrites
  <2>2. /\ UNCHANGED <<installing, terminal, disk, swap>>
        /\ installing => Summary <= page'
    BY <1>19, <1>0 DEF ServiceWrites, selection, progress, RunInv
  <2>3. canInstall' => page' = Summary
    BY <1>19 DEF ServiceWrites, RunInv, buttons
  <2> QED BY <2>1, <2>2, <2>3, SameRunKeeps
<1>20. CASE UNCHANGED vars
  <2>1. SameRun
    BY <1>20, NoCall DEF vars
  <2> QED BY <1>20, <2>1, <1>0, SameRunKeeps DEF vars, RunInv
<1> QED
  BY <1>1, <1>2, <1>3, <1>4, <1>5, <1>6, <1>7, <1>8, <1>9, <1>10, <1>11,
     <1>12, <1>13, <1>14, <1>15, <1>16, <1>17, <1>18, <1>19, <1>20
     DEF Next, Clicks, Answers, Answer, Writes


-----------------------------------------------------------------------------
(* How far the page can run ahead: every page after the storage page was    *)
(* paid for with a call that has been answered.                            *)

Budget ==
  /\ page + Len(calls) <= Storage + MaxCalls + 1
  /\ ~installing => page + Len(calls) <= Storage + MaxCalls

\* A page further costs an answer.
LEMMA BudgetStep == Typing /\ Typing' /\ Budget /\ [Next]_vars => Budget'
<1> SUFFICES ASSUME Typing, Typing', Budget, [Next]_vars
             PROVE  Budget'
  OBVIOUS
<1> USE DEF Budget, Storage
<1>0. /\ page \in Nat /\ Len(calls) \in Nat /\ MaxCalls \in Nat
      /\ Len(calls) <= MaxCalls
      /\ Len(calls') \in Nat /\ Len(calls') <= MaxCalls
      /\ installing \in BOOLEAN /\ installing' \in BOOLEAN
  BY BoundAssumption DEF Typing
<1>1. ASSUME EditForm, UNCHANGED setting
      PROVE  Budget'
  BY <1>1 DEF EditForm, progress
<1>2. ASSUME NextFromForm, UNCHANGED setting
      PROVE  Budget'
  <2>1. page' = Storage /\ Len(calls') <= MaxCalls
    BY <1>2, <1>0 DEF NextFromForm, Show
  <2> QED BY <1>0, <2>1
<1>3. ASSUME NextFromStorage, UNCHANGED setting
      PROVE  Budget'
  <2>1. page = Storage /\ page' = page /\ Len(calls') <= MaxCalls
    BY <1>3, <1>0 DEF NextFromStorage
  <2> QED BY <1>0, <2>1
<1>4. ASSUME BackClick, UNCHANGED setting
      PROVE  Budget'
  <2>1. page' <= page /\ page' \in Nat /\ calls' = calls /\ installing' = installing
    BY <1>4, <1>0 DEF BackClick, Show, progress, Form, Storage, Summary
  <2> QED BY <1>0, <2>1
<1>5. ASSUME StepClick, UNCHANGED setting
      PROVE  Budget'
  <2>1. page' <= page /\ page' \in Nat /\ calls' = calls /\ installing' = installing
    BY <1>5, <1>0 DEF StepClick, Show, progress, Form, Storage, Summary
  <2> QED BY <1>0, <2>1
<1>6. ASSUME SelectDisk, UNCHANGED setting
      PROVE  Budget'
  <2>1. page = Storage /\ page' = page /\ Len(calls') <= MaxCalls
    BY <1>6, <1>0 DEF SelectDisk
  <2> QED BY <1>0, <2>1
<1>7. ASSUME SelectSwap, UNCHANGED setting
      PROVE  Budget'
  <2>1. page = Storage /\ page' = page /\ Len(calls') <= MaxCalls
    BY <1>7, <1>0 DEF SelectSwap
  <2> QED BY <1>0, <2>1
<1>8. ASSUME Tick, UNCHANGED setting
      PROVE  Budget'
  BY <1>8 DEF Tick, progress
<1>9. ASSUME ClickInstall, UNCHANGED setting
      PROVE  Budget'
  <2>1. page' = page /\ ~installing /\ installing' = TRUE
    BY <1>9 DEF ClickInstall, MayInstall, Unlocked
  <2>2. Len(calls') = Len(calls) + 1
    BY <1>9, ClickShapes DEF Adds
  <2> QED BY <1>0, <2>1, <2>2
<1>10. ASSUME NEW i \in DOMAIN calls, DiscoverAnswer(i), UNCHANGED setting
      PROVE  Budget'
  <2>1. page' = page /\ installing' = installing
    BY <1>10 DEF DiscoverAnswer, progress
  <2>2. Len(calls') = Len(calls) - 1
    BY <1>10, AnswerShapes DEF Drops
  <2> QED BY <1>0, <2>1, <2>2
<1>11. ASSUME NEW i \in DOMAIN calls, PlanAnswer(i), UNCHANGED setting
      PROVE  Budget'
  <2>1. page' = page /\ installing' = installing
    BY <1>11 DEF PlanAnswer, progress
  <2>2. Len(calls') = Len(calls) - 1
    BY <1>11, AnswerShapes DEF Drops
  <2> QED BY <1>0, <2>1, <2>2
<1>12. ASSUME NEW i \in DOMAIN calls, SummaryAnswer(i), UNCHANGED setting
      PROVE  Budget'
  <2>1. page' = page + 1 /\ installing' = installing
    BY <1>12 DEF SummaryAnswer, Show, progress
  <2>2. Len(calls') = Len(calls) - 1
    BY <1>12, AnswerShapes DEF Drops
  <2> QED BY <1>0, <2>1, <2>2
<1>13. ASSUME NEW i \in DOMAIN calls, PrecheckAnswer(i), UNCHANGED setting
      PROVE  Budget'
  <2>1. CASE calls[i].config \in ValidConfigs
    <3>1. page' = page /\ installing' = installing
      BY <1>13, <2>1 DEF PrecheckAnswer, progress
    <3>2. Len(calls') = Len(calls)
      BY <1>13, <2>1, AnswerShapes DEF Follows
    <3> QED BY <1>0, <3>1, <3>2
  <2>2. CASE calls[i].config \notin ValidConfigs
    <3>1. page' = page
      BY <1>13, <2>2 DEF PrecheckAnswer, Finally
    <3>2. Len(calls') = Len(calls) - 1
      BY <1>13, <2>2, AnswerShapes DEF Drops
    <3> QED BY <1>0, <3>1, <3>2
  <2> QED BY <2>1, <2>2
<1>14. ASSUME NEW i \in DOMAIN calls, ListenAnswer(i), UNCHANGED setting
      PROVE  Budget'
  <2>1. page' = page /\ installing' = installing
    BY <1>14 DEF ListenAnswer, progress
  <2>2. Len(calls') = Len(calls)
    BY <1>14, AnswerShapes DEF Follows
  <2> QED BY <1>0, <2>1, <2>2
<1>15. ASSUME NEW i \in DOMAIN calls, CompletedAnswer(i), UNCHANGED setting
      PROVE  Budget'
  <2>1. page' = page /\ installing' = installing
    BY <1>15 DEF CompletedAnswer, progress
  <2>2. Len(calls') = Len(calls)
    BY <1>15, AnswerShapes DEF Follows
  <2> QED BY <1>0, <2>1, <2>2
<1>16. ASSUME NEW i \in DOMAIN calls, FailedAnswer(i), UNCHANGED setting
      PROVE  Budget'
  <2>1. page' = page
    BY <1>16 DEF FailedAnswer, Finally
  <2>2. Len(calls') = Len(calls) - 1
    BY <1>16, AnswerShapes DEF Drops
  <2> QED BY <1>0, <2>1, <2>2
<1>17. ASSUME NEW i \in DOMAIN calls, RejectedAnswer(i), UNCHANGED setting
      PROVE  Budget'
  <2>1. page' = page
    BY <1>17 DEF RejectedAnswer, Finally
  <2>2. Len(calls') = Len(calls) - 1
    BY <1>17, AnswerShapes DEF Drops
  <2> QED BY <1>0, <2>1, <2>2
<1>18. ASSUME NEW i \in DOMAIN calls, FitAnswer(i), UNCHANGED setting
      PROVE  Budget'
  <2>1. page' = page
    BY <1>18 DEF FitAnswer, Finally
  <2>2. Len(calls') = Len(calls) - 1
    BY <1>18, AnswerShapes DEF Drops
  <2> QED BY <1>0, <2>1, <2>2
<1>19. ASSUME NEW i \in DOMAIN calls, ServiceWrites(i), UNCHANGED setting
      PROVE  Budget'
  BY <1>19 DEF ServiceWrites, progress
<1>20. CASE UNCHANGED vars
  BY <1>20 DEF vars
<1> QED
  BY <1>1, <1>2, <1>3, <1>4, <1>5, <1>6, <1>7, <1>8, <1>9, <1>10, <1>11,
     <1>12, <1>13, <1>14, <1>15, <1>16, <1>17, <1>18, <1>19, <1>20
     DEF Next, Clicks, Answers, Answer, Writes


-----------------------------------------------------------------------------
(* The plan that is on its way to the page.                                *)

Planning == {i \in DOMAIN calls : calls[i].kind = "plan"}

\* As long as answers keep their order: the latest question is the one about
\* the selection, and without a question the plan is the plan of the selection;
\* a run overtakes no question.
PlanInv ==
  setting.inOrder =>
    /\ disk = NoDisk => Planning = {}
    /\ \A i \in Planning :
         (\A j \in Planning : j <= i) => calls[i].choice = Selected
    /\ Planning = {} => plan \in {Selected, NoPlan}
    /\ \A i \in Runs :
         calls[i].kind = "precheck" => \A j \in Planning : j < i
    /\ \A i \in Runs : calls[i].kind # "precheck" => Planning = {}
    /\ \A i \in Runs :
         calls[i].kind = "execute" => calls[i].plan \in {calls[i].choice, NoPlan}

\* The step is about no question and moves no run.
SameQuestions ==
  /\ Planning' = {} <=> Planning = {}
  /\ \A j \in Planning' :
       (\A l \in Planning' : l <= j) =>
         \E k \in Planning : calls'[j] = calls[k] /\ \A l \in Planning : l <= k
  /\ \A m \in Runs' :
       \E n \in Runs : /\ calls'[m] = calls[n]
                       /\ (\A j \in Planning : j < n) => \A j \in Planning' : j < m

\* Such a step keeps what is said of the plan.
LEMMA SameQuestionsKeeps ==
  ASSUME PlanInv, SameQuestions, UNCHANGED <<disk, swap, plan, setting>>
  PROVE  PlanInv'
<1> SUFFICES ASSUME setting.inOrder PROVE PlanInv'
  BY DEF PlanInv
<1>1. Selected' = Selected
  BY DEF Selected
<1> QED
  BY <1>1 DEF PlanInv, SameQuestions

\* An answer to neither a question nor the run.
LEMMA OtherAnswerAsksNothing ==
  ASSUME Typing, NEW i \in DOMAIN calls, Drops(i), i \notin Runs, i \notin Planning
  PROVE  SameQuestions
<1>1. \A j \in DOMAIN calls', k \in DOMAIN calls' :
        /\ Before(i, j) < Before(i, k) => j < k
        /\ j <= k => Before(i, j) <= Before(i, k)
  BY DEF Before, Drops, Typing
<1>2. /\ Runs' \subseteq DOMAIN calls' /\ Planning' \subseteq DOMAIN calls'
      /\ \A j \in Runs' : Before(i, j) \in Runs /\ calls'[j] = calls[Before(i, j)]
      /\ \A j \in Planning' : /\ Before(i, j) \in Planning
                              /\ calls'[j] = calls[Before(i, j)]
  BY DEF Drops, Runs, Planning
<1>3. \A k \in Planning : \E j \in Planning' : k = Before(i, j)
  <2> TAKE k \in Planning
  <2>1. k \in DOMAIN calls \ {i}
    BY DEF Planning
  <2>2. PICK j \in DOMAIN calls' : k = Before(i, j)
    BY <2>1 DEF Drops
  <2>3. j \in Planning'
    BY <2>2 DEF Drops, Planning
  <2> QED BY <2>2, <2>3
<1>4. ASSUME NEW j \in Planning', \A l \in Planning' : l <= j
      PROVE  \A l \in Planning : l <= Before(i, j)
  BY <1>1, <1>2, <1>3, <1>4
<1>5. ASSUME NEW m \in Runs', \A j \in Planning : j < Before(i, m)
      PROVE  \A j \in Planning' : j < m
  BY <1>1, <1>2, <1>5
<1> QED
  BY <1>2, <1>3, <1>4, <1>5 DEF SameQuestions

\* A call that is neither a question nor the run's.
LEMMA OtherClickAsksNothing ==
  ASSUME Typing, NEW c \in CallRec, Adds(c), c.kind \notin RunKind,
         c.kind # "plan"
  PROVE  SameQuestions
<1>1. DOMAIN calls = 1..Len(calls) /\ Len(calls) \in Nat
  BY DEF Typing
<1>2. Runs' = Runs /\ Planning' = Planning
  BY <1>1 DEF Adds, Runs, Planning
<1>3. /\ \A j \in Runs : calls'[j] = calls[j]
      /\ \A j \in Planning : calls'[j] = calls[j]
  BY DEF Adds, Runs, Planning
<1> QED
  BY <1>2, <1>3 DEF SameQuestions

\* No call at all.
LEMMA NoCallAsksNothing ==
  ASSUME UNCHANGED calls
  PROVE  SameQuestions
<1>1. Runs' = Runs /\ Planning' = Planning
  BY DEF Runs, Planning
<1> QED
  BY <1>1 DEF SameQuestions

\* A step of the run asks nothing new.
LEMMA RunAsksNothing ==
  ASSUME NEW i \in DOMAIN calls, Planning = {},
         \/ Drops(i)
         \/ \E c \in CallRec : Follows(i, c) /\ c.kind # "plan"
  PROVE  Planning' = {}
<1>1. CASE Drops(i)
  BY <1>1 DEF Drops, Planning
<1>2. ASSUME NEW c \in CallRec, Follows(i, c), c.kind # "plan"
      PROVE  Planning' = {}
  <2>1. \A j \in 1..(Len(calls) - 1) : j \notin Planning'
    BY <1>2 DEF Follows, Planning
  <2>2. Len(calls) \notin Planning'
    BY <1>2 DEF Follows, Planning
  <2>3. Planning' \subseteq 1..Len(calls')
    BY <1>2 DEF Follows, Planning
  <2>4. \A j \in 1..Len(calls') : j \in 1..(Len(calls) - 1) \/ j = Len(calls)
    <3>1. Len(calls') = Len(calls) /\ Len(calls') \in Nat
      BY <1>2 DEF Follows
    <3> QED BY <3>1
  <2> QED BY <2>1, <2>2, <2>3, <2>4
<1> QED
  BY <1>1, <1>2

\* No handler spoils the plan while answers keep their order.
LEMMA PlanStep == Typing /\ Typing' /\ RunInv /\ PlanInv /\ [Next]_vars => PlanInv'
<1> SUFFICES ASSUME Typing, Typing', RunInv, PlanInv, [Next]_vars
             PROVE  PlanInv'
  OBVIOUS
<1>0. /\ SummaryCall \in CallRec /\ SummaryCall.kind = "summary"
      /\ PrecheckCall \in CallRec /\ PrecheckCall.kind = "precheck"
      /\ PlanCall' \in CallRec /\ PlanCall'.kind = "plan"
      /\ PlanCall'.choice = Selected'
      /\ DOMAIN calls = 1..Len(calls) /\ Len(calls) \in Nat
      /\ \A j, k \in Runs : j = k
  BY CallFields DEF Typing, RunInv, OneRun
<1>c. \A i \in DOMAIN calls :
        /\ ListenCall(i) \in CallRec /\ ListenCall(i).kind = "listen"
        /\ ExecuteCall(i) \in CallRec /\ ExecuteCall(i).kind = "execute"
        /\ ExecuteCall(i).choice = calls[i].choice
        /\ ExecuteCall(i).plan = plan
        /\ FitCall(i) \in CallRec /\ FitCall(i).kind = "fit"
  BY CallFields
<1>t. setting' = setting
  BY DEF Next, vars
<1>s. SUFFICES ASSUME setting.inOrder PROVE PlanInv'
  BY <1>t DEF PlanInv
<1>1. ASSUME EditForm, UNCHANGED setting
      PROVE  PlanInv'
  <2>1. SameQuestions
    BY <1>1, NoCallAsksNothing
       DEF EditForm
  <2>2. UNCHANGED <<disk, swap, plan, setting>>
    BY <1>1 DEF EditForm, selection
  <2> QED BY <2>1, <2>2, SameQuestionsKeeps
<1>2. ASSUME NextFromForm, UNCHANGED setting
      PROVE  PlanInv'
  <2>1. SameQuestions
    BY <1>2, NoCallAsksNothing
       DEF NextFromForm
  <2>2. UNCHANGED <<disk, swap, plan, setting>>
    BY <1>2 DEF NextFromForm, selection
  <2> QED BY <2>1, <2>2, SameQuestionsKeeps
<1>3. ASSUME NextFromStorage, UNCHANGED setting
      PROVE  PlanInv'
  <2>1. SameQuestions
    BY <1>3, <1>0, ClickShapes, OtherClickAsksNothing
       DEF RunKind
  <2>2. UNCHANGED <<disk, swap, plan, setting>>
    BY <1>3 DEF NextFromStorage, selection
  <2> QED BY <2>1, <2>2, SameQuestionsKeeps
<1>4. ASSUME BackClick, UNCHANGED setting
      PROVE  PlanInv'
  <2>1. SameQuestions
    BY <1>4, NoCallAsksNothing
       DEF BackClick
  <2>2. UNCHANGED <<disk, swap, plan, setting>>
    BY <1>4 DEF BackClick, selection
  <2> QED BY <2>1, <2>2, SameQuestionsKeeps
<1>5. ASSUME StepClick, UNCHANGED setting
      PROVE  PlanInv'
  <2>1. SameQuestions
    BY <1>5, NoCallAsksNothing
       DEF StepClick
  <2>2. UNCHANGED <<disk, swap, plan, setting>>
    BY <1>5 DEF StepClick, selection
  <2> QED BY <2>1, <2>2, SameQuestionsKeeps
<1>6. ASSUME SelectDisk, UNCHANGED setting
      PROVE  PlanInv'
  <2>1. Runs' = {}
    <3>1. Runs = {}
      BY <1>6 DEF SelectDisk, Form, Storage, Summary, RunInv, OneRun
    <3>2. SameRun
      BY <1>6, <1>0, ClickShapes, OtherClick DEF RunKind
    <3> QED BY <3>1, <3>2 DEF SameRun
  <2>2. disk' # NoDisk
    BY <1>6, NullAssumption DEF SelectDisk
  <2>3. Adds(PlanCall')
    BY <1>6, ClickShapes
  <2>4. PlanInv'
    <3>1. Len(calls) + 1 \in Planning' /\ \A l \in Planning' : l <= Len(calls) + 1
      BY <1>0, <2>3 DEF Adds, Planning
    <3>2. calls'[Len(calls) + 1].choice = Selected'
      BY <1>0, <2>3 DEF Adds
    <3>3. \A j \in Planning' :
            (\A l \in Planning' : l <= j) => calls'[j].choice = Selected'
      <4> SUFFICES ASSUME NEW j \in Planning', \A l \in Planning' : l <= j
                   PROVE  calls'[j].choice = Selected'
        OBVIOUS
      <4>1. j = Len(calls) + 1
        <5>1. j \in 1..(Len(calls) + 1) /\ Len(calls) + 1 <= j
          BY <2>3, <3>1 DEF Planning, Adds
        <5> QED BY <1>0, <5>1
      <4> QED BY <3>2, <4>1
    <3> QED BY <2>1, <2>2, <3>1, <3>3 DEF PlanInv
  <2> QED BY <2>4
<1>7. ASSUME SelectSwap, UNCHANGED setting
      PROVE  PlanInv'
  <2>0. Runs = {} /\ disk' = disk
    BY <1>7 DEF SelectSwap, Form, Storage, Summary, RunInv, OneRun
  <2>a. CASE disk = NoDisk
    <3>1. calls' = calls /\ plan' = NoPlan
      BY <1>7, <2>a, ClickShapes DEF SelectSwap, RefreshPlan
    <3>2. Planning = {}
      BY <2>a, <1>s DEF PlanInv
    <3>3. Planning' = {} /\ Runs' = {}
      BY <2>0, <3>1, <3>2 DEF Planning, Runs
    <3> QED BY <3>1, <3>3 DEF PlanInv
  <2>b. CASE disk # NoDisk
    <3>3. Adds(PlanCall')
      BY <1>7, <2>b, ClickShapes
    <3>1. Runs' = {}
      <4>1. SameRun
        BY <1>0, <3>3, OtherClick DEF RunKind
      <4> QED BY <2>0, <4>1 DEF SameRun
    <3>2. disk' # NoDisk
      BY <2>0, <2>b
    <3>4. PlanInv'
      <4>1. Len(calls) + 1 \in Planning' /\ \A l \in Planning' : l <= Len(calls) + 1
        BY <1>0, <3>3 DEF Adds, Planning
      <4>2. calls'[Len(calls) + 1].choice = Selected'
        BY <1>0, <3>3 DEF Adds
      <4>3. \A j \in Planning' :
              (\A l \in Planning' : l <= j) => calls'[j].choice = Selected'
        <5> SUFFICES ASSUME NEW j \in Planning', \A l \in Planning' : l <= j
                     PROVE  calls'[j].choice = Selected'
          OBVIOUS
        <5>1. j = Len(calls) + 1
          <6>1. j \in 1..(Len(calls) + 1) /\ Len(calls) + 1 <= j
            BY <3>3, <4>1 DEF Planning, Adds
          <6> QED BY <1>0, <6>1
        <5> QED BY <4>2, <5>1
      <4> QED BY <3>1, <3>2, <4>1, <4>3 DEF PlanInv
    <3> QED BY <3>4
  <2> QED BY <2>a, <2>b
<1>8. ASSUME Tick, UNCHANGED setting
      PROVE  PlanInv'
  <2>1. SameQuestions
    BY <1>8, NoCallAsksNothing
       DEF Tick
  <2>2. UNCHANGED <<disk, swap, plan, setting>>
    BY <1>8 DEF Tick, selection
  <2> QED BY <2>1, <2>2, SameQuestionsKeeps
<1>9. ASSUME ClickInstall, UNCHANGED setting
      PROVE  PlanInv'
  <2>1. Runs = {} /\ Adds(PrecheckCall)
    BY <1>9, ClickShapes DEF ClickInstall, MayInstall, Unlocked, RunInv, OneRun
  <2>2. UNCHANGED <<disk, swap, plan>> /\ Selected' = Selected
    BY <1>9 DEF ClickInstall, selection, Selected
  <2>3. /\ Planning' = Planning
        /\ \A j \in Planning : calls'[j] = calls[j] /\ j < Len(calls) + 1
    BY <1>0, <2>1 DEF Adds, Planning
  <2>4. Runs' = {Len(calls) + 1} /\ calls'[Len(calls) + 1].kind = "precheck"
    BY <1>0, <2>1 DEF Adds, Runs, RunKind
  <2> QED BY <1>s, <2>2, <2>3, <2>4 DEF PlanInv
<1>10. ASSUME NEW i \in DOMAIN calls, DiscoverAnswer(i), UNCHANGED setting
      PROVE  PlanInv'
  <2>1. SameQuestions
    BY <1>10, AnswerShapes, OtherAnswerAsksNothing
       DEF DiscoverAnswer, Answerable, Runs, RunKind, Planning
  <2>2. UNCHANGED <<disk, swap, plan, setting>>
    BY <1>10 DEF DiscoverAnswer, selection
  <2> QED BY <2>1, <2>2, SameQuestionsKeeps
<1>11. ASSUME NEW i \in DOMAIN calls, PlanAnswer(i), UNCHANGED setting
      PROVE  PlanInv'
  <2>1. /\ i \in Planning /\ i \notin Runs /\ Drops(i)
        /\ \A j \in 1..(i - 1) : calls[j].kind = "execute"
        /\ plan' \in {calls[i].choice, NoPlan}
        /\ disk' = disk /\ Selected' = Selected
    BY <1>11, <1>s, AnswerShapes
    DEF PlanAnswer, Answerable, Planning, Runs, RunKind, Selected
  <2>2. /\ disk # NoDisk
        /\ \A n \in Runs : calls[n].kind = "precheck" /\ i < n
    BY <1>s, <2>1 DEF PlanInv
  <2>3. /\ \A j \in Planning' : /\ Before(i, j) \in Planning \ {i}
                                /\ calls'[j] = calls[Before(i, j)]
        /\ \A m \in Runs' : Before(i, m) \in Runs /\ calls'[m] = calls[Before(i, m)]
    BY <2>1 DEF Drops, Planning, Runs
  <2>4. \A k \in Planning \ {i} : \E j \in Planning' : k = Before(i, j)
    <3> TAKE k \in Planning \ {i}
    <3>1. k \in DOMAIN calls \ {i}
      BY DEF Planning
    <3>2. PICK j \in DOMAIN calls' : k = Before(i, j)
      BY <2>1, <3>1 DEF Drops
    <3>3. j \in Planning'
      BY <2>1, <3>2 DEF Drops, Planning
    <3> QED BY <3>2, <3>3
  <2>5. \A j \in DOMAIN calls', k \in DOMAIN calls' :
          /\ Before(i, j) < Before(i, k) => j < k
          /\ j <= k => Before(i, j) <= Before(i, k)
    BY <1>0, <2>1 DEF Before, Drops
  <2>6. \A k \in Planning : i <= k
    BY <1>0, <2>1 DEF Planning
  <2>7. \A j \in Planning' :
          (\A l \in Planning' : l <= j) => calls'[j].choice = Selected'
    <3> SUFFICES ASSUME NEW j \in Planning', \A l \in Planning' : l <= j
                 PROVE  calls'[j].choice = Selected'
      OBVIOUS
    <3>1. Planning' \subseteq DOMAIN calls'
      BY DEF Planning
    <3>2. \A k \in Planning \ {i} : k <= Before(i, j)
      BY <2>4, <2>5, <3>1
    <3>3. \A k \in Planning : k <= Before(i, j)
      BY <2>3, <2>6, <3>2
    <3> QED BY <1>s, <2>1, <2>3, <3>3 DEF PlanInv
  <2>8. Planning' = {} => plan' \in {Selected', NoPlan}
    <3> SUFFICES ASSUME Planning' = {} PROVE plan' \in {Selected', NoPlan}
      OBVIOUS
    <3>1. Planning = {i}
      BY <2>1, <2>4
    <3>2. calls[i].choice = Selected
      BY <1>s, <2>1, <2>6, <3>1 DEF PlanInv
    <3> QED BY <2>1, <3>2
  <2>9. \A m \in Runs' : calls'[m].kind = "precheck" /\ \A j \in Planning' : j < m
    <3>1. Planning' \subseteq DOMAIN calls' /\ Runs' \subseteq DOMAIN calls'
      BY DEF Planning, Runs
    <3>2. \A n \in Runs : \A k \in Planning : k < n
      BY <1>s, <2>2 DEF PlanInv
    <3> QED BY <2>2, <2>3, <2>5, <3>1, <3>2
  <2> QED BY <2>1, <2>2, <2>7, <2>8, <2>9 DEF PlanInv
<1>12. ASSUME NEW i \in DOMAIN calls, SummaryAnswer(i), UNCHANGED setting
      PROVE  PlanInv'
  <2>1. SameQuestions
    BY <1>12, AnswerShapes, OtherAnswerAsksNothing
       DEF SummaryAnswer, Answerable, Runs, RunKind, Planning
  <2>2. UNCHANGED <<disk, swap, plan, setting>>
    BY <1>12 DEF SummaryAnswer, selection
  <2> QED BY <2>1, <2>2, SameQuestionsKeeps
<1>13. ASSUME NEW i \in DOMAIN calls, PrecheckAnswer(i), UNCHANGED setting
      PROVE  PlanInv'
  <2>1. /\ i \in Runs /\ i \in DOMAIN calls /\ calls[i].kind = "precheck"
        /\ \A j \in 1..(i - 1) : calls[j].kind = "execute"
    BY <1>13, <1>s DEF PrecheckAnswer, Answerable, Runs, RunKind
  <2>2. Planning = {}
    <3>1. \A j \in Planning : j < i
      BY <1>s, <2>1 DEF PlanInv
    <3> QED BY <1>0, <2>1, <3>1 DEF Planning
  <2>3. plan \in {Selected, NoPlan}
    BY <1>s, <2>2 DEF PlanInv
  <2>4. UNCHANGED <<disk, swap, plan>> /\ Selected' = Selected
    BY <1>13 DEF PrecheckAnswer, Finally, selection, Selected
  <2>5. CASE calls[i].config \in ValidConfigs
    <3> DEFINE c == ListenCall(i)
    <3>1. c \in CallRec /\ c.kind = "listen"
      BY <1>c, <2>1
    <3> HIDE DEF c
    <3>2. Follows(i, c)
      BY <1>13, <2>5, AnswerShapes DEF c
    <3>3. Planning' = {} /\ RunIsAt(c)
      BY <1>0, <2>1, <2>2, <3>1, <3>2, RunAsksNothing, RunGoesOn DEF RunKind
    <3> QED BY <2>3, <2>4, <3>1, <3>3 DEF PlanInv, RunIsAt
  <2>6. CASE calls[i].config \notin ValidConfigs
    <3>1. Planning' = {} /\ Runs' = {}
      BY <1>13, <1>0, <2>1, <2>2, <2>6, AnswerShapes, RunAsksNothing, RunIsOver
    <3> QED BY <2>3, <2>4, <3>1 DEF PlanInv
  <2> QED BY <2>5, <2>6
<1>14. ASSUME NEW i \in DOMAIN calls, ListenAnswer(i), UNCHANGED setting
      PROVE  PlanInv'
  <2> DEFINE c == ExecuteCall(i)
  <2>1. i \in Runs /\ i \in DOMAIN calls /\ calls[i].kind = "listen"
    BY <1>14 DEF ListenAnswer, Answerable, Runs, RunKind
  <2>2. Planning = {} /\ plan \in {Selected, NoPlan} /\ calls[i].choice = Selected
    BY <1>s, <2>1 DEF PlanInv, RunInv
  <2>3. c \in CallRec /\ c.kind = "execute" /\ c.plan = plan /\ c.choice = calls[i].choice
    BY <1>c, <2>1
  <2> HIDE DEF c
  <2>4. Follows(i, c)
    BY <1>14, AnswerShapes DEF c
  <2>5. Planning' = {} /\ RunIsAt(c)
    BY <1>0, <2>1, <2>2, <2>3, <2>4, RunAsksNothing, RunGoesOn DEF RunKind
  <2>6. UNCHANGED <<disk, swap, plan>> /\ Selected' = Selected
    BY <1>14 DEF ListenAnswer, selection, Selected
  <2> QED BY <2>2, <2>3, <2>5, <2>6 DEF PlanInv, RunIsAt
<1>15. ASSUME NEW i \in DOMAIN calls, CompletedAnswer(i), UNCHANGED setting
      PROVE  PlanInv'
  <2> DEFINE c == FitCall(i)
  <2>1. i \in Runs /\ i \in DOMAIN calls /\ calls[i].kind = "execute"
    BY <1>15 DEF CompletedAnswer, Answerable, Runs, RunKind
  <2>2. Planning = {} /\ plan \in {Selected, NoPlan} /\ calls[i].choice = Selected
    BY <1>s, <2>1 DEF PlanInv, RunInv
  <2>3. c \in CallRec /\ c.kind = "fit"
    BY <1>c, <2>1
  <2> HIDE DEF c
  <2>4. Follows(i, c)
    BY <1>15, AnswerShapes DEF c
  <2>5. Planning' = {} /\ RunIsAt(c)
    BY <1>0, <2>1, <2>2, <2>3, <2>4, RunAsksNothing, RunGoesOn DEF RunKind
  <2>6. UNCHANGED <<disk, swap, plan>> /\ Selected' = Selected
    BY <1>15 DEF CompletedAnswer, selection, Selected
  <2> QED BY <2>2, <2>3, <2>5, <2>6 DEF PlanInv, RunIsAt
<1>16. ASSUME NEW i \in DOMAIN calls, FailedAnswer(i), UNCHANGED setting
      PROVE  PlanInv'
  <2>1. i \in Runs /\ calls[i].kind = "execute"
    BY <1>16 DEF FailedAnswer, Answerable, Runs, RunKind
  <2>2. Planning = {}
    BY <1>s, <2>1 DEF PlanInv
  <2>3. Planning' = {} /\ Runs' = {}
    BY <1>16, <1>0, <2>1, <2>2, AnswerShapes, RunAsksNothing, RunIsOver
  <2>4. UNCHANGED <<disk, swap, plan>> /\ Selected' = Selected
    BY <1>16 DEF FailedAnswer, Finally, selection, Selected
  <2> QED BY <1>s, <2>2, <2>3, <2>4 DEF PlanInv
<1>17. ASSUME NEW i \in DOMAIN calls, RejectedAnswer(i), UNCHANGED setting
      PROVE  PlanInv'
  <2>1. i \in Runs /\ calls[i].kind \in {"listen", "execute"}
    BY <1>17 DEF RejectedAnswer, Answerable, Runs, RunKind
  <2>2. Planning = {}
    BY <1>s, <2>1 DEF PlanInv
  <2>3. Planning' = {} /\ Runs' = {}
    BY <1>17, <1>0, <2>1, <2>2, AnswerShapes, RunAsksNothing, RunIsOver
  <2>4. UNCHANGED <<disk, swap, plan>> /\ Selected' = Selected
    BY <1>17 DEF RejectedAnswer, Finally, selection, Selected
  <2> QED BY <1>s, <2>2, <2>3, <2>4 DEF PlanInv
<1>18. ASSUME NEW i \in DOMAIN calls, FitAnswer(i), UNCHANGED setting
      PROVE  PlanInv'
  <2>1. i \in Runs /\ calls[i].kind = "fit"
    BY <1>18 DEF FitAnswer, Answerable, Runs, RunKind
  <2>2. Planning = {}
    BY <1>s, <2>1 DEF PlanInv
  <2>3. Planning' = {} /\ Runs' = {}
    BY <1>18, <1>0, <2>1, <2>2, AnswerShapes, RunAsksNothing, RunIsOver
  <2>4. UNCHANGED <<disk, swap, plan>> /\ Selected' = Selected
    BY <1>18 DEF FitAnswer, Finally, selection, Selected
  <2> QED BY <1>s, <2>2, <2>3, <2>4 DEF PlanInv
<1>19. ASSUME NEW i \in DOMAIN calls, ServiceWrites(i), UNCHANGED setting
      PROVE  PlanInv'
  <2>1. SameQuestions
    BY <1>19, NoCallAsksNothing
       DEF ServiceWrites
  <2>2. UNCHANGED <<disk, swap, plan, setting>>
    BY <1>19 DEF ServiceWrites, selection
  <2> QED BY <2>1, <2>2, SameQuestionsKeeps
<1>20. CASE UNCHANGED vars
  <2>1. SameQuestions
    BY <1>20, NoCallAsksNothing DEF vars
  <2> QED BY <1>20, <2>1, SameQuestionsKeeps DEF vars
<1> QED
  BY <1>1, <1>2, <1>3, <1>4, <1>5, <1>6, <1>7, <1>8, <1>9, <1>10, <1>11,
     <1>12, <1>13, <1>14, <1>15, <1>16, <1>17, <1>18, <1>19, <1>20
     DEF Next, Clicks, Answers, Answer, Writes


-----------------------------------------------------------------------------
(* A user who waits for every answer.                                      *)

PatientInv ==
  setting.patient =>
    /\ Len(calls) <= 1
    /\ page <= Summary
    /\ page = Summary => shown = <<disk, swap, config>>
    /\ \A i \in DOMAIN calls :
         calls[i].kind = "summary" =>
           page = Storage /\ ~terminal /\ shown = <<disk, swap, config>>
    /\ installing \/ terminal => page = Summary
    /\ \A i \in Runs : calls[i].config = config

\* A user who waits never finds the wizard between two pages.
LEMMA PatientStep == Typing /\ Typing' /\ RunInv /\ PatientInv /\ [Next]_vars => PatientInv'
<1> SUFFICES ASSUME Typing, Typing', RunInv, PatientInv, [Next]_vars
             PROVE  PatientInv'
  OBVIOUS
<1>0. /\ SummaryCall.kind = "summary" /\ PlanCall'.kind = "plan"
      /\ PrecheckCall.kind = "precheck" /\ PrecheckCall.config = config
      /\ DOMAIN calls = 1..Len(calls) /\ Len(calls) \in Nat
      /\ page \in Nat
  BY CallFields DEF Typing
<1>c. \A i \in DOMAIN calls :
        /\ ListenCall(i).kind = "listen" /\ ListenCall(i).config = calls[i].config
        /\ ExecuteCall(i).kind = "execute"
        /\ ExecuteCall(i).config = calls[i].config
        /\ FitCall(i).kind = "fit" /\ FitCall(i).config = calls[i].config
  BY CallFields
<1>t. setting' = setting
  BY DEF Next, vars
<1>s. SUFFICES ASSUME setting.patient PROVE PatientInv'
  BY <1>t DEF PatientInv
<1>1. ASSUME EditForm, UNCHANGED setting
      PROVE  PatientInv'
  <2>1. DOMAIN calls = {} /\ Runs = {} /\ ~installing
    BY <1>1, <1>s DEF EditForm, User, Runs, RunInv, OneRun
  <2>2. DOMAIN calls' = {} /\ Runs' = {} /\ Len(calls') <= 1
    BY <1>1, <1>s DEF EditForm, User, Runs
  <2> QED BY <1>1, <1>s, <1>0, <2>1, <2>2
         DEF EditForm, PatientInv, selection, progress, Form, Summary
<1>2. ASSUME NextFromForm, UNCHANGED setting
      PROVE  PatientInv'
  <2>1. DOMAIN calls = {} /\ Runs = {} /\ ~installing
    BY <1>2, <1>s DEF NextFromForm, User, Runs, RunInv, OneRun
  <2>2. DOMAIN calls' = {} /\ Runs' = {} /\ Len(calls') <= 1
    BY <1>2, <1>s DEF NextFromForm, User, Runs
  <2> QED BY <1>2, <1>s, <1>0, <2>1, <2>2
         DEF NextFromForm, PatientInv, Show, selection, progress, Unlocked,
             Form, Storage, Summary
<1>3. ASSUME NextFromStorage, UNCHANGED setting
      PROVE  PatientInv'
  <2>1. DOMAIN calls = {} /\ Runs = {} /\ ~installing
    BY <1>3, <1>s DEF NextFromStorage, User, Runs, RunInv, OneRun
  <2>2. /\ DOMAIN calls' = {1} /\ Len(calls') = 1
        /\ calls'[1].kind = "summary" /\ Runs' = {}
    BY <1>3, <1>s, <1>0, ClickShapes
    DEF NextFromStorage, User, Adds, Runs, RunKind
  <2>3. /\ page' = Storage /\ shown' = <<disk', swap', config'>>
        /\ ~installing' /\ ~terminal'
    BY <1>3 DEF NextFromStorage, Unlocked, RenderSummary, selection, progress
  <2> QED BY <2>2, <2>3 DEF PatientInv, Storage, Summary
<1>4. ASSUME BackClick, UNCHANGED setting
      PROVE  PatientInv'
  <2>1. DOMAIN calls = {} /\ Runs = {} /\ ~installing
    BY <1>4, <1>s DEF BackClick, User, Runs, RunInv, OneRun
  <2>2. DOMAIN calls' = {} /\ Runs' = {} /\ Len(calls') <= 1
    BY <1>4, <1>s DEF BackClick, User, Runs
  <2> QED BY <1>4, <1>s, <1>0, <2>1, <2>2
         DEF BackClick, PatientInv, Show, selection, progress, Unlocked, Form,
             Storage, Summary
<1>5. ASSUME StepClick, UNCHANGED setting
      PROVE  PatientInv'
  <2>1. DOMAIN calls = {} /\ Runs = {} /\ ~installing
    BY <1>5, <1>s DEF StepClick, User, Runs, RunInv, OneRun
  <2>2. DOMAIN calls' = {} /\ Runs' = {} /\ Len(calls') <= 1
    BY <1>5, <1>s DEF StepClick, User, Runs
  <2>3. PICK index \in {Form, Storage, Summary} : index <= page /\ page' = index
    BY <1>5 DEF StepClick, Show
  <2>4. /\ UNCHANGED <<shown, disk, swap, config, installing, terminal>>
        /\ ~installing /\ ~terminal
    BY <1>5 DEF StepClick, selection, summary, progress, Unlocked
  <2>5. page' <= Summary /\ (page' = Summary => page = Summary)
    BY <1>s, <1>0, <2>3 DEF PatientInv, Form, Storage, Summary
  <2> QED BY <1>s, <2>2, <2>4, <2>5 DEF PatientInv
<1>6. ASSUME SelectDisk, UNCHANGED setting
      PROVE  PatientInv'
  <2>1. DOMAIN calls = {} /\ Runs = {} /\ ~installing
    BY <1>6, <1>s DEF SelectDisk, User, Runs, RunInv, OneRun
  <2>2. /\ Len(calls') <= 1 /\ Runs' = {}
        /\ \A k \in DOMAIN calls' : calls'[k].kind # "summary"
    <3>1. Len(calls') = 1 /\ DOMAIN calls' = {1} /\ calls'[1].kind = "plan"
      BY <1>6, <1>s, <1>0, ClickShapes DEF SelectDisk, User, Adds
    <3> QED BY <3>1 DEF Runs, RunKind
  <2>3. page' = Storage /\ ~installing' /\ ~terminal'
    BY <1>6, <1>s, <2>1 DEF SelectDisk, progress, PatientInv, Storage, Summary
  <2> QED BY <2>2, <2>3 DEF PatientInv, Storage, Summary
<1>7. ASSUME SelectSwap, UNCHANGED setting
      PROVE  PatientInv'
  <2>1. DOMAIN calls = {} /\ Runs = {} /\ ~installing
    BY <1>7, <1>s DEF SelectSwap, User, Runs, RunInv, OneRun
  <2>2. /\ Len(calls') <= 1 /\ Runs' = {}
        /\ \A k \in DOMAIN calls' : calls'[k].kind # "summary"
    <3>1. CASE disk = NoDisk
      BY <1>7, <1>s, <3>1, ClickShapes DEF SelectSwap, User, Runs
    <3>2. CASE disk # NoDisk
      <4>1. Len(calls') = 1 /\ DOMAIN calls' = {1} /\ calls'[1].kind = "plan"
        BY <1>7, <1>s, <1>0, <3>2, ClickShapes DEF SelectSwap, User, Adds
      <4> QED BY <4>1 DEF Runs, RunKind
    <3> QED BY <3>1, <3>2
  <2>3. page' = Storage /\ ~installing' /\ ~terminal'
    BY <1>7, <1>s, <2>1 DEF SelectSwap, progress, PatientInv, Storage, Summary
  <2> QED BY <2>2, <2>3 DEF PatientInv, Storage, Summary
<1>8. ASSUME Tick, UNCHANGED setting
      PROVE  PatientInv'
  <2>1. DOMAIN calls = {} /\ Runs = {} /\ ~installing
    BY <1>8, <1>s DEF Tick, User, Runs, RunInv, OneRun
  <2>2. DOMAIN calls' = {} /\ Runs' = {} /\ Len(calls') <= 1
    BY <1>8, <1>s DEF Tick, User, Runs
  <2> QED BY <1>8, <1>s, <1>0, <2>1, <2>2
         DEF Tick, PatientInv, selection, progress
<1>9. ASSUME ClickInstall, UNCHANGED setting
      PROVE  PatientInv'
  <2>1. DOMAIN calls = {} /\ page = Summary
    BY <1>9, <1>s DEF ClickInstall, User, RunInv
  <2>2. /\ DOMAIN calls' = {1} /\ Len(calls') = 1
        /\ calls'[1].kind = "precheck" /\ calls'[1].config = config
    BY <1>9, <1>s, <1>0, ClickShapes DEF ClickInstall, User, Adds
  <2>3. UNCHANGED <<page, shown, disk, swap, config>>
    BY <1>9 DEF ClickInstall, selection, summary
  <2> QED BY <1>s, <2>1, <2>2, <2>3 DEF PatientInv, Runs
<1>10. ASSUME NEW i \in DOMAIN calls, DiscoverAnswer(i), UNCHANGED setting
      PROVE  PatientInv'
  <2>1. /\ i = 1 /\ Len(calls) = 1 /\ calls[1].kind = "discover"
    BY <1>10, <1>s, <1>0 DEF DiscoverAnswer, Answerable, PatientInv
  <2>2. DOMAIN calls' = {} /\ Runs' = {} /\ Len(calls') <= 1
    BY <1>10, <2>1, AnswerShapes DEF Drops, Runs
  <2>3. UNCHANGED <<page, shown, disk, swap, config, installing, terminal>>
    BY <1>10 DEF DiscoverAnswer, selection, summary, progress
  <2> QED BY <1>s, <2>2, <2>3 DEF PatientInv
<1>11. ASSUME NEW i \in DOMAIN calls, PlanAnswer(i), UNCHANGED setting
      PROVE  PatientInv'
  <2>1. /\ i = 1 /\ Len(calls) = 1 /\ calls[1].kind = "plan"
    BY <1>11, <1>s, <1>0 DEF PlanAnswer, Answerable, PatientInv
  <2>2. DOMAIN calls' = {} /\ Runs' = {} /\ Len(calls') <= 1
    BY <1>11, <2>1, AnswerShapes DEF Drops, Runs
  <2>3. UNCHANGED <<page, shown, disk, swap, config, installing, terminal>>
    BY <1>11 DEF PlanAnswer, selection, summary, progress
  <2> QED BY <1>s, <2>2, <2>3 DEF PatientInv
<1>12. ASSUME NEW i \in DOMAIN calls, SummaryAnswer(i), UNCHANGED setting
      PROVE  PatientInv'
  <2>1. /\ i = 1 /\ Len(calls) = 1 /\ calls[1].kind = "summary"
    BY <1>12, <1>s, <1>0 DEF SummaryAnswer, Answerable, PatientInv
  <2>2. DOMAIN calls' = {} /\ Runs' = {} /\ Len(calls') <= 1
    BY <1>12, <2>1, AnswerShapes DEF Drops, Runs
  <2>3. /\ page' = page + 1
        /\ UNCHANGED <<shown, disk, swap, config, installing, terminal>>
    BY <1>12 DEF SummaryAnswer, Show, selection, progress
  <2>4. /\ 1 \in DOMAIN calls /\ page = Storage
        /\ shown = <<disk, swap, config>>
    BY <1>12, <1>s, <2>1 DEF PatientInv
  <2> QED BY <2>2, <2>3, <2>4 DEF PatientInv, Storage, Summary
<1>13. ASSUME NEW i \in DOMAIN calls, PrecheckAnswer(i), UNCHANGED setting
      PROVE  PatientInv'
  <2>1. /\ i = 1 /\ Len(calls) = 1 /\ calls[1].kind = "precheck"
    BY <1>13, <1>s, <1>0 DEF PrecheckAnswer, Answerable, PatientInv
  <2>2. 1 \in Runs /\ page = Summary /\ shown = <<disk, swap, config>>
    BY <1>13, <1>s, <2>1 DEF PatientInv, RunInv, OneRun, Runs, RunKind
  <2>3. UNCHANGED <<page, shown, disk, swap, config>>
    BY <1>13 DEF PrecheckAnswer, Finally, selection, summary
  <2>4. CASE calls[i].config \in ValidConfigs
    <3>1. /\ Len(calls') = 1 /\ DOMAIN calls' = {1}
          /\ calls'[1] = ListenCall(1)
      BY <1>13, <2>1, <2>4, AnswerShapes DEF Follows
    <3>2. calls'[1].kind = "listen" /\ calls'[1].config = config
      BY <1>13, <1>c, <1>s, <2>1, <2>2, <3>1 DEF PatientInv
    <3> QED BY <1>s, <2>2, <2>3, <3>1, <3>2 DEF PatientInv, Runs
  <2>5. CASE calls[i].config \notin ValidConfigs
    <3>1. DOMAIN calls' = {} /\ Runs' = {} /\ Len(calls') <= 1
      BY <1>13, <2>1, <2>5, AnswerShapes DEF Drops, Runs
    <3> QED BY <1>s, <2>2, <2>3, <3>1 DEF PatientInv
  <2> QED BY <2>4, <2>5
<1>14. ASSUME NEW i \in DOMAIN calls, ListenAnswer(i), UNCHANGED setting
      PROVE  PatientInv'
  <2>1. /\ i = 1 /\ Len(calls) = 1 /\ calls[1].kind = "listen"
    BY <1>14, <1>s, <1>0 DEF ListenAnswer, Answerable, PatientInv
  <2>2. 1 \in Runs /\ page = Summary /\ shown = <<disk, swap, config>>
    BY <1>14, <1>s, <2>1 DEF PatientInv, RunInv, OneRun, Runs, RunKind
  <2>3. UNCHANGED <<page, shown, disk, swap, config>>
    BY <1>14 DEF ListenAnswer, selection, summary
  <2>4. /\ Len(calls') = 1 /\ DOMAIN calls' = {1}
        /\ calls'[1] = ExecuteCall(1)
    BY <1>14, <2>1, AnswerShapes DEF Follows
  <2>5. calls'[1].kind = "execute" /\ calls'[1].config = config
    BY <1>14, <1>c, <1>s, <2>1, <2>2, <2>4 DEF PatientInv
  <2> QED BY <1>s, <2>2, <2>3, <2>4, <2>5 DEF PatientInv, Runs
<1>15. ASSUME NEW i \in DOMAIN calls, CompletedAnswer(i), UNCHANGED setting
      PROVE  PatientInv'
  <2>1. /\ i = 1 /\ Len(calls) = 1 /\ calls[1].kind = "execute"
    BY <1>15, <1>s, <1>0 DEF CompletedAnswer, Answerable, PatientInv
  <2>2. 1 \in Runs /\ page = Summary /\ shown = <<disk, swap, config>>
    BY <1>15, <1>s, <2>1 DEF PatientInv, RunInv, OneRun, Runs, RunKind
  <2>3. UNCHANGED <<page, shown, disk, swap, config>>
    BY <1>15 DEF CompletedAnswer, selection, summary
  <2>4. /\ Len(calls') = 1 /\ DOMAIN calls' = {1}
        /\ calls'[1] = FitCall(1)
    BY <1>15, <2>1, AnswerShapes DEF Follows
  <2>5. calls'[1].kind = "fit" /\ calls'[1].config = config
    BY <1>15, <1>c, <1>s, <2>1, <2>2, <2>4 DEF PatientInv
  <2> QED BY <1>s, <2>2, <2>3, <2>4, <2>5 DEF PatientInv, Runs
<1>16. ASSUME NEW i \in DOMAIN calls, FailedAnswer(i), UNCHANGED setting
      PROVE  PatientInv'
  <2>1. /\ i = 1 /\ Len(calls) = 1 /\ calls[1].kind = "execute"
    BY <1>16, <1>s, <1>0 DEF FailedAnswer, Answerable, PatientInv
  <2>2. DOMAIN calls' = {} /\ Runs' = {} /\ Len(calls') <= 1
    BY <1>16, <2>1, AnswerShapes DEF Drops, Runs
  <2>3. page = Summary
    BY <1>16, <1>s, <2>1 DEF PatientInv, RunInv, OneRun, Runs, RunKind
  <2>4. UNCHANGED <<page, shown, disk, swap, config>>
    BY <1>16 DEF FailedAnswer, Finally, selection, summary
  <2> QED BY <1>s, <2>2, <2>3, <2>4 DEF PatientInv
<1>17. ASSUME NEW i \in DOMAIN calls, RejectedAnswer(i), UNCHANGED setting
      PROVE  PatientInv'
  <2>1. /\ i = 1 /\ Len(calls) = 1 /\ calls[1].kind \in {"listen", "execute"}
    BY <1>17, <1>s, <1>0 DEF RejectedAnswer, Answerable, PatientInv
  <2>2. DOMAIN calls' = {} /\ Runs' = {} /\ Len(calls') <= 1
    BY <1>17, <2>1, AnswerShapes DEF Drops, Runs
  <2>3. page = Summary
    BY <1>17, <1>s, <2>1 DEF PatientInv, RunInv, OneRun, Runs, RunKind
  <2>4. UNCHANGED <<page, shown, disk, swap, config>>
    BY <1>17 DEF RejectedAnswer, Finally, selection, summary
  <2> QED BY <1>s, <2>2, <2>3, <2>4 DEF PatientInv
<1>18. ASSUME NEW i \in DOMAIN calls, FitAnswer(i), UNCHANGED setting
      PROVE  PatientInv'
  <2>1. /\ i = 1 /\ Len(calls) = 1 /\ calls[1].kind = "fit"
    BY <1>18, <1>s, <1>0 DEF FitAnswer, Answerable, PatientInv
  <2>2. DOMAIN calls' = {} /\ Runs' = {} /\ Len(calls') <= 1
    BY <1>18, <2>1, AnswerShapes DEF Drops, Runs
  <2>3. page = Summary
    BY <1>18, <1>s, <2>1 DEF PatientInv, RunInv, OneRun, Runs, RunKind
  <2>4. UNCHANGED <<page, shown, disk, swap, config>>
    BY <1>18 DEF FitAnswer, Finally, selection, summary
  <2> QED BY <1>s, <2>2, <2>3, <2>4 DEF PatientInv
<1>19. ASSUME NEW i \in DOMAIN calls, ServiceWrites(i), UNCHANGED setting
      PROVE  PatientInv'
  BY <1>19, <1>s DEF ServiceWrites, selection, summary, progress, PatientInv, Runs
<1>20. CASE UNCHANGED vars
  BY <1>20, <1>s DEF vars, PatientInv, Runs
<1> QED
  BY <1>1, <1>2, <1>3, <1>4, <1>5, <1>6, <1>7, <1>8, <1>9, <1>10, <1>11,
     <1>12, <1>13, <1>14, <1>15, <1>16, <1>17, <1>18, <1>19, <1>20
     DEF Next, Clicks, Answers, Answer, Writes


-----------------------------------------------------------------------------
(* The theorems.                                                           *)

Inv == Typing /\ RunInv /\ Budget /\ PlanInv /\ PatientInv

\* The page as it is loaded.
LEMMA InitInv == Init => Inv
<1> SUFFICES ASSUME Init PROVE Inv
  OBVIOUS
<1> DEFINE c == Call("discover", Selected, NoConfig, NoPlan)
<1>1. /\ c \in CallRec /\ c.kind = "discover"
  BY DEF Init, Selected, Call, CallRec, CallKind
<1> HIDE DEF c
<1>2. /\ calls = <<c>> /\ calls \in Seq(CallRec) /\ Len(calls) = 1
      /\ DOMAIN calls = {1} /\ calls[1].kind = "discover"
  BY <1>1 DEF Init, c
<1>3. Runs = {} /\ Planning = {}
  BY <1>2 DEF Runs, RunKind, Planning
<1>4. Typing
  <2>1. calls \in Seq(CallRec) /\ Len(calls) <= MaxCalls
    BY <1>2, BoundAssumption
  <2>2. page \in Nat /\ Form <= page
    BY DEF Init, Form
  <2> QED BY <2>1, <2>2 DEF Init, Typing
<1>5. RunInv
  BY <1>3 DEF Init, RunInv, OneRun
<1>6. Budget
  BY <1>2, BoundAssumption DEF Init, Budget, Form, Storage
<1>7. PlanInv
  BY <1>3 DEF Init, PlanInv
<1>8. PatientInv
  BY <1>2, <1>3 DEF Init, PatientInv, Form, Summary
<1> QED
  BY <1>4, <1>5, <1>6, <1>7, <1>8 DEF Inv

\* Every click, every answer and every write keeps it.
LEMMA NextInv == Inv /\ [Next]_vars => Inv'
<1> SUFFICES ASSUME Inv, [Next]_vars PROVE Inv'
  OBVIOUS
<1>1. Typing /\ RunInv /\ Budget /\ PlanInv /\ PatientInv
  BY DEF Inv
<1>2. Typing'
  BY <1>1, TypingStep
<1> QED
  BY <1>1, <1>2, RunStep, BudgetStep, PlanStep, PatientStep DEF Inv

\* The inductive invariant holds in every state of the wizard.
THEOREM Invariance == Spec => []Inv
BY InitInv, NextInv, PTL DEF Spec

\* Every variable of the page has the type the code gives it, and no click runs
\* further ahead than the calls that were answered: TypeOK.
THEOREM TypeCorrect == Spec => []TypeOK
<1>1. Inv => TypeOK
  <2> SUFFICES ASSUME Inv PROVE TypeOK
    OBVIOUS
  <2>1. Typing /\ RunInv /\ Budget
    BY DEF Inv
  <2>2. \A i \in DOMAIN calls : calls[i].kind \in CallKind
    <3> TAKE i \in DOMAIN calls
    <3>1. calls[i] \in CallRec
      BY <2>1 DEF Typing
    <3> QED BY <3>1 DEF CallRec
  <2>3. page \in Form..(Storage + MaxCalls)
    <3>1. /\ page \in Nat /\ Form <= page /\ Len(calls) \in Nat
          /\ MaxCalls \in Nat /\ DOMAIN calls = 1..Len(calls)
      BY <2>1, BoundAssumption DEF Typing
    <3>2. installing => Len(calls) >= 1
      BY <2>1, <3>1 DEF RunInv, OneRun, Runs
    <3> QED BY <2>1, <3>1, <3>2 DEF Budget, Form, Storage
  <2> QED BY <2>1, <2>2, <2>3 DEF Typing, TypeOK
<1> QED
  BY <1>1, Invariance, PTL

\* executeInstallation never runs twice, is under way exactly when the wizard is
\* locked, and sends nothing more after a verdict: OneRun.
THEOREM AtMostOneRun == Spec => []OneRun
<1>1. Inv => OneRun
  BY DEF Inv, RunInv
<1> QED
  BY <1>1, Invariance, PTL

\* The request carries a config that validate accepted, whatever was edited
\* after the summary was shown: SendsOnlyValidConfig.
THEOREM ValidConfigSent == Spec => []SendsOnlyValidConfig
<1>1. Inv => SendsOnlyValidConfig
  BY DEF Inv, RunInv, SendsOnlyValidConfig, Runs, RunKind
<1> QED
  BY <1>1, Invariance, PTL

\* The plan that executeInstallation reads after two awaits is the plan of the
\* choice it took before them, or none, while answers keep their order:
\* PlanMatchesChoice.
THEOREM PlanOfTheChoice == Spec => []PlanMatchesChoice
<1>1. Inv => PlanMatchesChoice
  BY DEF Inv, PlanInv, PlanMatchesChoice, Runs, RunKind
<1> QED
  BY <1>1, Invariance, PTL

\* For a user who waits for answers, the request is what the summary showed:
\* PatientSendsWhatWasShown.
THEOREM ShownIsSent == Spec => []PatientSendsWhatWasShown
<1>1. Inv => PatientSendsWhatWasShown
  <2> SUFFICES ASSUME Inv, setting.patient,
                      NEW i \in DOMAIN calls, calls[i].kind = "execute"
               PROVE  shown = <<calls[i].choice.disk, calls[i].choice.swap,
                                calls[i].config>>
    BY DEF PatientSendsWhatWasShown, SendsWhatWasShown
  <2>1. i \in Runs
    BY DEF Runs, RunKind
  <2>2. page = Summary /\ shown = <<disk, swap, config>> /\ calls[i].config = config
    BY <2>1 DEF Inv, RunInv, OneRun, PatientInv
  <2>3. calls[i].choice = [disk |-> disk, swap |-> swap]
    BY <2>1 DEF Inv, RunInv, Selected
  <2> QED BY <2>2, <2>3
<1> QED
  BY <1>1, Invariance, PTL

\* For that user the progress and the verdict stay on the screen:
\* OutcomeStaysVisible.
THEOREM OutcomeVisible == Spec => []OutcomeStaysVisible
<1>1. Inv => OutcomeStaysVisible
  BY DEF Inv, PatientInv, OutcomeStaysVisible
<1> QED
  BY <1>1, Invariance, PTL

=============================================================================
