------------------------------- MODULE Wizard -------------------------------
(***************************************************************************)
(* The wizard's page script (ui/app.js): one JavaScript thread whose        *)
(* handlers stop at every `await invoke(...)` and go on when the answer     *)
(* arrives, with any number of clicks handled in between.  `calls` are the  *)
(* invocations still unanswered, in the order they were made.               *)
(*                                                                         *)
(* The synchronous commands of src-tauri run on one thread, so their        *)
(* answers come in order; execute_plan runs on a thread of its own and      *)
(* answers at any time.  `setting` says what a behaviour assumes: inOrder,  *)
(* or nothing about the order; patient, a user who waits for every answer   *)
(* before the next click, or one who does not; forms, what is typed in.    *)
(*                                                                         *)
(* Pages 0 to 4 (index.html numbers seven, 0..6) are one page here, Form:   *)
(* what they collect is the config.                                        *)
(***************************************************************************)
EXTENDS Naturals, Sequences, SequencesExt

CONSTANTS
  Disks,      \* eligible disks of the snapshot
  Swaps,      \* swap choices
  Plannable,  \* the choices PlanBuilder accepts for that snapshot
  Configs,    \* what the form can hold
  FormOk,     \* those the page's own validate() lets through
  ValidConfigs,  \* those InstallConfig::validate() accepts
  NoDisk, NoPlan, NoConfig,
  Settings,   \* of [inOrder, patient : BOOLEAN, forms : SUBSET Configs]
  MaxCalls    \* bound on the unanswered calls

ASSUME FormAssumption == FormOk \subseteq Configs /\ ValidConfigs \subseteq FormOk
ASSUME SettingsAssumption ==
  Settings \subseteq [inOrder : BOOLEAN, patient : BOOLEAN, forms : SUBSET Configs]
ASSUME BoundAssumption == MaxCalls \in Nat \ {0}

Choice == [disk : Disks, swap : Swaps]
ASSUME PlannableAssumption == Plannable \subseteq Choice

\* null is neither a path nor an object.
ASSUME NullAssumption ==
  /\ NoDisk \notin Disks
  /\ NoPlan \notin [disk : Disks \union {NoDisk}, swap : Swaps]

Form == 4      \* the last of the pages that collect the config
Storage == 5
Summary == 6

VARIABLES
  page,          \* current
  snapshot,      \* storageSnapshot has arrived
  disk, swap,    \* selectedDiskPath, swapChoice
  config,        \* what the form holds
  plan,          \* selectedPlan
  shown,         \* what updateSummary last wrote: <<disk, swap, config>>
  configValid,   \* summaryConfigValid
  confirmed,     \* installConfirm.checked
  canConfirm,    \* the checkbox is visible and enabled
  canInstall,    \* the Install button is visible and enabled
  installing,
  terminal,      \* installationTerminal
  calls,         \* invocations without an answer yet, oldest first
  written,       \* disks the service has written to
  setting        \* never changes

vars == <<page, snapshot, disk, swap, config, plan, shown, configValid,
          confirmed, canConfirm, canInstall, installing, terminal, calls,
          written, setting>>

selection == <<disk, swap, plan>>
summary   == <<shown, configValid, confirmed>>
buttons   == <<canConfirm, canInstall>>
progress  == <<installing, terminal>>

\* buildGuidedChoice
Selected == [disk |-> disk, swap |-> swap]

CallKind == {"discover", "plan", "summary", "precheck", "listen", "execute",
             "fit"}

\* The awaits of executeInstallation, in order.
RunKind == {"precheck", "listen", "execute", "fit"}

Call(kind, choice, conf, thePlan) ==
  [kind |-> kind, choice |-> choice, config |-> conf, plan |-> thePlan]

Init ==
  /\ page = Form
  /\ snapshot = FALSE
  /\ disk = NoDisk
  /\ swap \in Swaps
  /\ setting \in Settings
  /\ config \in setting.forms
  /\ plan = NoPlan
  /\ shown = <<NoDisk, swap, NoConfig>>
  /\ configValid = FALSE
  /\ confirmed = FALSE
  /\ canConfirm = FALSE
  /\ canInstall = FALSE
  /\ installing = FALSE
  /\ terminal = FALSE
  /\ calls = <<Call("discover", Selected, NoConfig, NoPlan)>>
  /\ written = {}

\* The user may act, and the handler may make one more call.
User == (setting.patient => calls = << >>) /\ Len(calls) < MaxCalls

Unlocked == ~installing /\ ~terminal

\* updateInstallButtonState: the controls are recomputed only where it is
\* called.
UpdateInstallButtonState ==
  /\ canConfirm' = (page' = Summary /\ configValid' /\ ~confirmed'
                      /\ ~installing' /\ ~terminal')
  /\ canInstall' = (page' = Summary /\ plan' # NoPlan /\ configValid'
                      /\ confirmed' /\ ~installing' /\ ~terminal')

\* show(index)
Show(index) ==
  /\ page' = index
  /\ UpdateInstallButtonState

-----------------------------------------------------------------------------
(* Moving between pages.                                                   *)

EditForm ==
  /\ User /\ page = Form
  /\ config' \in setting.forms \ {config}
  /\ UNCHANGED <<page, snapshot, selection, shown, configValid, confirmed,
                 buttons, progress, calls, written>>

NextFromForm ==
  /\ User /\ Unlocked /\ page = Form
  /\ config \in FormOk
  /\ UNCHANGED <<snapshot, selection, config, summary, progress, calls,
                 written>>
  /\ Show(Storage)

\* The part of updateSummary before its await.
RenderSummary ==
  /\ shown' = <<disk, swap, config>>
  /\ confirmed' = FALSE
  /\ configValid' = FALSE

\* Next on the storage page: the page changes only when the validation of the
\* summary answers.
NextFromStorage ==
  /\ User /\ Unlocked /\ page = Storage
  /\ plan # NoPlan
  /\ RenderSummary
  /\ calls' = Append(calls, Call("summary", Selected, config, NoPlan))
  /\ UNCHANGED <<page, snapshot, selection, config, buttons, progress,
                 written>>

\* Mutant: Back does not look at the lock.
BackClickUnguarded ==
  /\ User /\ page > Form
  /\ UNCHANGED <<snapshot, selection, config, summary, progress, calls,
                 written>>
  /\ Show(page - 1)

BackClick ==
  /\ User /\ Unlocked /\ page > Form
  /\ UNCHANGED <<snapshot, selection, config, summary, progress, calls,
                 written>>
  /\ Show(page - 1)

\* Mutant: the step buttons reach one page further.
StepClickAhead ==
  /\ User /\ Unlocked
  /\ UNCHANGED <<snapshot, selection, config, summary, progress, calls,
                 written>>
  /\ \E index \in {Form, Storage, Summary} :
       index <= page + 1 /\ Show(index)

\* A step button leads back, or to where the wizard is.
StepClick ==
  /\ User /\ Unlocked
  /\ UNCHANGED <<snapshot, selection, config, summary, progress, calls,
                 written>>
  /\ \E index \in {Form, Storage, Summary} : index <= page /\ Show(index)

-----------------------------------------------------------------------------
(* The storage page.                                                       *)

\* refreshPlan up to its await: no plan until one answers.
RefreshPlan(choice) ==
  /\ plan' = NoPlan
  /\ calls' = IF choice.disk = NoDisk
                THEN calls
                ELSE Append(calls, Call("plan", choice, NoConfig, NoPlan))

SelectDisk ==
  /\ User /\ page = Storage /\ snapshot
  /\ \E d \in Disks \ {disk} :
       /\ disk' = d
       /\ RefreshPlan([disk |-> d, swap |-> swap])
  /\ UNCHANGED <<page, snapshot, swap, config, summary, buttons, progress,
                 written>>

SelectSwap ==
  /\ User /\ page = Storage
  /\ \E s \in Swaps \ {swap} :
       /\ swap' = s
       /\ RefreshPlan([disk |-> disk, swap |-> s])
  /\ UNCHANGED <<page, snapshot, disk, config, summary, buttons, progress,
                 written>>

-----------------------------------------------------------------------------
(* The summary page.                                                       *)

Tick ==
  /\ User /\ canConfirm
  /\ confirmed' = TRUE
  /\ UNCHANGED <<page, snapshot, selection, config, shown, configValid,
                 progress, calls, written>>
  /\ UpdateInstallButtonState

\* What executeInstallation checks for itself, whatever the button says.
MayInstall == /\ disk # NoDisk /\ plan # NoPlan
              /\ configValid /\ confirmed
              /\ Unlocked

\* Mutant: locked only once the service is started.
ClickInstallLate ==
  /\ User /\ canInstall /\ MayInstall
  /\ calls' = Append(calls, Call("precheck", Selected, config, NoPlan))
  /\ UNCHANGED <<page, snapshot, selection, config, summary, progress, buttons,
                 written>>

\* Mutant: the configuration is not validated again, the request goes at once.
ClickInstallUnchecked ==
  /\ User /\ canInstall /\ MayInstall
  /\ installing' = TRUE
  /\ calls' = Append(calls, Call("execute", Selected, config, plan))
  /\ UNCHANGED <<page, snapshot, selection, config, summary, terminal,
                 written>>
  /\ UpdateInstallButtonState

\* executeInstallation up to its first await; choice and config are taken now.
ClickInstall ==
  /\ User /\ canInstall /\ MayInstall
  /\ installing' = TRUE
  /\ calls' = Append(calls, Call("precheck", Selected, config, NoPlan))
  /\ UNCHANGED <<page, snapshot, selection, config, summary, terminal,
                 written>>
  /\ UpdateInstallButtonState

-----------------------------------------------------------------------------
(* Answers.                                                                *)

\* Call i may be answered: execute_plan always, another command when nothing
\* older waits for the same thread.
Answerable(i, kind) ==
  /\ calls[i].kind = kind
  /\ \/ kind = "execute" \/ ~setting.inOrder
     \/ \A j \in 1..(i - 1) : calls[j].kind = "execute"

DiscoverAnswer(i) ==
  /\ Answerable(i, "discover")
  /\ snapshot' \in BOOLEAN
  /\ calls' = RemoveAt(calls, i)
  /\ UNCHANGED <<page, selection, config, summary, buttons, progress, written>>

PlanAnswer(i) ==
  /\ Answerable(i, "plan")
  /\ plan' = IF calls[i].choice \in Plannable THEN calls[i].choice ELSE NoPlan
  /\ calls' = RemoveAt(calls, i)
  /\ UNCHANGED <<page, snapshot, disk, swap, config, summary, buttons,
                 progress, written>>

\* The rest of updateSummary, and of the Next handler: one page on from the
\* page that is current by now.
SummaryAnswer(i) ==
  /\ Answerable(i, "summary")
  /\ configValid' = (calls[i].config \in ValidConfigs)
  /\ calls' = RemoveAt(calls, i)
  /\ UNCHANGED <<snapshot, selection, config, shown, confirmed, progress,
                 written>>
  /\ Show(page + 1)

\* executeInstallation's finally.
Finally ==
  /\ installing' = FALSE
  /\ UNCHANGED <<page, snapshot, selection, config, summary, written>>
  /\ UpdateInstallButtonState

\* Mutant: whatever the first await answers, the run goes on.
PrecheckIgnored(i) ==
  /\ Answerable(i, "precheck")
  /\ calls' = Append(RemoveAt(calls, i), [calls[i] EXCEPT !.kind = "listen"])
  /\ UNCHANGED <<page, snapshot, selection, config, summary, buttons,
                 progress, written>>

PrecheckAnswer(i) ==
  /\ Answerable(i, "precheck")
  /\ \/ /\ calls[i].config \in ValidConfigs
        /\ calls' = Append(RemoveAt(calls, i),
                           [calls[i] EXCEPT !.kind = "listen"])
        /\ UNCHANGED <<page, snapshot, selection, config, summary, buttons,
                       progress, written>>
     \/ /\ calls[i].config \notin ValidConfigs
        /\ calls' = RemoveAt(calls, i)
        /\ UNCHANGED terminal
        /\ Finally

\* The request is put together here: the choice and config of the click, the
\* plan of this moment.
ListenAnswer(i) ==
  /\ Answerable(i, "listen")
  /\ calls' = Append(RemoveAt(calls, i),
                     [calls[i] EXCEPT !.kind = "execute", !.plan = plan])
  /\ UNCHANGED <<page, snapshot, selection, config, summary, buttons,
                 progress, written>>

\* The service, which the user has authorized, passes the point of its first
\* write.  It does so only for a plan that is the plan of the choice.
ServiceWrites(i) ==
  /\ calls[i].kind = "execute"
  /\ calls[i].plan = calls[i].choice
  /\ written' = written \union {calls[i].choice.disk}
  /\ UNCHANGED <<page, snapshot, selection, config, summary, buttons,
                 progress, calls>>

\* An event list with Completed: terminal, and one more await before finally.
CompletedAnswer(i) ==
  /\ Answerable(i, "execute")
  /\ calls[i].choice.disk \in written /\ calls[i].plan = calls[i].choice
  /\ terminal' = TRUE
  /\ calls' = Append(RemoveAt(calls, i), [calls[i] EXCEPT !.kind = "fit"])
  /\ UNCHANGED <<page, snapshot, selection, config, summary, buttons,
                 installing, written>>

\* An event list with Failed.  A null plan never gets that far.
FailedAnswer(i) ==
  /\ Answerable(i, "execute")
  /\ calls[i].plan # NoPlan
  /\ terminal' = TRUE
  /\ calls' = RemoveAt(calls, i)
  /\ Finally

\* Mutant: the rejected run leaves the wizard locked.
RejectedKeepsLock(i) ==
  /\ Answerable(i, "listen") \/ Answerable(i, "execute")
  /\ calls' = RemoveAt(calls, i)
  /\ UNCHANGED <<page, snapshot, selection, config, summary, buttons,
                 progress, written>>

\* listen is refused; or execute_plan answers with an error: authorization
\* dismissed, no pkexec, a request that does not parse, or a service that ended
\* without an event.
RejectedAnswer(i) ==
  /\ Answerable(i, "listen") \/ Answerable(i, "execute")
  /\ calls' = RemoveAt(calls, i)
  /\ UNCHANGED terminal
  /\ Finally

FitAnswer(i) ==
  /\ Answerable(i, "fit")
  /\ calls' = RemoveAt(calls, i)
  /\ UNCHANGED terminal
  /\ Finally

Answer(i) ==
  \/ DiscoverAnswer(i) \/ PlanAnswer(i) \/ SummaryAnswer(i)
  \/ PrecheckAnswer(i) \/ ListenAnswer(i)
  \/ CompletedAnswer(i) \/ FailedAnswer(i) \/ RejectedAnswer(i)
  \/ FitAnswer(i)

Answers == \E i \in DOMAIN calls : Answer(i)

Writes == \E i \in DOMAIN calls : ServiceWrites(i)

Clicks == \/ EditForm \/ NextFromForm \/ NextFromStorage \/ BackClick
          \/ StepClick \/ SelectDisk \/ SelectSwap \/ Tick \/ ClickInstall

Next == (Clicks \/ Answers \/ Writes) /\ UNCHANGED setting

Spec == Init /\ [][Next]_vars

\* Every command returns, and the page's thread goes on with its answer.
FairSpec == Spec /\ WF_vars(Answers /\ UNCHANGED setting)

-----------------------------------------------------------------------------
(* Properties.                                                             *)

Runs == {i \in DOMAIN calls : calls[i].kind \in RunKind}

TypeOK ==
  /\ page \in Form..(Storage + MaxCalls)
  /\ snapshot \in BOOLEAN
  /\ disk \in Disks \union {NoDisk}
  /\ swap \in Swaps
  /\ setting \in Settings
  /\ config \in setting.forms
  /\ plan \in Plannable \union {NoPlan}
  /\ shown \in (Disks \union {NoDisk}) \X Swaps \X (Configs \union {NoConfig})
  /\ \A b \in {configValid, confirmed, canConfirm, canInstall, installing,
               terminal} : b \in BOOLEAN
  /\ \A i \in DOMAIN calls : calls[i].kind \in CallKind
  /\ Len(calls) <= MaxCalls
  /\ written \subseteq Disks

\* However clicks and answers interleave, one installation is under way when
\* the wizard says so and none otherwise, and after a verdict no request is
\* sent again (the installing and installationTerminal guards of app.js).
OneRun ==
  /\ \A i, j \in Runs : i = j
  /\ installing <=> Runs # {}
  /\ terminal => \A i \in Runs : calls[i].kind = "fit"

\* Whatever the user edited since the summary was validated, the config that is
\* sent is one that InstallConfig::validate accepted.
SendsOnlyValidConfig ==
  \A i \in DOMAIN calls :
    calls[i].kind = "execute" => calls[i].config \in ValidConfigs

\* The plan is read after two awaits, the choice before them.  As long as
\* answers keep their order the request still carries the plan of its choice,
\* so the service never refuses it as stale on the wizard's account.
PlanMatchesChoice ==
  setting.inOrder =>
    \A i \in DOMAIN calls :
      calls[i].kind = "execute" => calls[i].plan \in {calls[i].choice, NoPlan}

\* What is sent to the service is what the summary page showed when the user
\* confirmed it (protocol.rs: "exactly what the user confirmed on screen").
SendsWhatWasShown ==
  \A i \in DOMAIN calls :
    calls[i].kind = "execute" =>
      shown = <<calls[i].choice.disk, calls[i].choice.swap, calls[i].config>>

\* It is for a user who waits for the answers.
PatientSendsWhatWasShown == setting.patient => SendsWhatWasShown

\* Progress, verdict and the restart button are on the summary page: once an
\* installation has begun the wizard stays there, for a user who waits.
OutcomeStaysVisible ==
  setting.patient /\ (installing \/ terminal) => page = Summary

\* A run that wrote to a disk and is over is not offered again
\* (installer-state-machine.md: a failure after the first write is terminal).
NoRetryAfterWrite == written # {} /\ ~installing => terminal

\* An installation that was started gives the wizard back.
RunEnds == installing ~> ~installing
=============================================================================
