----------------------------- MODULE VmTables -----------------------------
(***************************************************************************)
(* What the exercises of the disposable parental VM change and put back:   *)
(* the test programs beside the evidence of parental-transitions,          *)
(* -password, -managers, -identity, -entries and -callbacks.  Each of them *)
(* asserts that its fixture is absent, remembers some originals, changes   *)
(* the machine step by step and undoes it in the rows of a finally clause. *)
(* An exercise is a record of those lists; VmExercise runs it.             *)
(*                                                                         *)
(* A thing is a part of the machine an exercise changes: a file or a group *)
(* of files written together, an account, a policy module, a mode, a       *)
(* service.  Tests that change nothing are steps that may only fail.       *)
(***************************************************************************)
EXTENDS Sequences

\* A step: does is changed when its command takes effect, mess is what it
\* may leave when it fails half way, flag is set only after its command has
\* returned, within is changed by the step and restored by a finally clause
\* of its own, undoes is put back.
Step == [does |-> {}, mess |-> {}, flag |-> "", within |-> {}, undoes |-> {}]
Does(things) == [Step EXCEPT !.does = things]
Flagged(things, flag) == [Step EXCEPT !.does = things, !.flag = flag]
Undoes(things) == [Step EXCEPT !.undoes = things]
Within(things, body) == [Step EXCEPT !.within = things, !.does = body]
Tests == Step

\* A row of the cleanup: undoes is put back if when is "always", a flag that
\* is set, or a condition on the machine; does is disturbed by it; fails says
\* whether its failure is recorded, or raises out of the finally clause.
Row == [undoes |-> {}, when |-> "always", does |-> {}, fails |-> {"recorded"}]
Restores(things) == [Row EXCEPT !.undoes = things]
Disturbs(things) == [Row EXCEPT !.does = things]
RestoresIf(things, flag) == [Row EXCEPT !.undoes = things, !.when = flag]
RaisesAlone(row) == [row EXCEPT !.fails = {"raises"}]
RestoresBare(things) == RaisesAlone(Restores(things))
Either(row) == [row EXCEPT !.fails = {"recorded", "raises"}]

----------------------------------------------------------------------------
(* parental-transitions: the gate with a test account of its own.          *)
TransitionsNeeds == {"module", "pam", "gate", "user", "group", "mode"}
TransitionsSetup ==
  <<Does({"module"}), Flagged({"group"}, "group"), Flagged({"user"}, "user"),
    Flagged({"mapping"}, "mapping"), Does({"gate"}), Does({"pam"}), Does({"mode"})>>
TransitionsTests ==
  <<Tests, Does({"helper-process"}), Undoes({"helper-process"}),
    Does({"unit"}), Undoes({"unit"}), Within({"primary-group"}, {})>>
TransitionsRows ==
  <<Restores({"helper-process"}), Restores({"unit"}), Restores({"mode"}),
    RestoresIf({"mapping"}, "mapping"), RestoresIf({"user", "primary-group"}, "user"),
    RestoresIf({"group"}, "group"), Restores({"pam"}), Restores({"module"}),
    Restores({"gate"})>>
TransitionsChecks == {"pam", "module", "gate", "user", "group"}

----------------------------------------------------------------------------
(* parental-password: GDM with a patched worker, real passwords.           *)
PasswordNeeds == {"mode", "gdm", "managers", "module", "gate", "backup", "session-program",
                  "worker", "policy"}
PasswordSaves == {"files", "label", "shadow"}
PasswordSetup ==
  <<Does({"backup"}), Does({"shadow"}), Does({"module"}), Does({"session-program"}),
    Does({"gate"}), Does({"files"}), Flagged({"policy"}, "policy"), Does({"label"}),
    Does({"worker"}), Does({"mode"})>>
\* start() rewrites the GDM configuration and runs a client it kills itself.
PasswordStart == Within({"client"}, {"files", "gdm", "managers"})
PasswordStop == Undoes({"gdm", "managers"})
PasswordTests ==
  <<PasswordStart, PasswordStop,
    Within({"set-aside"}, {"gdm", "managers"}), PasswordStart>>
PasswordRows ==
  <<Restores({"client"}), Restores({"gdm", "managers"}), Restores({"shadow"}),
    Restores({"mode"}), Disturbs({"accounts"}), Restores({"worker"}), Restores({"label"}),
    Restores({"files"}), Restores({"accounts"}), RestoresIf({"backup"}, "worker-intact"),
    Restores({"module"}), Restores({"session-program"}), Restores({"gate"}),
    RestoresIf({"policy"}, "policy")>>
PasswordChecks == {"worker", "label", "files", "shadow", "module", "session-program",
                   "gate", "backup"}

----------------------------------------------------------------------------
(* parental-managers, exercise-gdm.py: the same worker with autologin.     *)
GdmNeeds == {"mode", "gdm", "managers", "module", "gate", "backup", "session-program",
             "worker", "policy"}
GdmSaves == {"files", "label"}
GdmSetup ==
  <<Does({"backup"}), Does({"module"}), Does({"session-program"}), Does({"gate"}),
    Does({"files"}), Flagged({"policy"}, "policy"), Does({"label"}), Does({"worker"}),
    Does({"mode"})>>
GdmStart == Does({"files", "gdm", "managers"})
GdmStop == Undoes({"gdm", "managers"})
GdmTests ==
  <<GdmStart, GdmStop, Within({"set-aside"}, {"gdm", "managers"}), GdmStart, GdmStop>>
GdmRows ==
  <<Restores({"gdm", "managers"}), Restores({"mode"}), Disturbs({"accounts"}),
    Restores({"worker"}), Restores({"label"}), Restores({"files"}), Restores({"accounts"}),
    RestoresIf({"backup"}, "worker-intact"), Restores({"module"}),
    Restores({"session-program"}), Restores({"gate"}), RestoresIf({"policy"}, "policy")>>
GdmChecks == {"worker", "label", "files", "module", "session-program", "gate", "backup"}

----------------------------------------------------------------------------
(* parental-managers, exercise-systemd.py: the user manager's PAM stack.   *)
SystemdNeeds == {"mode", "managers", "module", "gate"}
SystemdSetup == <<Does({"module"}), Does({"gate"}), Does({"files"}), Does({"mode"})>>
SystemdStart == Does({"managers"})
SystemdStop == Undoes({"managers"})
SystemdTests ==
  <<SystemdStart, SystemdStop, Within({"set-aside"}, {"managers"}), SystemdStart>>
SystemdRows ==
  <<Restores({"managers"}), Restores({"mode"}), Restores({"files"}), Restores({"module"}),
    Restores({"gate"})>>
SystemdChecks == {"files", "module", "gate"}

----------------------------------------------------------------------------
(* parental-identity: the PAM bindings against drifting accounts.          *)
IdentityNeeds == {"module", "pam", "pam.new", "user", "group", "renamed", "permissive-domain"}
\* install() writes beside the file and replaces it.
IdentityInstall == [Does({"pam"}) EXCEPT !.mess = {"pam.new"}, !.undoes = {"pam.new"}]
\* change(): the command, then a test, then its inverse in a finally clause.
Change(thing) == Within({thing}, {})
IdentitySetup ==
  <<Does({"module"}), Flagged({"group"}, "group"), Flagged({"user"}, "user"),
    Flagged({"mapping"}, "mapping"), IdentityInstall, Does({"mode"})>>
IdentityTests ==
  <<Tests, Change("set-aside"), Change("permissive-domain"), Change("renamed"),
    Change("primary-group"), IdentityInstall>>
IdentityRows ==
  <<Restores({"mode"}), RestoresIf({"mapping"}, "mapping"),
    RestoresIf({"user", "primary-group"}, "user"), RestoresIf({"group"}, "group"),
    Restores({"pam"}), Restores({"module"})>>
IdentityChecks == {"pam", "module", "user", "renamed", "group", "mode"}

----------------------------------------------------------------------------
(* parental-entries: login and OpenSSH with accounts of their own.         *)
EntriesNeeds == {"private", "keys", "hostkey", "sshd.conf", "user", "group", "files", "mode"}
EntriesSetup ==
  <<Does({"sshd"}), Does({"private", "keys"}), Does({"hostkey"}),
    Flagged({"group"}, "group"), Flagged({"user"}, "user"), Does({"sshd.conf"}),
    Does({"mode"}), Flagged({"server"}, "server")>>
\* native_login() and tunnel() end what they started; remote() and sftp()
\* run to their end.
EntriesLogin == Within({"login"}, {})
EntriesRemote == Tests
EntriesTunnel == Within({"client"}, {})
EntriesPolicy == [Does({"files"}) EXCEPT !.mess = {"pam.new"}, !.undoes = {"pam.new"}]
EntriesTests ==
  <<EntriesLogin, EntriesRemote, Does({"tunnel"}), EntriesPolicy, Undoes({"tunnel"}),
    EntriesTunnel, Within({"primary-group"}, {}), Undoes({"files"}), EntriesRemote>>
EntriesRows ==
  <<Restores({"client", "tunnel"}), Either(Restores({})),
    Either(RestoresIf({"server"}, "server")), Restores({"mode"}),
    Restores({"files"}),
    Either(RestoresIf({"user", "primary-group"}, "user")),
    RestoresIf({"group"}, "group"), Restores({"sshd.conf", "hostkey"}),
    Restores({"private", "keys"})>>
EntriesChecks == {"files", "user"}

----------------------------------------------------------------------------
(* parental-callbacks: a trusted shell launcher.  The cleanup is straight   *)
(* code: the first failure ends it, and only its end prints "restored".     *)
CallbacksNeeds == {"generated"}
CallbacksSaves == {"files"}
CallbacksSetup ==
  <<Does({"gdm"}), Does({"directories"}), Does({"generated"})>>
CallbacksRelabel ==
  <<Flagged({"policy"}, "policy"), Does({"files"}), Does({"mode"})>>
CallbacksTests == <<Tests, Undoes({"mode"}), Does({"auditd"}), Does({"mode"}), Tests>>
CallbacksUnlinkFirst ==  \* mutant: the generated files go before the originals are back
  <<RestoresBare({"auditd"}), RestoresBare({}), RestoresBare({"managers"}),
    RestoresBare({"mode"}), RestoresBare({"generated"}), RestoresBare({"files"}),
    RestoresBare({"directories"}), RaisesAlone(RestoresIf({"policy"}, "policy"))>>
CallbacksRows ==
  <<RestoresBare({"auditd"}), RestoresBare({}), RestoresBare({"managers"}),
    RestoresBare({"mode"}), RestoresBare({"files"}), RestoresBare({"generated"}),
    RestoresBare({"directories"}), RaisesAlone(RestoresIf({"policy"}, "policy"))>>

(* parental-callbacks, session-exercise.py: the launcher in a session.     *)
SessionNeeds == {"generated"}
SessionSaves == {"files"}
SessionSetup == <<Does({"gdm"}), Does({"directories"}), Does({"generated"})>>
SessionRelabel == <<Flagged({"policy"}, "policy"), Does({"files"}), Does({"mode"})>>
SessionTests == <<Tests, Undoes({"mode"}), Does({"auditd"}), Does({"managers"})>>
SessionRows ==
  <<RestoresBare({}), RestoresBare({"managers"}), RestoresBare({"mode"}),
    RestoresBare({"auditd"}), RestoresBare({"files"}), RestoresBare({"generated"}),
    RestoresBare({"directories"}), RaisesAlone(RestoresIf({"policy"}, "policy"))>>

----------------------------------------------------------------------------
\* before: how many steps precede the try statement; forgets: what the
\* exercise changes and leaves changed on purpose.
Exercise(needs, saves, steps, before, rows, checks, forgets) ==
  [needs |-> needs, saves |-> saves, steps |-> steps, before |-> before, rows |-> rows,
   checks |-> checks, forgets |-> forgets]

Exercises ==
  [transitions |-> Exercise(TransitionsNeeds, {}, TransitionsSetup \o TransitionsTests, 0,
                            TransitionsRows, TransitionsChecks, {}),
   password |-> Exercise(PasswordNeeds, PasswordSaves, PasswordSetup \o PasswordTests, 1,
                         PasswordRows, PasswordChecks, {}),
   gdm |-> Exercise(GdmNeeds, GdmSaves, GdmSetup \o GdmTests, 1, GdmRows, GdmChecks, {}),
   systemd |-> Exercise(SystemdNeeds, {"files"}, SystemdSetup \o SystemdTests, 0,
                        SystemdRows, SystemdChecks, {}),
   identity |-> Exercise(IdentityNeeds, {"mode"}, IdentitySetup \o IdentityTests, 0,
                         IdentityRows, IdentityChecks, {}),
   entries |-> Exercise(EntriesNeeds, {}, EntriesSetup \o EntriesTests, 0, EntriesRows,
                        EntriesChecks, {"sshd"}),
   callbacks |-> Exercise(CallbacksNeeds, CallbacksSaves,
                          CallbacksSetup \o CallbacksRelabel \o CallbacksTests, 1,
                          CallbacksRows, {}, {"gdm", "mode"}),
   session |-> Exercise(SessionNeeds, SessionSaves,
                        SessionSetup \o SessionRelabel \o SessionTests, 1, SessionRows, {},
                        {"gdm", "mode"})]

\* The exercises that share their markers, so that one notices the remains
\* of another: a machine is used for one family.
Families == {{"transitions", "password", "gdm", "systemd"}, {"identity"}, {"entries"},
             {"callbacks", "session"}}
============================================================================
