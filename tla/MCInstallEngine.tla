-------------------------- MODULE MCInstallEngine --------------------------
(* Model constants for InstallEngine.                                      *)
EXTENDS InstallEngine

\* An operation without undo first and last, two mounts in between, as in
\* every real plan (partition table ... mounts ... sync).
MCHasUndo == {2, 3}
=============================================================================
