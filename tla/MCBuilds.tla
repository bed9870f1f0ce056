------------------------------ MODULE MCBuilds ------------------------------
(***************************************************************************)
(* Builds of a directory with main.tsr and app.tsr, called app: bin/app is *)
(* a program in one layout and a folder in the other.                      *)
(***************************************************************************)
EXTENDS Builds

\* The template with its header uncommented, and with a dependency written.
PlainManifests == {<<"package", "deps", "serde">>, <<"package", "dev", "other">>}

=============================================================================
