-------------------------- MODULE MCImportCommit --------------------------
(* Small instances of ImportCommit for TLC.                                *)
EXTENDS ImportCommit

CONSTANTS a, b, s, x

(* Two packages share the asset s, and x comes after it in the first.      *)
SharedAsset == << <<a, s, x>>, <<b, s>> >>
MCPath == {a, b, s, x}
=============================================================================
