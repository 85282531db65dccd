----------------------------- MODULE MCS3Files -----------------------------
(* Instances of S3Files for TLC.                                           *)
EXTENDS S3Files

\* Two directories, one of them with a directory in it.
TreePaths == { <<"d">>, <<"d", "e">>, <<"d", "e", "a">>, <<"e">>, <<"e", "a">> }
TreeFolders == { <<"d">>, <<"d", "e">>, <<"e">> }
OneDeep == { <<"d", "e", "a">> }
OneKept == { <<"d">> }
=============================================================================
