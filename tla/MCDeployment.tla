----------------------------- MODULE MCDeployment -----------------------------
(***************************************************************************)
(* Instances of Deployment for TLC.                                        *)
(***************************************************************************)
EXTENDS Deployment, TLC

CONSTANTS h1, h2, c1, c2, v1, v2

\* c1 runs on both releases, c2 on the new one only.
MCAccepts == {<<v1, c1>>, <<v2, c1>>, <<v2, c2>>}

\* Bound: between a meeting of two scripts and the push that makes good for it,
\* no certificate expires or is renewed.
CertificateBound ==
  mixed => /\ due' = due
           /\ \A h \in Handlers : op'[h].pc = "read" => op[h].pc = "read"

Some(pcs) == \E h \in Handlers : op[h].pc \in pcs

\* States that differ only in what nobody will read are one: the temporary file
\* and the backup are truncated before they are read, bin.new and bin.previous
\* written, and what was answered to a push that is over is only remembered.
View ==
  <<config, bin, unit, tls, service, op, mixed, cut,
    IF Some({"writing", "check", "backup", "keeping", "copy", "copying"})
      THEN tmp ELSE None,
    IF Some({"keeping", "copy", "copying", "restart", "restore", "restoring"})
      THEN backup ELSE None,
    IF Some({"swap"}) THEN staged ELSE None,
    IF Some({"swap", "restartNew", "probe", "undo"}) THEN previous ELSE None,
    IF report.config = None /\ ~Met THEN None ELSE report>>

Symmetry == Permutations(Handlers)
=============================================================================
