-------------------------- MODULE MCInstallation --------------------------
(* Instances of Installation for TLC.                                      *)
EXTENDS Installation, TLC

CONSTANTS p1, p2, p3

\* A setup of each binding, and acquisitions that contend for its outputs.
MCJobs ==
  {[kind |-> "setup", native |-> p1, data |-> p2, gener |-> TRUE,
    binding |-> "deno"],
   [kind |-> "setup", native |-> p3, data |-> p2, gener |-> TRUE,
    binding |-> "node"],
   [kind |-> "data", native |-> p1, data |-> p1, gener |-> FALSE,
    binding |-> "deno"],
   [kind |-> "native", native |-> p1, data |-> p1, gener |-> FALSE,
    binding |-> "node"]}
MCSymmetry == Permutations(Installers)
=============================================================================
