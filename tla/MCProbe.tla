------------------------------ MODULE MCProbe ------------------------------
(***************************************************************************)
(* Small sizes for Probe.tla.                                              *)
(***************************************************************************)
EXTENDS Probe

SmallLadder == <<96, 60>>

OneAddress == [ip |-> <<10, 9, 8, 7>>, port |-> 19132]
AllAddresses == [ip |-> [k \in 1 .. 16 |-> 0], port |-> 19132]   \* IPv6: has no layout

Setup(program, version, path, local) ==
  [program |-> program, version |-> version, path |-> path, local |-> local]

\* Every rung of the ladder is the largest the path lets through, once.
FewSetups ==
  {Setup("ping", 11, 100, OneAddress), Setup("connect", 10, 100, OneAddress),
   Setup("connect", 11, 100, OneAddress), Setup("connect", 11, 64, AllAddresses)}

\* A batch larger than a fragment on all but the widest path; no two bytes next
\* to each other are alike.
Batch == [k \in 1 .. 70 |-> IF k = 1 THEN 254 ELSE 128 + k]
=============================================================================
