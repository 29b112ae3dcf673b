----------------------------- MODULE MCServices -----------------------------
(* Small instances of Services for TLC: which services the contracts offer. *)
EXTENDS Services

\* The services around a kernel, two or three at a time, and the ones around ESM.
KernelWorlds ==
    { {"fips", "fips-updates", "livepatch"}, {"fips", "fips-updates", "realtime-kernel"},
      {"livepatch", "realtime-kernel"}, {"fips", "fips-updates", "fips-preview"} }
EsmWorlds == { {"esm-apps", "esm-infra", "ros", "ros-updates"} }
StillWorlds == KernelWorlds \cup EsmWorlds

\* What the contract, the release and the kernel change.
RosWorlds == { {"esm-apps", "esm-infra", "ros"} }
MoveWorlds == { {"fips", "livepatch"}, {"fips", "realtime-kernel"} } \cup RosWorlds
AllWorlds == StillWorlds \cup MoveWorlds

=============================================================================
