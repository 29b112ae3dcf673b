------------------------------ MODULE MCReports ------------------------------
(* Small instances of the reports on packages, on security issues and on livepatch.  They
   share no variable: each behaviour is one of one of them, and the others stand still. *)
EXTENDS PackageReports, CveReport, LivepatchReport

VARIABLE scene

\* One package of main, one of universe.
Areas == [p \in Packages |-> IF p = "core" THEN "esm-infra" ELSE "esm-apps"]

\* Fixed in the binary package too, fixed in a source that no longer builds it, not fixed.
Fact(v, s, b) == [source_fixed |-> v, status |-> s, listed |-> v # None, bin_fixed |-> b]
Data == [ fixed   |-> Fact(2, "fixed", 2),
          dropped |-> Fact(1, "fixed", None),
          open    |-> Fact(None, "vulnerable", None) ]

Init ==
    /\ scene \in {"packages", "cves", "livepatch"}
    /\ ReportInit /\ CveInit /\ LivepatchInit
    /\ pinned = IF release = "lts" THEN {"extra"} ELSE {}
    /\ machine.entitled \in CASE release = "interim" -> {{}}
                             [] release = "lts" -> {{}, {"esm-apps"}}
                             [] release = "esm" -> {Services}
    /\ available \in CASE release = "interim" -> {{}}
                       [] release = "lts" -> {Services} \cup {machine.entitled}
                       [] release = "esm" -> {Services}
    /\ scene # "packages" => release = "lts" /\ machine.entitled = {} /\ ~machine.attached
                           /\ available = Services
    /\ scene # "cves" => served = "open" /\ dpkg = 0
    /\ scene # "livepatch" => kernel = CHOOSE k \in Kernels : TRUE

Next ==
    /\ UNCHANGED scene
    /\ \/ scene = "packages" /\ ReportNext /\ UNCHANGED <<cveVars, livepatchVars>>
       \/ scene = "cves" /\ CveNext /\ UNCHANGED <<reportVars, livepatchVars>>
       \/ scene = "livepatch" /\ LivepatchNext /\ UNCHANGED <<reportVars, cveVars>>

Spec == Init /\ [][Next]_<<scene, reportVars, cveVars, livepatchVars>>

\* Nothing is promised once a run was disturbed where its answer can go wrong, or while an
\* inquiry is put together.
Undisturbed == ~window /\ inquiry.steady

=============================================================================
