---------------------------- MODULE MCSecurityFix ----------------------------
(* Small instances of SecurityFix for TLC: two source packages, of which one *)
(* has two binaries, and the issues, machines and requests they may meet in. *)
EXTENDS SecurityFix

Src == {"s1", "s2"}
Bin == {"b1", "b2", "b3"}
BuiltFrom == [b \in Bin |-> IF b = "b3" THEN "s2" ELSE "s1"]

Notice(m, n, o) == [b \in Bin |-> CASE b = "b1" -> m [] b = "b2" -> n [] OTHER -> o]
Issue(one, other, notices) ==
    [found |-> TRUE, patched |-> FALSE, notices |-> notices,
     word |-> [s \in Src |-> IF s = "s1" THEN one ELSE other]]

Both == Issue("released", "released", {Notice(2, 2, 2)})
One == Issue("released", "not-affected", {Notice(2, 2, 0)})
Split == Issue("needed", "released", {Notice(1, 2, 1), Notice(2, 0, 2)})
Waiting == Issue("needed", "released", {Notice(0, 0, 2)})
Old == Issue("released", "needed", {Notice(1, 1, 1)})
Nowhere == Issue("not-affected", "not-affected", {})
Issues == {Both, One, Split, Waiting, Old, Nowhere,
           [Both EXCEPT !.patched = TRUE], [Both EXCEPT !.found = FALSE]}

\* What a request for one issue may be, or for several; a run without root changes nothing
\* and a dry run needs no root, so neither needs a second issue.
Single == [by : {"cli", "api"}, about : {"cve", "usn"}, dryRun : BOOLEAN, root : BOOLEAN,
           issues : {<<i>> : i \in Issues}]
Several == [by : {"cli", "api"}, about : {"usn"}, dryRun : {FALSE}, root : {TRUE},
            issues : {<<Both, One>>, <<Nowhere, Split>>, <<Old, [Both EXCEPT !.found = FALSE]>>}]
           \cup
           [by : {"api"}, about : {"cve"}, dryRun : {FALSE}, root : {TRUE},
            issues : {<<Both, Waiting>>, <<Waiting, Nowhere>>, <<Nowhere, One>>,
                      <<[Both EXCEPT !.found = FALSE], Nowhere>>}]
SmallRequests ==
    {r \in Single : /\ r.by = "api" => ~r.dryRun
                    /\ r.dryRun => r.root
                    /\ r.about = "usn" => ~r.issues[1].patched
                    /\ ~r.root \/ r.dryRun => r.issues \in {<<Both>>, <<Split>>}} \cup Several

In(one, other) == [s \in Src |-> IF s = "s1" THEN one ELSE other]
Layouts == {In("standard-updates", "esm-infra"), In("esm-infra", "esm-apps"),
            In("esm-infra", "standard-updates")}
SmallMachines ==
    {m \in [contract : Contracts, enabled : SUBSET Esm,
            version : {Notice(1, 1, 1), Notice(1, 0, 1)},
            standard : {Notice(1, 1, 1), Notice(2, 2, 1)}, esm : {Notice(1, 2, 2), Notice(2, 2, 2)},
            pocket : Layouts, seen : BOOLEAN, old : BOOLEAN] :
        /\ m.contract = "none" => m.enabled = {}
        /\ m.old => m.contract = "none" /\ ~m.seen
        /\ m.standard = Notice(2, 2, 1) => m.pocket # In("esm-infra", "esm-apps")
        /\ m.contract \notin {"none", "active"} =>
             m.enabled \in {{}, Esm} /\ m.seen /\ m.pocket = In("standard-updates", "esm-infra")
        /\ m.version = Notice(1, 0, 1) => m.pocket = In("standard-updates", "esm-infra")
        /\ \A b \in Bin : m.pocket[BuiltFrom[b]] \in Esm => m.esm[b] >= m.standard[b]
        /\ m.pocket["s1"] = "standard-updates" => m.esm = Notice(2, 2, 2)
        /\ m.contract = "active" => m.enabled # {"esm-apps"}
        /\ m.contract = "grace-period" => m.enabled = Esm}

ValidMachines == {m \in SmallMachines : m.contract # "none"}
AttachedMachines == {m \in SmallMachines : m.contract = "active"}

=============================================================================
