------------------------------ MODULE SecurityFix ------------------------------
(***************************************************************************)
(* pro fix, and the API's fix.cve and fix.usn: a plan is computed for      *)
(* every issue of the request, and the plans are then executed one after   *)
(* the other, by the command (cli/fix.py), which attaches and enables what *)
(* the user agrees to, or by the API (_common/execute), which only         *)
(* upgrades.  Everything is planned before anything is executed, and other *)
(* processes may attach or detach the machine, and enable or disable its   *)
(* services, at any time; nobody else installs or removes packages.        *)
(*                                                                         *)
(* The steps of a plan come in a fixed order: what has no fix yet, then    *)
(* for each pocket the packages whose fix cannot be installed, an attach,  *)
(* an enable and an upgrade.  A plan is therefore a record with one part   *)
(* per pocket, and the order is that of the stages below.                  *)
(***************************************************************************)
EXTENDS Naturals, Sequences

CONSTANTS
    Sources,   \* source packages
    Binaries,  \* binary packages
    SourceOf,  \* the source package each is built from
    Requests,  \* what may be asked for: see RequestType
    Machines,  \* the machines it may be asked on: see MachineType
    MaxOthers  \* bound: how often another process changes the subscription

Esm == {"esm-infra", "esm-apps"}
Pockets == {"standard-updates"} \cup Esm
Contracts == {"none", "active", "active-soon-to-expire", "grace-period", "expired"}
Words == {"not-affected", "released", "needed", "deferred"}

\* What the security server says of an issue: the word of a CVE on each source package, and
\* in each of its notices the version of each binary that has the fix (0: not mentioned).
IssueType == [found : BOOLEAN, patched : BOOLEAN, word : [Sources -> Words],
              notices : SUBSET [Binaries -> Nat]]
RequestType == [by : {"cli", "api"}, about : {"cve", "usn"}, dryRun : BOOLEAN,
                root : BOOLEAN, issues : Seq(IssueType)]

\* A machine: contract, enabled services, installed versions (0: not installed); what the
\* archive and ESM offer, and the pocket that has the fix of each source package; whether
\* the local ESM cache shows ESM's versions, and whether apt's lists are older than two days.
MachineType == [contract : Contracts, enabled : SUBSET Esm, version : [Binaries -> Nat],
                standard : [Binaries -> Nat], esm : [Binaries -> Nat],
                pocket : [Sources -> Pockets], seen : BOOLEAN, old : BOOLEAN]

ASSUME SourceAssumption == SourceOf \in [Binaries -> Sources]
\* The API has no dry run.  Of the notices that name a package, which are finitely many, one
\* asks for the largest version.
ASSUME RequestsAssumption ==
    \A r \in Requests :
        /\ r \in RequestType /\ r.issues # <<>> /\ (r.by = "api" => ~r.dryRun)
        /\ \A i \in DOMAIN r.issues, b \in Binaries :
             \E top \in {0} \cup {n[b] : n \in r.issues[i].notices} :
                 \A n \in r.issues[i].notices : top >= n[b]

ASSUME OthersAssumption == MaxOthers \in Nat

\* _enabled_services: an unattached machine has none.
ASSUME MachinesAssumption ==
    \A m \in Machines : m \in MachineType /\ (m.contract = "none" => m.enabled = {})

VARIABLES
    request,   \* the request being served
    machine,   \* what does not change of the machine
    contract,  \* is_attached and contract_status
    enabled,   \* the ESM services that are enabled
    version,   \* the installed version of each binary package
    seen,      \* whether the local ESM cache shows ESM's versions
    others,    \* how often another process has changed contract or enabled
    withdrawn, \* history: the services that another process has taken away
    plans,     \* the plan of each issue, as far as they are made
    current,   \* the issue whose plan is being executed
    stage,     \* which step of the plan is next
    pocket,    \* of which pocket
    status,    \* fix_status of the command, status of the API's context
    unfixed,   \* unfixed_pkgs of the command, errors of the API
    needs,     \* require_attach and require_enable of the API's context
    overall,   \* what is reported of the issues dealt with so far
    failed     \* history: a step of the command failed or was declined

ask == <<request, machine, plans, seen>>
host == <<contract, enabled, version>>
elsewhere == <<others, withdrawn>>
context == <<status, unfixed, needs, failed>>
fixVars == <<ask, host, elsewhere, current, stage, pocket, context, overall>>

Stages == {"plan", "warnings", "stuck", "attach", "enable", "upgrade", "finish", "end", "raise"}
Statuses == {"fixed", "not-affected", "still-affected", "affected-until-reboot", "error"}
Good == {"fixed", "not-affected"}

-----------------------------------------------------------------------------
(* The plan of an issue. *)

Larger(m, n) == IF m >= n THEN m ELSE n

\* merge_usn_released_binary_package_versions: the largest version any notice asks for.
Fixing(issue, b) ==
    LET asked == {n[b] : n \in issue.notices}
    IN  IF asked = {} THEN 0 ELSE CHOOSE v \in asked : \A w \in asked : v >= w
Noticed(issue, s) == \E b \in Binaries : SourceOf[b] = s /\ Fixing(issue, b) > 0
Installed(s) == \E b \in Binaries : SourceOf[b] = s /\ version[b] > 0

\* get_cve_affected_source_packages_status, get_affected_packages_from_usn.
Affected(issue) ==
    {s \in Sources : Installed(s) /\ IF request.about = "cve" THEN issue.word[s] # "not-affected"
                                     ELSE Noticed(issue, s)}

\* group_by_usn_package_status: a package that a notice releases is released.
Released(issue) == {s \in Affected(issue) : Noticed(issue, s) \/ issue.word[s] = "released"}

\* _get_upgradable_package_candidates_by_pocket.
PackagesIn(issue, p) == {s \in Released(issue) : machine.pocket[s] = p}
Outdated(issue, p) == {b \in Binaries : /\ SourceOf[b] \in PackagesIn(issue, p)
                                        /\ version[b] > 0 /\ Fixing(issue, b) > version[b]}

\* apt's candidate: what the archive offers, and ESM if its service is on.
Offered(b) == IF machine.pocket[SourceOf[b]] \in enabled
              THEN Larger(machine.standard[b], machine.esm[b]) ELSE machine.standard[b]

\* get_pkg_candidate_version, with check_esm_cache for the ESM pockets only.
Candidate(b, p, shown) == IF p \in Esm /\ shown THEN Larger(Offered(b), machine.esm[b])
                          ELSE Offered(b)

\* _get_upgradable_pkgs.
Upgradable(issue, p, shown) ==
    {b \in Outdated(issue, p) : /\ Candidate(b, p, shown) > 0
                                /\ Fixing(issue, b) <= Candidate(b, p, shown)}

\* One pocket's part of _generate_fix_plan.
Part(issue, p, shown) ==
    [packages |-> PackagesIn(issue, p), outdated |-> Outdated(issue, p),
     upgrade |-> Upgradable(issue, p, shown),
     attach |-> IF p \notin Esm \/ contract = "active" THEN "no"
                ELSE IF contract = "none" THEN "required" ELSE "expired",
     enable |-> p \in Esm /\ p \notin enabled]

\* _get_usn_data fetches the notices that are related to the one asked for as well, and an
\* error of any of them is the error of the plan.
Unknown(i) == \E j \in IF request.about = "usn" THEN DOMAIN request.issues ELSE {i} :
                  ~request.issues[j].found

\* _fix_plan_cve, _fix_plan_usn: an issue that livepatch has patched, that the server does
\* not know, or that no installed package has, is a plan with no parts.
Kind(i) == IF request.issues[i].patched /\ request.about = "cve" THEN "patched"
           ELSE IF Unknown(i) THEN "error"
           ELSE IF Affected(request.issues[i]) = {} THEN "not-affected" ELSE "steps"

\* warned: of the ESM cache that could not be updated.
PlanOf(i, shown, warned) ==
    LET issue == request.issues[i]
    IN  [kind |-> Kind(i), warned |-> warned,
         notFixed |-> Affected(issue) \ Released(issue),
         part |-> [p \in Pockets |-> Part(issue, p, shown[p])]]

\* _should_update_esm_cache: on an unattached machine with old lists the plan updates the
\* cache at its first ESM pocket with something to upgrade, and if that fails at the next.
Updates(i, p) ==
    /\ p \in Esm /\ contract = "none" /\ machine.old
    /\ Kind(i) = "steps" /\ Outdated(request.issues[i], p) # {}

\* AttachData.from_dict objects to an attach step without required_service, which is what
\* _generate_fix_plan gives for a contract that is not "active".
Raises(made) == made.kind = "steps" /\ \E p \in Esm :
                    made.part[p].outdated # {} /\ made.part[p].attach = "expired"

-----------------------------------------------------------------------------

FixInit ==
    /\ request \in Requests /\ machine \in Machines
    /\ contract = machine.contract /\ enabled = machine.enabled /\ version = machine.version
    /\ seen = machine.seen /\ others = 0 /\ withdrawn = {}
    /\ plans = <<>> /\ current = 1 /\ overall = "not-affected"
    /\ stage = "plan" /\ pocket = "standard-updates"
    /\ status = "fixed" /\ unfixed = {} /\ needs = FALSE /\ failed = FALSE

\* _plan: an issue after the other, each with the cache as the last one left it.  The cache
\* is updated at most once, at one of the ESM pockets, and need not show ESM's versions then.
\* A notice in error has no related plans; the command raises the error of its issue.
MakePlan ==
    /\ stage = "plan"
    /\ LET next == Len(plans) + 1
       IN  \E at \in Esm \cup {"never"}, fresh \in BOOLEAN :
             /\ at # "never" => Updates(next, at)
             /\ at = "never" => fresh = seen
             /\ LET shown == [p \in Pockets |-> IF at \in {"esm-infra", p} THEN fresh ELSE seen]
                    warned == \E p \in Pockets : Updates(next, p) /\ at \notin {"esm-infra", p}
                    made == PlanOf(next, shown, warned)
                IN  /\ seen' = fresh /\ plans' = Append(plans, made)
                    /\ stage' = IF Raises(made) \/ (request.by = "cli" /\ made.kind = "error")
                                THEN "raise"
                                ELSE IF \/ next = Len(request.issues)
                                        \/ request.about = "usn" /\ made.kind = "error"
                                THEN "warnings" ELSE "plan"
    /\ UNCHANGED <<request, machine, host, elsewhere, current, pocket, context, overall>>

plan == plans[current]
part == plan.part[pocket]
Goto(place) == stage' = place /\ pocket' = pocket
Settle(word) == status' = word /\ UNCHANGED <<unfixed, needs, failed>>
Keep == UNCHANGED <<ask, elsewhere, current, overall>>

\* To the next pocket, or to the end of the plan.
Advance ==
    /\ pocket' = CASE pocket = "standard-updates" -> "esm-infra"
                   [] pocket = "esm-infra" -> "esm-apps"
                   [] OTHER -> pocket
    /\ stage' = IF pocket = "esm-apps" THEN "finish" ELSE "stuck"

\* The packages stay unfixed; the command gives up, the API goes on.
Fail(packages, word) ==
    /\ status' = word /\ unfixed' = unfixed \cup packages /\ failed' = TRUE
    /\ needs' = needs
    /\ IF request.by = "cli" THEN Goto("finish") ELSE Advance

\* _handle_package_cannot_be_installed concerns the source packages of these.
StuckIn(p) == {SourceOf[b] : b \in plan.part[p].outdated \ plan.part[p].upgrade}
Unfix(packages) ==
    /\ unfixed' = unfixed \cup packages
    /\ status' = IF packages = {} THEN status ELSE "still-affected"
    /\ UNCHANGED <<needs, failed>>

\* What comes before the pockets: an error, the no-op steps, the packages that have no fix.
\* The API takes all warnings of the plan before its steps.
Warnings ==
    /\ stage = "warnings"
    /\ CASE plan.kind = "error" -> Settle("error") /\ Goto("finish")
         [] plan.kind = "not-affected" -> Settle("not-affected") /\ Goto("finish")
         [] plan.kind = "patched" -> UNCHANGED context /\ Goto("finish")
         [] OTHER -> /\ Goto("stuck")
                     /\ Unfix(plan.notFixed \cup IF request.by = "cli" THEN {}
                                                 ELSE UNION {StuckIn(p) : p \in Pockets})
    /\ Keep /\ UNCHANGED host

\* _execute_package_cannot_be_installed_step; a pocket with nothing to do is done.
Stuck ==
    /\ stage = "stuck"
    /\ IF part.outdated = {} THEN Advance /\ UNCHANGED context
       ELSE Goto("attach") /\ Unfix(IF request.by = "cli" THEN StuckIn(pocket) ELSE {})
    /\ Keep /\ UNCHANGED host

Attached(to, services) == contract' = to /\ enabled' = services /\ version' = version

\* attach_with_token by the user: it may fail, also after the machine was attached.
TryAttach ==
    \/ /\ request.root
       /\ \E services \in SUBSET Esm : Attached("active", services)
       /\ Settle("fixed") /\ Goto("enable")
    \/ /\ \/ Attached("none", {})
          \/ request.root /\ Attached("active", {})
       /\ Fail(part.packages, "still-affected")

\* _execute_attach_step: the user may decline, attach, or have started a magic attach that
\* fails; a machine that somebody else attached is as good, unless that contract has expired.
CliAttach ==
    /\ stage = "attach" /\ request.by = "cli"
    /\ IF part.attach = "no" THEN Goto("enable") /\ UNCHANGED <<host, context>>
       ELSE IF request.dryRun \/ contract \notin {"none", "expired"}
       THEN Settle("fixed") /\ Goto("enable") /\ UNCHANGED host
       ELSE \/ UNCHANGED host /\ Fail(part.packages, "still-affected")
            \/ UNCHANGED <<host, context>> /\ Goto("raise")
            \/ TryAttach
    /\ Keep

\* Mutant of CliEnable: --dry-run is not asked about.
CliEnableWet ==
    /\ stage = "enable" /\ request.by = "cli"
    /\ \/ /\ ~part.enable \/ pocket \in enabled
          /\ Goto(IF part.enable /\ status # "fixed" THEN "finish" ELSE "upgrade")
          /\ UNCHANGED <<host, context>>
       \/ /\ part.enable /\ pocket \notin enabled
          /\ enabled' = enabled \cup {pocket} /\ UNCHANGED <<contract, version, context>>
          /\ Goto(IF status = "fixed" THEN "upgrade" ELSE "finish")
    /\ Keep

\* _execute_enable_step: the service may be on by now, or the user enables it; the loop of
\* execute_fix_plan then stops if fix_status is not "fixed", whatever the enable returned.
CliEnable ==
    /\ stage = "enable" /\ request.by = "cli"
    /\ \/ /\ ~part.enable
          /\ Goto("upgrade") /\ UNCHANGED <<host, context>>
       \/ /\ part.enable
          /\ \/ (pocket \in enabled \/ request.dryRun) /\ UNCHANGED host
             \/ /\ pocket \notin enabled /\ ~request.dryRun /\ request.root /\ contract # "none"
                /\ enabled' = enabled \cup {pocket} /\ UNCHANGED <<contract, version>>
          /\ Goto(IF status = "fixed" THEN "upgrade" ELSE "finish") /\ UNCHANGED context
       \/ /\ part.enable /\ pocket \notin enabled
          /\ Fail(part.packages, "still-affected") /\ UNCHANGED host
    /\ Keep

\* _handle_attach and _handle_enable: an error, and no more upgrades.
ApiNeeds ==
    /\ stage \in {"attach", "enable"} /\ request.by = "api"
    /\ IF IF stage = "attach" THEN part.attach # "no" ELSE part.enable
       THEN /\ unfixed' = unfixed \cup part.packages /\ status' = "still-affected"
            /\ needs' = TRUE /\ failed' = TRUE
       ELSE UNCHANGED context
    /\ Goto(IF stage = "attach" THEN "enable" ELSE "upgrade")
    /\ Keep /\ UNCHANGED host

\* apt-get install --only-upgrade: all of them, or a failure on the way.
Upgraded(binaries) ==
    /\ version' = [b \in Binaries |-> IF b \in binaries THEN Larger(version[b], Offered(b))
                                      ELSE version[b]]
    /\ UNCHANGED <<contract, enabled>>

\* _execute_apt_upgrade_step and _handle_apt_upgrade.
Upgrade ==
    /\ stage = "upgrade"
    /\ IF request.by = "api" /\ (needs \/ part.upgrade = {})
       THEN Advance /\ UNCHANGED <<host, context>>
       ELSE IF request.by = "cli" /\ (request.dryRun \/ part.upgrade = {})
       THEN Advance /\ Settle("fixed") /\ UNCHANGED host
       ELSE IF ~request.root
       THEN /\ Fail(part.packages, IF request.by = "api" THEN "error" ELSE "still-affected")
            /\ UNCHANGED host
       ELSE \/ /\ Upgraded(part.upgrade) /\ Advance
               /\ Settle(IF request.by = "cli" THEN "fixed" ELSE status)
            \/ /\ \E some \in SUBSET part.upgrade : Upgraded(some)
               /\ Fail(part.packages, "still-affected")
    /\ Keep

\* The status of the plan: the command looks at the list of unfixed packages, and for a
\* reboot that one of the upgraded packages asks for.
Final(word) ==
    IF request.by = "api" THEN word = status
    ELSE IF unfixed # {} THEN word = "still-affected"
    ELSE word = status \/ (status = "fixed" /\ word = "affected-until-reboot")

\* Mutant of Combined: the last issue decides.
CombinedLast(so_far, word) == word

\* get_expected_overall_status.
Combined(so_far, word) ==
    IF word \notin Good THEN word
    ELSE IF so_far = "not-affected" THEN word ELSE so_far

\* Whether the other issues of the request are dealt with: those related to a notice only
\* if it went well; of what the command reports, and the API too of a notice, they are no part.
Continues(word) ==
    /\ current < Len(plans)
    /\ request.about = "usn" /\ current = 1 =>
           IF request.by = "cli" THEN word \in Good ELSE word # "still-affected"

Finish ==
    /\ stage = "finish"
    /\ \E word \in Statuses :
        /\ Final(word)
        /\ overall' = IF request.about = "cve" \/ current = 1 THEN Combined(overall, word) ELSE overall
        /\ IF Continues(word)
           THEN /\ current' = current + 1 /\ stage' = "warnings" /\ pocket' = "standard-updates"
                /\ status' = "fixed" /\ unfixed' = {} /\ needs' = FALSE /\ failed' = failed
           ELSE Goto("end") /\ UNCHANGED <<current, context>>
    /\ UNCHANGED <<ask, host, elsewhere>>

\* Another process attaches or detaches the machine, enables or disables services.
SubscribeElsewhere ==
    /\ stage \notin {"end", "raise"} /\ others < MaxOthers
    /\ \E to \in Contracts, services \in SUBSET Esm :
        /\ IF to = "none" THEN contract # "none" /\ services = {}
           ELSE to = contract \/ (contract = "none" /\ to \in {"active", "expired"})
        /\ Attached(to, services)
        /\ withdrawn' = withdrawn \cup (enabled \ services)
    /\ others' = others + 1
    /\ UNCHANGED <<ask, current, stage, pocket, context, overall>>

FixNext ==
    \/ MakePlan \/ Warnings \/ Stuck \/ CliAttach \/ CliEnable \/ ApiNeeds \/ Upgrade
    \/ Finish \/ SubscribeElsewhere

FixSpec == FixInit /\ [][FixNext]_fixVars

-----------------------------------------------------------------------------

PlanType == [kind : {"patched", "error", "not-affected", "steps"}, warned : BOOLEAN,
             notFixed : SUBSET Sources,
             part : [Pockets -> [packages : SUBSET Sources, outdated : SUBSET Binaries,
                                 upgrade : SUBSET Binaries, enable : BOOLEAN,
                                 attach : {"no", "required", "expired"}]]]

\* The types of the variables.
FixTypeOK ==
    /\ request \in Requests /\ machine \in Machines
    /\ contract \in Contracts /\ enabled \in SUBSET Esm /\ version \in [Binaries -> Nat]
    /\ seen \in BOOLEAN /\ others \in 0..MaxOthers /\ withdrawn \in SUBSET Esm
    /\ plans \in Seq(PlanType) /\ Len(plans) <= Len(request.issues)
    /\ current \in 1..Len(request.issues) /\ stage \in Stages /\ pocket \in Pockets
    /\ status \in Statuses /\ unfixed \in SUBSET Sources
    /\ needs \in BOOLEAN /\ failed \in BOOLEAN /\ overall \in Statuses

\* What of an issue is still on the machine: a package without a fix, or an installed version
\* below the one the notices ask for, of a pocket that nobody else has withdrawn.
Vulnerable(issue) ==
    \/ Affected(issue) # Released(issue)
    \/ \E p \in Pockets \ withdrawn : Outdated(issue, p) # {}

\* Mutant of Expected: a fix that cannot be installed is no reason to expect less.
ExpectedOptimistic(p) ==
    IF p.kind # "steps" THEN (IF p.kind = "patched" THEN "fixed" ELSE p.kind)
    ELSE IF p.notFixed # {} \/ p.warned THEN "still-affected" ELSE "fixed"

\* FixPlan._get_expected_status: any warning makes it "still-affected".
Expected(p) ==
    CASE p.kind = "error" -> "error"
      [] p.kind = "not-affected" -> "not-affected"
      [] p.kind = "steps" /\ (\/ p.notFixed # {} \/ p.warned
                              \/ \E q \in Pockets : p.part[q].outdated # p.part[q].upgrade)
            -> "still-affected"
      [] OTHER -> "fixed"

\* "0: the fix was successfully applied or the system is not affected" (CLI_FIX_DESC), "if one
\* CVE cannot be fixed, this field will reflect that" (cve/execute/v1.py): of everything that is
\* reported fixed no vulnerable version is left, whatever failed, was declined or was attached
\* or enabled by others meanwhile, for each of the two implementations; but for the packages of
\* a service that others took away, of which apt has nothing to install and says so of nothing.
\* And the execution comes to what the plan expected, if none of its steps fails; but it may
\* come to more if the plan expected less only because the ESM cache could not be updated.
ReportIsTrue ==
    /\ stage = "end" /\ overall \in Good /\ ~request.dryRun =>
        \A i \in DOMAIN plans :
            i = 1 \/ (request.about = "cve" /\ request.by = "api") =>
                plans[i].kind = "patched" \/ ~Vulnerable(request.issues[i])
    /\ stage = "end" /\ ~failed /\ Len(plans) = 1 =>
        LET foreseen == {Expected(plans[1])}
                        \cup IF plans[1].warned THEN {Expected([plans[1] EXCEPT !.warned = FALSE])}
                             ELSE {}
        IN  \/ overall \in foreseen
            \/ "fixed" \in foreseen /\ overall = "affected-until-reboot"

\* --dry-run changes nothing, and the API neither attaches nor enables.
NothingUnasked ==
    [][<<stage, pocket>>' # <<stage, pocket>> =>
        /\ request.dryRun => UNCHANGED host
        /\ request.by = "api" => UNCHANGED <<contract, enabled>>]_fixVars

\* "The contract is almost expired, but still valid" (is_attached/v1.py): a machine with such
\* a contract gets a plan.  The code does not achieve it.
ValidContractPlanned ==
    stage = "raise" /\ plans[Len(plans)].kind = "steps" => contract \in {"none", "expired"}

\* "1: the fix cannot be applied" (CLI_FIX_DESC): a fix of which no step failed or was
\* declined has installed every upgrade of its plan.  The code does not achieve it.
PlannedUpgradesDone ==
    stage = "end" /\ ~failed /\ ~request.dryRun /\ request.by = "cli" /\ plans[1].kind = "steps" =>
        \A p \in Pockets \ withdrawn : \A b \in plans[1].part[p].upgrade :
            version[b] >= Fixing(request.issues[1], b)

=============================================================================
