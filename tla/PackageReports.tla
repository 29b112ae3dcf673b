--------------------------- MODULE PackageReports ---------------------------
(***************************************************************************)
(* What the client says about packages and their updates: security-status, *)
(* the packages.summary and packages.updates endpoints, and the hook apt   *)
(* runs during an upgrade, which is a second implementation in C++.        *)
(*                                                                         *)
(* They read two package caches: apt's own, and the private one the client *)
(* keeps so that it can tell of ESM updates on machines without the ESM    *)
(* services.  The private one is maintained by a systemd job that "apt     *)
(* update" starts and does not wait for, by enable and by disable, with    *)
(* no lock among them.                                                     *)
(***************************************************************************)
EXTENDS Integers, FiniteSets

CONSTANTS
  Packages,    \* installed packages
  Covers,      \* Covers[p]: the ESM service of p's archive component
  MaxVersion   \* bound on publications, numbered through all packages;
               \* version 0 is the release's

Services == {"esm-infra", "esm-apps"}
Ubuntu == {"updates", "security"}
Esm == {"esm-updates", "esm-security"}
Pockets == Ubuntu \cup Esm

ASSUME PackagesAssumption ==
  /\ IsFiniteSet(Packages) /\ MaxVersion \in Nat \ {0}
  /\ Covers \in [Packages -> Services]

VARIABLES
  release,   \* series: "lts", "esm" (past standard support) or "interim"
  available, \* services the server has for the series and architecture
  archive,   \* archive[p][k]: the version of p in pocket k, 0 if none
  installed, \* installed version of each package
  pinned,    \* packages the administrator keeps on Ubuntu's own versions
  machine,   \* attached, entitled services, apt sources, fetched indexes
  lists,     \* what apt's indexes say of each package
  private,   \* the private cache: source files and fetched indexes
  job,       \* the esm-cache job
  op,        \* the enable or disable under way
  raced      \* history: services a job and an operation, or a failure, may
             \* have left wrong in the private cache

reportVars == <<release, available, archive, installed, pinned, machine, lists,
                private, job, op, raced>>
world == <<release, available, archive, installed, pinned>>

NoJob == [at |-> "idle", set_up |-> FALSE, quiet |-> FALSE]
NoOp == [kind |-> "none", service |-> "esm-apps", at |-> "idle"]
NoVersions == [p \in Packages |-> [k \in Pockets |-> 0]]

ReportTypeOK ==
  /\ release \in {"lts", "esm", "interim"} /\ available \subseteq Services
  /\ archive \in [Packages -> [Pockets -> 0..MaxVersion]]
  /\ lists \in [Packages -> [Pockets -> 0..MaxVersion]]
  /\ installed \in [Packages -> 0..MaxVersion]
  /\ pinned \subseteq Packages
  /\ machine \in [attached : BOOLEAN, entitled : SUBSET Services,
                  sources : SUBSET Services, fetched : SUBSET Services]
  /\ private \in [files : SUBSET Services,
                  lists : [Packages -> [Pockets -> 0..MaxVersion]]]
  /\ job \in [at : {"idle", "decide_apps", "act_apps", "decide_infra",
                    "act_infra", "fetch"},
              set_up : BOOLEAN, quiet : BOOLEAN]
  /\ op \in [kind : {"none", "enable", "disable"}, service : Services,
             at : {"idle", "write", "update", "motd", "private"}]
  /\ raced \subseteq Services

-----------------------------------------------------------------------------
(* Caches and statuses.                                                    *)

Largest(S) == CHOOSE v \in S : \A w \in S : v >= w

\* versions of p in apt's cache; 0 is always there
Known(p) == {0} \cup {lists[p][k] : k \in Pockets}

\* apt's candidate, never a downgrade; a pin leaves Ubuntu's own versions
Candidate(p) ==
  Largest({installed[p]} \cup IF p \in pinned
                              THEN {lists[p][k] : k \in Ubuntu} ELSE Known(p))

\* get_esm_apt_pkg_cache: only sources whose file is there are read
PrivateVersions(p) ==
  IF Covers[p] \in private.files
  THEN {private.lists[p][k] : k \in Esm} \ {0} ELSE {}

\* application_status of a repository service
Enabled(s) == machine.attached /\ s \in machine.sources \cap machine.fetched

\* fetched indexes of p: Ubuntu's, and its ESM service's if it has a source
Fetched(p, sources) ==
  [k \in Pockets |-> IF k \in Ubuntu \/ Covers[p] \in sources
                     THEN archive[p][k] ELSE 0]

-----------------------------------------------------------------------------
(* The reports of the client.                                              *)

\* Mutant: only the security pockets of ESM are known.
ServiceOfSecurity(p, v) ==
  IF lists[p]["esm-security"] = v THEN Covers[p]
  ELSE IF lists[p]["security"] = v THEN "standard-security"
  ELSE "standard-updates"

\* get_origin_information_to_service_map, over the files of a version
ServiceOf(p, v) ==
  IF \E k \in Esm : lists[p][k] = v THEN Covers[p]
  ELSE IF lists[p]["security"] = v THEN "standard-security"
  ELSE "standard-updates"

\* get_origin_for_installed_package: the files of the installed version, or
\* of the candidate when only dpkg knows the installed one
OriginOf(p) ==
  LET Available(v) == v = 0 \/ \E k \in Pockets : lists[p][k] = v
      v == IF Available(installed[p]) THEN installed[p] ELSE Candidate(p)
  IN IF ~Available(v) THEN "unknown"
     ELSE IF v # 0 /\ ServiceOf(p, v) \in Services THEN Covers[p]
     ELSE "ubuntu"

\* get_installed_packages_by_origin, _summary
CountedAs(o) == Cardinality({p \in Packages : OriginOf(p) = o})

\* filter_updates: every newer version of apt's cache, by service, and every
\* newer version of the private cache
UpdatesInApt(p) == {v \in Known(p) : v > installed[p]}
UpdatesInPrivate(p) == {v \in PrivateVersions(p) : v > installed[p]}
\* Mutant: every ESM update of the private cache is counted for the service.
CountOfPrivate(s) ==
  LET In(p) == {v \in UpdatesInApt(p) : ServiceOf(p, v) = s} IN
  Cardinality(UNION {{<<p, v>> : v \in In(p)} : p \in Packages})
  + Cardinality(UNION {{<<p, v>> : v \in UpdatesInPrivate(p)} : p \in Packages})

CountOf(s) == LET In(p) == {v \in UpdatesInApt(p) : ServiceOf(p, v) = s}
                  Own(p) == {v \in UpdatesInPrivate(p) : Covers[p] = s} IN
  Cardinality(UNION {{<<p, v>> : v \in In(p)} : p \in Packages})
  + Cardinality(UNION {{<<p, v>> : v \in Own(p)} : p \in Packages})

\* Mutant: the entitlements are looked at before the attachment.
UpdateStatusEntitled(s, p, v) ==
  IF s \notin Services \/ Enabled(s)
  THEN IF v = Candidate(p) THEN "upgrade_available"
                           ELSE "upgrade_available_not_preferred"
  ELSE IF s \in machine.entitled THEN "pending_enable"
  ELSE IF machine.attached THEN "upgrade_unavailable"
  ELSE "pending_attach"

\* get_ua_info, get_update_status, create_updates_list
UpdateStatus(s, p, v) ==
  IF s \notin Services \/ Enabled(s)
  THEN IF v = Candidate(p) THEN "upgrade_available"
                           ELSE "upgrade_available_not_preferred"
  ELSE IF ~machine.attached THEN "pending_attach"
  ELSE IF s \in machine.entitled THEN "pending_enable"
  ELSE "upgrade_unavailable"

UpdatesList(p) ==
  {[service |-> ServiceOf(p, v), version |-> v,
    status |-> UpdateStatus(ServiceOf(p, v), p, v)] : v \in UpdatesInApt(p)}
  \cup {[service |-> Covers[p], version |-> v,
         status |-> UpdateStatus(Covers[p], p, v)] : v \in UpdatesInPrivate(p)}

\* list_esm_infra_packages and list_esm_apps_packages: one service's packages
\* with an update, with an ESM version installed, and the rest
ListedFor(s) ==
  LET All == {p \in Packages : Covers[p] = s /\ OriginOf(p) # "unknown"}
      New == {p \in All : \E u \in UpdatesList(p) : u.service = s}
      Old == {p \in All : OriginOf(p) = s} IN
  [available |-> New, installed |-> Old, remaining |-> All \ (New \cup Old)]

\* security_status: the advice printed for a service on an LTS release
Advice(s) ==
  IF release = "interim" THEN "uncovered"
  ELSE IF Enabled(s) THEN "receiving" ELSE "advertised"

-----------------------------------------------------------------------------
(* The reports of apt's hook.                                              *)

\* count_security_packages_from_apt_stats_json: packages being upgraded, by
\* the pocket of the version to be installed; only -security pockets count
HookCounts(p) ==
  LET v == Candidate(p) IN
  IF v = installed[p] THEN "none"
  ELSE IF lists[p]["esm-security"] = v THEN Covers[p]
  ELSE IF lists[p]["security"] = v THEN "standard-security"
  ELSE "none"

\* create_count_message: the kinds that have a count
CountMessage == {HookCounts(p) : p \in Packages} \ {"none"}

\* get_potential_esm_updates: the highest version of the private cache alone
PotentialEsm(s) ==
  {p \in Packages : /\ Covers[p] = s /\ PrivateVersions(p) # {}
                    /\ Largest(PrivateVersions(p)) > installed[p]}

\* run(), at the pre-prompt: infra's packages, or else apps'
Advertised ==
  IF PotentialEsm("esm-infra") # {} THEN PotentialEsm("esm-infra")
                                    ELSE PotentialEsm("esm-apps")

\* collect_pro_packages_from_pre_prompt_json, shown with the expired notice
WillNotDownload ==
  {p \in Packages : /\ Candidate(p) # installed[p]
                    /\ \E k \in Esm : lists[p][k] = Candidate(p)}

-----------------------------------------------------------------------------
(* The private cache's job: update_esm_caches.                             *)

\* "apt update" starts the job unless it runs already
JobAfterUpdate ==
  IF job.at = "idle" /\ release # "interim"
  THEN [at |-> "decide_apps", set_up |-> FALSE, quiet |-> op.at = "idle"]
  ELSE job

ServiceAt == IF job.at \in {"decide_apps", "act_apps"} THEN "esm-apps"
                                                       ELSE "esm-infra"

\* Mutant: the job looks at the attachment, not at the service.
JobDecideAttached ==
  /\ job.at \in {"decide_apps", "decide_infra"}
  /\ job' = [job EXCEPT
       !.at = IF ServiceAt = "esm-apps" THEN "act_apps" ELSE "act_infra",
       !.set_up = ServiceAt \in available /\ ~machine.attached]
  /\ UNCHANGED <<world, machine, lists, private, op, raced>>

\* the status has the service available, application_status is read ...
JobDecide ==
  /\ job.at \in {"decide_apps", "decide_infra"}
  /\ job' = [job EXCEPT
       !.at = IF ServiceAt = "esm-apps" THEN "act_apps" ELSE "act_infra",
       !.set_up = ServiceAt \in available /\ ~Enabled(ServiceAt)]
  /\ UNCHANGED <<world, machine, lists, private, op, raced>>

\* ... and setup_local_esm_repo or disable_local_esm_repo follows; esm-infra
\* only when the release is past its standard support
JobAct ==
  /\ job.at \in {"act_apps", "act_infra"}
  /\ private' = [private EXCEPT !.files = IF job.set_up
                                          THEN @ \cup {ServiceAt}
                                          ELSE @ \ {ServiceAt}]
  /\ job' = [job EXCEPT
       !.at = IF ServiceAt = "esm-apps" /\ release = "esm"
              THEN "decide_infra" ELSE "fetch"]
  /\ UNCHANGED <<world, machine, lists, op, raced>>

\* cache.update, or a failed fetch; a run nothing interfered with repairs
JobFetch ==
  /\ job.at = "fetch"
  /\ \/ private' = [private EXCEPT
            !.lists = [p \in Packages |->
              [k \in Pockets |-> IF k \in Esm /\ Covers[p] \in private.files
                                 THEN archive[p][k] ELSE 0]]]
     \/ UNCHANGED private
  /\ raced' = IF job.quiet THEN {} ELSE raced
  /\ job' = NoJob
  /\ UNCHANGED <<world, machine, lists, op>>

\* no status cache and no answer from the server, or the job is killed
JobFails ==
  /\ job.at # "idle"
  /\ job' = NoJob
  /\ UNCHANGED <<world, machine, lists, private, op, raced>>

-----------------------------------------------------------------------------
(* enable and disable of an ESM service, as far as packages can tell.      *)

\* a job beside an operation decides on what is about to change
Unsettle(j) == [j EXCEPT !.quiet = FALSE]

StartEnable(s) ==
  /\ op.at = "idle" /\ machine.attached
  /\ s \in machine.entitled \ machine.sources
  /\ op' = [kind |-> "enable", service |-> s, at |-> "write"]
  /\ job' = Unsettle(job) /\ raced' = raced \cup {s}
  /\ UNCHANGED <<world, machine, lists, private>>

\* add_auth_apt_repo
WriteSource ==
  /\ op.at = "write" /\ op.kind = "enable"
  /\ machine' = [machine EXCEPT !.sources = @ \cup {op.service}]
  /\ op' = [op EXCEPT !.at = "update"]
  /\ UNCHANGED <<world, lists, private, job, raced>>

\* remove_apt_config: the source and its indexes
RemoveSource ==
  /\ op.at = "write" /\ op.kind = "disable"
  /\ machine' = [machine EXCEPT !.sources = @ \ {op.service},
                                !.fetched = @ \ {op.service}]
  /\ lists' = [p \in Packages |-> Fetched(p, machine.fetched \ {op.service})]
  /\ op' = [op EXCEPT !.at = "update"]
  /\ UNCHANGED <<world, private, job, raced>>

\* update_sources_list for the one source; run_apt_update_command for all
UpdateLists ==
  /\ op.at = "update"
  /\ machine' = [machine EXCEPT !.fetched = IF op.kind = "enable"
                                            THEN @ \cup {op.service}
                                            ELSE machine.sources]
  /\ lists' = [p \in Packages |->
                 IF op.kind = "enable" /\ Covers[p] # op.service THEN lists[p]
                 ELSE Fetched(p, machine'.fetched)]
  /\ op' = [op EXCEPT !.at = "motd"]
  /\ job' = Unsettle(JobAfterUpdate)
  /\ UNCHANGED <<world, private, raced>>

\* the update fails: enable removes the source again, disable just stops
UpdateFails ==
  /\ op.at = "update"
  /\ machine' = [machine EXCEPT !.sources = IF op.kind = "enable"
                                            THEN @ \ {op.service} ELSE @]
  /\ op' = NoOp
  /\ UNCHANGED <<world, lists, private, job, raced>>

\* update_motd_messages asks the server about an expired contract, and may
\* raise before the private cache is dealt with
Motd ==
  /\ op.at = "motd"
  /\ \/ op' = [op EXCEPT !.at = "private"]
     \/ op' = NoOp
  /\ UNCHANGED <<world, machine, lists, private, job, raced>>

\* disable_local_esm_repo, setup_local_esm_repo.  Beside a job that has yet
\* to act, the job may undo it.
MindPrivate ==
  /\ op.at = "private"
  /\ private' = [private EXCEPT !.files =
       IF op.kind = "enable" THEN @ \ {op.service}
       ELSE IF release = "esm" \/ (release = "lts" /\ op.service = "esm-apps")
            THEN @ \cup {op.service} ELSE @]
  /\ raced' = IF job.at = "idle" THEN raced \ {op.service} ELSE raced
  /\ op' = NoOp
  /\ UNCHANGED <<world, machine, lists, job>>

StartDisable(s) ==
  /\ op.at = "idle" /\ Enabled(s)
  /\ op' = [kind |-> "disable", service |-> s, at |-> "write"]
  /\ job' = Unsettle(job) /\ raced' = raced \cup {s}
  /\ UNCHANGED <<world, machine, lists, private>>

\* attach, and detach once its services are disabled
ToggleAttached ==
  /\ op.at = "idle"
  /\ machine.attached => machine.sources = {}
  /\ machine' = [machine EXCEPT !.attached = ~@]
  /\ UNCHANGED <<world, lists, private, job, op, raced>>

-----------------------------------------------------------------------------
(* The rest of the machine.                                                *)

AptUpdate ==
  /\ op.at = "idle"
  /\ lists' = [p \in Packages |-> Fetched(p, machine.sources)]
  /\ machine' = [machine EXCEPT !.fetched = machine.sources]
  /\ job' = JobAfterUpdate
  /\ UNCHANGED <<world, private, op, raced>>

Upgrade(p) ==
  /\ Candidate(p) # installed[p]
  /\ installed' = [installed EXCEPT ![p] = Candidate(p)]
  /\ UNCHANGED <<release, available, archive, pinned, machine, lists, private,
                 job, op, raced>>

\* versions are numbered through all packages
NextVersion ==
  1 + Largest({0} \cup {archive[q][k] : q \in Packages, k \in Pockets})

\* a new version, in one pocket or in a security pocket and its updates; past
\* its standard support a release has no more than ESM's
PublishVersion(p) ==
  /\ NextVersion <= MaxVersion
  /\ \E K \in {{"esm-security"}, {"esm-updates"}}
              \cup IF release = "esm" THEN {} ELSE {Ubuntu, {"updates"}} :
       archive' = [archive EXCEPT ![p] = [k \in Pockets |->
                     IF k \in K THEN NextVersion ELSE archive[p][k]]]
  /\ UNCHANGED <<release, available, installed, pinned, machine, lists, private,
                 job, op, raced>>

\* the last security update of standard support, if there was one
LastStandard ==
  {NoVersions} \cup
  {[NoVersions EXCEPT ![p] = [k \in Pockets |-> IF k \in Ubuntu THEN 1 ELSE 0]] :
     p \in Packages}

ReportInit ==
  /\ release \in {"lts", "esm", "interim"}
  /\ archive \in IF release = "esm" THEN LastStandard ELSE {NoVersions}
  /\ lists = NoVersions
  /\ installed = [p \in Packages |-> 0]
  /\ pinned \in SUBSET Packages
  /\ available \in SUBSET Services
  /\ machine \in [attached : BOOLEAN, entitled : SUBSET available,
                  sources : {{}}, fetched : {{}}]
  /\ private = [files |-> {}, lists |-> NoVersions]
  /\ job = NoJob /\ op = NoOp
  /\ raced = Services

ReportNext ==
  \/ JobDecide \/ JobAct \/ JobFetch \/ JobFails
  \/ \E s \in Services : StartEnable(s) \/ StartDisable(s)
  \/ WriteSource \/ RemoveSource \/ UpdateLists \/ UpdateFails \/ Motd
  \/ MindPrivate \/ ToggleAttached
  \/ AptUpdate
  \/ \E p \in Packages : Upgrade(p) \/ PublishVersion(p)

ReportSpec == ReportInit /\ [][ReportNext]_reportVars

-----------------------------------------------------------------------------
(* Properties.                                                             *)

Settled(s) == s \notin raced

\* The private cache tells of a service exactly as long as the service is on
\* offer and not enabled: after every enable and disable that no job ran beside, and after
\* every job that no operation ran beside, whatever failed or raced before.
\* (update_esm_caches, ESMBaseEntitlement)
PrivateForDisabledOnly ==
  \A s \in Services : Settled(s) =>
    (s \in private.files <=>
       /\ ~Enabled(s) /\ s \in available
       /\ release = "esm" \/ (release = "lts" /\ s = "esm-apps"))

\* Whatever apt's hook announces as a security update to be installed, or as an update that
\* will not download, the client lists as an available update of the same service.  The hook
\* asks for Ubuntu Pro only for packages of a service the machine is not receiving, and the
\* client lists the same update as pending, on the service's own screen too.  And the client
\* counts every pending version once, although it adds up two caches, and every installed
\* one where it lists it.  (json-hook.cc, esm-counts.cc, security_status.py)
HookAgrees ==
  /\ \A p \in Packages :
       LET Listed(s) == [service |-> s, version |-> Candidate(p),
                         status |-> "upgrade_available"] \in UpdatesList(p) IN
       /\ HookCounts(p) # "none" => Listed(HookCounts(p))
       /\ p \in WillNotDownload => Listed(Covers[p])
  /\ \A s \in CountMessage : CountOf(s) > 0
  /\ \A p \in Advertised : Settled(Covers[p]) =>
       /\ Advice(Covers[p]) = "advertised"
       /\ OriginOf(p) # "unknown" => p \in ListedFor(Covers[p]).available
       /\ \E u \in UpdatesList(p) :
            /\ u.service = Covers[p] /\ u.version > installed[p]
            /\ u.status = IF ~machine.attached THEN "pending_attach"
                          ELSE IF Covers[p] \in machine.entitled
                          THEN "pending_enable" ELSE "upgrade_unavailable"
  /\ \A s \in Services : Settled(s) =>
       LET Pending(p) == {u.version : u \in {u \in UpdatesList(p) : u.service = s}}
           listed == ListedFor(s) IN
       /\ CountOf(s) = Cardinality(UNION {{p} \X Pending(p) : p \in Packages})
       /\ CountedAs(s) = Cardinality(listed.installed)
       /\ listed.remaining \cap {p \in Packages : HookCounts(p) = s} = {}

=============================================================================
