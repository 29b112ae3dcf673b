---------------------------- MODULE ServicePackages ----------------------------
(***************************************************************************)
(* What enable and disable do to the packages of the machine for one       *)
(* service with an apt repository: the snaps and packages it requires, its *)
(* metapackage and kernel, the packages it replaces, and --purge, which    *)
(* puts back or removes whatever came from the repository.                 *)
(*                                                                         *)
(* Every call of apt or snap is a step that may fail, and other processes  *)
(* install and remove packages in between.                                 *)
(***************************************************************************)
CONSTANTS
    Packages,  \* the packages of this model
    Offered,   \* Offered[p]: where p can be had, of "ubuntu" and "pro", the service's origin
    Kernels,   \* the kernel images among them
    Meta,      \* the metapackage, additionalPackages
    Brings,    \* what it depends on
    Wanted,    \* conditional_packages: <<p, q>> if p is to be had when q is installed
    Needs,     \* <<p, q>>: p cannot stay when q is put back to Ubuntu's version
    Required,  \* requiredPackages
    Removed,   \* those of them with removeOnDisable
    Snaps,     \* requiredSnaps
    AutoUpgrade, \* auto_upgrade_all_on_enable, on the releases and settings of this model
    Before     \* what may be installed before the service is known

ASSUME PackagesAssumption ==
    /\ Kernels \cup Brings \cup Required \subseteq Packages /\ Removed \subseteq Required
    /\ Meta \in Packages \ Kernels /\ Required \cap Kernels = {}
    /\ Wanted \cup Needs \subseteq Packages \X Packages
    /\ Offered \in [Packages -> SUBSET {"ubuntu", "pro"}]
    /\ \A p \in Brings \cup {Meta} : "pro" \in Offered[p]
    /\ \A pair \in Wanted : "pro" \in Offered[pair[1]]
    /\ \A pair \in Needs : pair[1] \notin Kernels
    /\ Before \subseteq [Packages -> {"none", "ubuntu"}]
    /\ \A h \in Before : \E k \in Kernels : h[k] # "none"

VARIABLES
    have,     \* have[p]: where the installed version of p comes from, or "none"
    held,     \* apt-mark showholds
    snaps,    \* the installed snaps
    source,   \* whether apt has the repository, with its pin
    command,  \* "enable" or "disable" while it runs
    option,   \* whether --access-only or --purge was given
    phase,    \* where it is
    plan,     \* what a purge has decided to put back and to remove
    last,     \* how the last command ended
    declined, \* history: no to an older kernel, or none known, when the repository was there
    upset     \* history: what other processes did while the command ran

pkgVars == <<have, held, snaps, source, command, option, phase, plan, last, declined, upset>>
told == <<declined, upset>>

NoPlan == [again |-> {}, gone |-> {}]
Installed == {p \in Packages : have[p] # "none"}
Ours == {p \in Packages : have[p] = "pro"}
With(set, origin) == [p \in Packages |-> IF p \in set THEN origin ELSE have[p]]

\* A failing call of apt may have dealt with some of the packages.
Partly(set, origin) == \E some \in SUBSET set : have' = With(some, origin)

PkgInit ==
    /\ have \in Before /\ held \in {{}, {p \in Packages : \E q \in Packages : <<p, q>> \in Wanted}}
    /\ snaps = {} /\ source = FALSE
    /\ command = "none" /\ option = FALSE /\ phase = "idle" /\ plan = NoPlan /\ last = "none"
    /\ declined = FALSE /\ upset = {}

Onward(place) == phase' = place /\ UNCHANGED <<command, option, last, plan>>
Ends(how) ==
    /\ command' = "none" /\ option' = FALSE /\ phase' = "idle" /\ plan' = NoPlan /\ last' = how
Raises == Ends(IF command = "enable" THEN "enable_failed" ELSE "disable_failed")

\* A command that the user agrees to.
StartCommand(c, o, place) ==
    /\ command = "none" /\ command' = c /\ option' = o /\ phase' = place /\ plan' = NoPlan
    /\ last' = "none" /\ declined' = FALSE
    /\ upset' = (IF Installed \cap Kernels = {} THEN {"removed"} ELSE {})
    /\ UNCHANGED <<have, held, snaps, source>>

-----------------------------------------------------------------------------
(* enable. *)

BeginEnable ==
    ~source /\ \E access \in BOOLEAN : StartCommand("enable", access, IF access THEN "source" ELSE "snaps")

\* handle_required_snaps: snapd is needed, as a snap and up to date only if that works; what
\* is installed stays if a later snap fails.
HandleSnaps ==
    /\ phase = "snaps"
    /\ \/ \E some \in SUBSET Snaps : snaps' = snaps \cup some /\ Raises
       \/ snaps' = snaps \cup Snaps /\ Onward("required")
    /\ UNCHANGED <<have, held, source, told>>

HandlePackages ==
    /\ phase = "required"
    /\ \/ have' = With(Required \ Installed, "ubuntu") /\ Onward("source")
       \/ Required # {} /\ Partly(Required \ Installed, "ubuntu") /\ Raises
    /\ UNCHANGED <<held, snaps, source, told>>

\* setup_apt_config, which for FIPS lets go of the packages on its list first; it cleans up
\* when the lists cannot be updated.
SetUp ==
    /\ phase = "source"
    /\ \/ UNCHANGED <<held, source>> /\ Raises
       \/ held' = held \ (Brings \cup {Meta}) /\ UNCHANGED source /\ Raises
       \/ /\ held' = held \ (Brings \cup {Meta}) /\ source' = TRUE
          /\ IF option THEN Ends("enabled") ELSE Onward("downgrade")
    /\ UNCHANGED <<have, snaps, told>>

\* The last question, asked when the repository has been set up: if it has an older kernel.
\* Without a known kernel the answer is no.
AskDowngrade ==
    /\ phase = "downgrade"
    /\ \/ Onward("install") /\ UNCHANGED told
       \/ Raises /\ declined' = TRUE /\ UNCHANGED upset
    /\ UNCHANGED <<have, held, snaps, source>>

\* Mutant of InstallMeta: the repository is left behind.
InstallMetaLeaves ==
    /\ phase = "install"
    /\ \/ have' = With(Brings \cup {Meta}, "pro") /\ Onward("others") /\ UNCHANGED source
       \/ Partly(Brings \cup {Meta}, "pro") /\ UNCHANGED source /\ Raises
    /\ UNCHANGED <<held, snaps, told>>

\* The metapackage must be there: otherwise the repository is removed again.
InstallMeta ==
    /\ phase = "install"
    /\ \/ have' = With(Brings \cup {Meta}, "pro") /\ Onward("others") /\ UNCHANGED source
       \/ Partly(Brings \cup {Meta}, "pro") /\ source' = FALSE /\ Raises
    /\ UNCHANGED <<held, snaps, told>>

Conditional == {p \in Packages : \E q \in Installed : <<p, q>> \in Wanted}
Upgradable == {p \in Installed : "pro" \in Offered[p] /\ have[p] # "pro"}

\* The others may be missing: on the older releases those of a list, one by one, and those
\* that are held fail; later all that the repository has, which are let go of first.
InstallOthers ==
    /\ phase = "others" /\ Ends("enabled")
    /\ \/ /\ TRUE \in AutoUpgrade
          /\ \/ UNCHANGED <<have, held>>
             \/ held' = held \ Upgradable /\ UNCHANGED have
             \/ held' = held \ Upgradable /\ have' = With(Upgradable, "pro")
       \/ /\ FALSE \in AutoUpgrade
          /\ \E some \in SUBSET (Conditional \ held) : have' = With(some, "pro")
          /\ UNCHANGED held
    /\ UNCHANGED <<snaps, source, told>>

-----------------------------------------------------------------------------
(* disable. *)

BeginDisable ==
    source /\ \E purge \in BOOLEAN : StartCommand("disable", purge, IF purge THEN "check" ELSE "remove")

\* Mutant of SafeFor: any installed kernel will do.
SafeForAny(list) == list \cap Kernels # {} => Installed \cap Kernels # {}

\* purge_kernel_check: a kernel that is not on the list has to be installed.
SafeFor(list) == list \cap Kernels # {} => (Installed \cap Kernels) \ list # {}

\* What came from the repository is put back to another version if there is one, and removed
\* if not.  The user is asked about kernels, and about the rest.
DecidePurge ==
    /\ phase = "check"
    /\ \/ ~SafeFor(Ours) /\ Ends("refused")
       \/ Ours # {} /\ Raises
       \/ /\ SafeFor(Ours) /\ phase' = "remove" /\ UNCHANGED <<command, option, last>>
          /\ plan' = [again |-> {p \in Ours : "ubuntu" \in Offered[p]},
                      gone |-> {p \in Ours : "ubuntu" \notin Offered[p]}]
    /\ UNCHANGED <<have, held, snaps, source, told>>

RemoveMeta ==
    /\ phase = "remove"
    /\ \/ have' = With({Meta}, "none") /\ Onward("unconfigure")
       \/ Meta \in Installed /\ UNCHANGED have /\ Raises
    /\ UNCHANGED <<held, snaps, source, told>>

\* remove_apt_config: the files go before the lists are updated.
Unconfigure ==
    /\ phase = "unconfigure" /\ source' = FALSE
    /\ Raises \/ Onward(IF option THEN "put_back" ELSE "clean")
    /\ UNCHANGED <<have, held, snaps, told>>

\* Both look again at what is installed; putting a package back may remove others.
PutBack ==
    /\ phase = "put_back"
    /\ \E back \in SUBSET (plan.again \cap Installed) :
         /\ \E lost \in SUBSET {p \in Installed \ back : \E q \in back : <<p, q>> \in Needs} :
              have' = [p \in Packages |-> IF p \in lost THEN "none"
                                         ELSE IF p \in back THEN "ubuntu" ELSE have[p]]
         /\ \/ back = plan.again \cap Installed /\ Onward("purge")
            \/ plan.again \cap Installed # {} /\ Raises
    /\ UNCHANGED <<held, snaps, source, told>>

PurgeGone ==
    /\ phase = "purge"
    /\ \/ have' = With(plan.gone \cap Installed, "none") /\ Onward("clean")
       \/ plan.gone \cap Installed # {} /\ Raises
          /\ Partly(plan.gone \cap Installed, "none")
    /\ UNCHANGED <<held, snaps, source, told>>

\* handle_removing_required_packages: when it fails, the service is disabled all the same.
CleanUp ==
    /\ phase = "clean"
    /\ \/ have' = With(Removed, "none") /\ Ends(IF option THEN "purged" ELSE "disabled")
       \/ Removed # {} /\ Partly(Removed, "none") /\ Raises
    /\ UNCHANGED <<held, snaps, source, told>>

KillCommand == command # "none" /\ Ends("killed") /\ UNCHANGED <<have, held, snaps, source, told>>

\* The user, unattended-upgrades: no one else removes the last kernel.
Meddles(what) ==
    /\ upset' = (IF command = "none" THEN upset ELSE upset \cup {what})
    /\ UNCHANGED <<held, snaps, source, command, option, phase, plan, last, declined>>
RemoveElsewhere ==
    \E p \in Installed : /\ (Installed \cap Kernels) \ {p} # {}
                         /\ have' = With({p}, "none") /\ Meddles("removed")
InstallElsewhere ==
    \E p \in Packages : \E origin \in Offered[p] \ {have[p]} :
        /\ origin = "pro" => source
        /\ have' = With({p}, origin) /\ Meddles("installed")

PkgNext ==
    \/ BeginEnable \/ HandleSnaps \/ HandlePackages \/ SetUp \/ AskDowngrade \/ InstallMeta
    \/ InstallOthers \/ BeginDisable \/ DecidePurge \/ RemoveMeta \/ Unconfigure \/ PutBack
    \/ PurgeGone \/ CleanUp \/ KillCommand \/ RemoveElsewhere \/ InstallElsewhere

PkgSpec == PkgInit /\ [][PkgNext]_pkgVars

-----------------------------------------------------------------------------
(* Properties. *)

PkgTypeOK ==
    /\ have \in [Packages -> {"none", "ubuntu", "pro"}] /\ held \subseteq Packages
    /\ snaps \subseteq Snaps /\ source \in BOOLEAN
    /\ command \in {"none", "enable", "disable"} /\ option \in BOOLEAN
    /\ phase \in {"idle", "snaps", "required", "source", "downgrade", "install", "others",
               "check", "remove", "unconfigure", "put_back", "purge", "clean"}
    /\ plan \in [again : SUBSET Packages, gone : SUBSET Packages]
    /\ last \in {"none", "enabled", "enable_failed", "disabled", "disable_failed", "purged",
                 "refused", "killed"}
    /\ declined \in BOOLEAN /\ upset \subseteq {"removed", "installed"}

\* Whatever apt refuses to do on the way, and wherever a command is stopped, the machine has
\* a kernel left, unless someone else removes packages while a purge waits for the user or
\* for apt: the list of kernels is not looked at again.
KernelRemains == "removed" \notin upset => Installed \cap Kernels # {}

\* As long as no one else changes the packages meanwhile: a purge that succeeds leaves
\* nothing of the repository, whether it was installed with the service or not, and an
\* enable that fails leaves no repository, from which the next upgrade would take the
\* packages -- unless the older kernel was declined, which comes too late for that.
EndsAsAgreed ==
    command = "none" /\ upset = {} =>
        /\ last = "purged" => Ours = {} /\ ~source
        /\ last = "enable_failed" /\ ~declined => ~source

=============================================================================
