------------------------------- MODULE Services -------------------------------
(***************************************************************************)
(* The services of an attached machine: their apt repositories, packages   *)
(* and kernel, as enable, disable, detach, refresh, the boot-time script   *)
(* and a release upgrade change them (uaclient/entitlements/).             *)
(*                                                                         *)
(* One command runs at a time, under the lock.  Enabling a service may     *)
(* disable others and enable others, which may do the same, so a command   *)
(* works with a stack of operations on single services; an operation that  *)
(* returns False or raises unwinds the stack to the command.  Every call   *)
(* of apt or snap is a step, may fail, and may be the last one before a    *)
(* crash.                                                                  *)
(***************************************************************************)
EXTENDS Naturals, Sequences

CONSTANTS
    Worlds,        \* the sets of services of the contracts to consider
    Unfit,         \* the services the next Ubuntu release lacks
    \* and for which of the worlds:
    BlockDisable,  \* features.block_disable_on_enable is set
    ContractMoves, \* the server may change the contract (once)
    ReleaseMoves,  \* the machine may be upgraded to the next release
    Crashes,       \* a command may be killed
    Boots          \* the machine reboots, and the boot-time script runs

Svcs == {"esm-apps", "esm-infra", "fips", "fips-updates", "fips-preview", "livepatch",
         "realtime-kernel", "ros", "ros-updates"}
Packages == {"ubuntu-fips", "linux-realtime"}

ASSUME WorldsAssumption == Worlds \subseteq SUBSET Svcs /\ Unfit \subseteq Svcs
ASSUME FlagsAssumption == \A flag \in {BlockDisable, ContractMoves, ReleaseMoves, Crashes, Boots} :
                              flag \subseteq Worlds

VARIABLES
    world,      \* the services this machine's contracts are about
    attached,   \* whether there is a machine token
    grant,      \* what the token says of each service
    url,        \* the aptURL the token names for each service
    source,     \* the aptURL in the service's apt source file
    listed,     \* the services whose repository apt policy knows
    packages,   \* the installed metapackages
    livepatch,  \* whether canonical-livepatch is enabled
    kernel,     \* /proc/sys/crypto/fips_enabled: "absent", "0" or "1"
    once,       \* services-once-enabled: fips-updates has been enabled
    cached,     \* the services the status cache calls "enabled", or NoCache
    marker,     \* marker-reboot-cmds-required
    upgraded,   \* whether the machine runs the next release
    command,    \* the command that runs
    at,         \* what the command does when its stack is empty
    todo,       \* the services the command has still to deal with
    stack,      \* the operations on services it is in, innermost first
    result,     \* how the last operation on a service ended
    failed,     \* a refresh has failed for some service
    old,        \* the entitlements before the refresh
    moved,      \* history: the contract has changed
    hidden      \* history: what first put a service out of the client's sight

token == <<grant, url>>
machine == <<source, listed, packages, livepatch>>
host == <<kernel, marker, upgraded>>
control == <<command, at, todo, failed, old>>
vars == <<world, attached, token, machine, host, once, cached, control, stack, result,
          moved, hidden>>

NoCache == {"no_cache"}
Absent == "absent"
Grants == {Absent, "no", "yes"}
Urls == {"first", "second"}
Fips == {"fips", "fips-updates", "fips-preview"}
Repos == Svcs \ {"livepatch"}

\* The package a service brings; all FIPS services name the same metapackage.
Brings(s) == IF s \in Fips THEN {"ubuntu-fips"}
             ELSE IF s = "realtime-kernel" THEN {"linux-realtime"} ELSE {}

\* supports_access_only, of the services modelled.
AccessOnly == Fips \cup {"realtime-kernel"}

EnableOrder == <<"esm-apps", "esm-infra", "fips", "fips-updates", "fips-preview",
                 "livepatch", "realtime-kernel", "ros", "ros-updates">>
DisableOrder == <<"ros-updates", "ros", "esm-apps", "esm-infra", "fips", "fips-updates",
                  "fips-preview", "livepatch", "realtime-kernel">>

Incompatible(s) ==
    CASE s = "fips" -> <<"livepatch", "fips-updates", "realtime-kernel">>
      [] s = "fips-updates" -> <<"fips", "realtime-kernel">>
      [] s = "fips-preview" -> <<"livepatch", "fips-updates", "realtime-kernel", "fips">>
      [] s = "livepatch" -> <<"fips", "realtime-kernel">>
      [] s = "realtime-kernel" -> <<"fips", "fips-updates", "livepatch">>
      [] OTHER -> <<>>
Required(s) ==
    CASE s = "ros" -> <<"esm-infra", "esm-apps">>
      [] s = "ros-updates" -> <<"esm-infra", "esm-apps", "ros">>
      [] OTHER -> <<>>
Dependents(s) ==
    CASE s \in {"esm-infra", "esm-apps"} -> <<"ros-updates", "ros">>
      [] s = "ros" -> <<"ros-updates">>
      [] OTHER -> <<>>

-----------------------------------------------------------------------------
(* What the client sees. *)

\* The members of list that are in set, in their order.
Select(list, set) ==
    LET kept[n \in 0..Len(list)] ==
            IF n = 0 THEN <<>>
            ELSE IF list[n] \in set THEN Append(kept[n - 1], list[n]) ELSE kept[n - 1]
    IN  kept[Len(list)]

\* RepoEntitlement.application_status: apt policy knows the URL the token names.
RepoOn(s) == grant[s] # Absent /\ source[s] = url[s] /\ s \in listed

\* application_status: of FIPS the kernel has the last word, and the metapackage may be missing.
Status(s) ==
    IF s = "livepatch" THEN IF livepatch THEN "enabled" ELSE "disabled"
    ELSE IF ~RepoOn(s) \/ (s \in Fips /\ kernel = "0") THEN "disabled"
    ELSE IF s \in Fips /\ kernel = "absent" /\ ~(Brings(s) \subseteq packages) THEN "warning"
    ELSE "enabled"

\* Whether the service is on the machine, whatever the client makes of it.
Present(s) == IF s = "livepatch" THEN livepatch ELSE source[s] \in Urls

\* Mutant of Applicable: a fips-updates that is disabled again is forgotten.
ApplicableAgain(s) ==
    grant[s] # Absent =>
        /\ ~(upgraded /\ s \in Unfit)
        /\ s \in {"fips", "fips-preview"} => Status("fips-updates") = "disabled"
        /\ s = "livepatch" => Status("fips") # "enabled"

\* applicability_status: static affordances, and the release; without an entitlement
\* nothing is checked.
Applicable(s) ==
    grant[s] # Absent =>
        /\ ~(upgraded /\ s \in Unfit)
        /\ s \in {"fips", "fips-preview"} => Status("fips-updates") = "disabled" /\ ~once
        /\ s = "livepatch" => Status("fips") # "enabled"

\* user_facing_status = ACTIVE.
Active(s) == Applicable(s) /\ grant[s] = "yes" /\ Status(s) = "enabled"

\* Mutant of BlockingIncompatible: a service that works with a warning does not count.
BlockingIncompatibleEnabled(s) ==
    Select(Incompatible(s), {o \in Svcs : Status(o) = "enabled"})

\* blocking_incompatible_services, blocking_required_services, blocking_dependent_services.
BlockingIncompatible(s) == Select(Incompatible(s), {o \in Svcs : Status(o) # "disabled"})
BlockingRequired(s) == Select(Required(s), {o \in Svcs : Status(o) = "disabled"})

\* Mutant of BlockingDependents: only the services that name s are looked for, not those
\* that depend on them.
BlockingDependentsNearest(s) ==
    Select(Dependents(s), {o \in Svcs : /\ Status(o) = "enabled"
                                        /\ Required(o) # <<>> /\ Required(o)[Len(Required(o))] = s})

BlockingDependents(s) == Select(Dependents(s), {o \in Svcs : Status(o) = "enabled"})

\* can_disable up to its question about dependent services.
CanDisable(s) == Status(s) # "disabled" /\ grant[s] # Absent /\ Applicable(s)

-----------------------------------------------------------------------------
(* The stack. *)

Frame(op, s, label, access, list) ==
    [op |-> op, svc |-> s, at |-> label, access |-> access, todo |-> list]
Top == Head(stack)
Running(label) == stack # <<>> /\ Top.at = label

Push(f) == stack' = <<f>> \o stack
Now(label, list) == stack' = <<[Top EXCEPT !.at = label, !.todo = list]>> \o Tail(stack)

\* The innermost operation returns True; False and exceptions end all of them.
Done == stack' = Tail(stack) /\ result' = "ok"
Unwind(how) == stack' = <<>> /\ result' = how

\* The command is between operations, and does what label says next.
Between(label) == stack = <<>> /\ at = label

\* What apt policy knows after an apt update.
Listed(src) == {s \in Repos : src[s] \in Urls}

Hide(cause, cond) == hidden' = IF hidden = "nothing" /\ cond THEN cause ELSE hidden

Nobody == [grant |-> [s \in Svcs |-> Absent], url |-> [s \in Svcs |-> "first"]]

Init ==
    /\ world \in Worlds
    /\ attached = FALSE /\ grant = Nobody.grant /\ url = Nobody.url
    /\ source = [s \in Svcs |-> Absent] /\ listed = {} /\ packages = {}
    /\ livepatch = FALSE /\ kernel = "absent" /\ once = FALSE
    /\ cached = NoCache /\ marker = FALSE /\ upgraded = FALSE
    /\ command = "none" /\ at = "idle" /\ todo = <<>> /\ failed = FALSE /\ old = Nobody
    /\ stack = <<>> /\ result = "ok" /\ moved = FALSE /\ hidden = "nothing"

-----------------------------------------------------------------------------
(* Enabling a service. *)

\* What a step of an operation leaves alone, apart from the machine.
Inside == UNCHANGED <<world, attached, token, host, cached, control, moved>>

Begin(op, s, access) == Push(Frame(op, s, op, access, <<>>)) /\ UNCHANGED result

\* can_enable, and the two of its refusals that enable() deals with.  Incompatible
\* services hide required ones, and either hides that access_only is not supported.
TryEnable ==
    /\ Running("enable")
    /\ LET s == Top.svc
           blocking == BlockingIncompatible(s)
       IN  IF grant[s] # "yes" \/ Status(s) # "disabled" \/ ~Applicable(s)
           THEN Unwind("no")
           ELSE IF blocking # <<>>
           THEN IF world \in BlockDisable THEN Unwind("no")
                ELSE Now("make_room", blocking) /\ UNCHANGED result
           ELSE IF BlockingRequired(s) # <<>>
           THEN Now("provide", BlockingRequired(s)) /\ UNCHANGED result
           ELSE IF Top.access /\ s \notin AccessOnly THEN Unwind("no")
           ELSE Now("apply", <<>>) /\ UNCHANGED result
    /\ Inside /\ UNCHANGED <<machine, once, hidden>>

\* handle_incompatible_services, _enable_required_services and
\* _disable_dependent_services take the services one after the other.
Descend ==
    /\ Running("make_room") \/ Running("provide") \/ Running("clear")
    /\ LET op == IF Top.at = "provide" THEN "enable" ELSE "disable"
           rest == [Top EXCEPT !.todo = Tail(@)]
       IN  IF Top.todo = <<>>
           THEN Now(IF Top.at = "clear" THEN "uninstall" ELSE "apply", <<>>)
           ELSE stack' = <<Frame(op, Head(Top.todo), op, FALSE, <<>>), rest>> \o Tail(stack)
    /\ Inside /\ UNCHANGED <<machine, once, result, hidden>>

\* livepatch: install the snap and enable it; some failures raise, some return False.  If
\* it was enabled it is disabled first.
EnableLivepatch ==
    /\ Running("apply") /\ Top.svc = "livepatch"
    /\ \/ livepatch' = TRUE /\ Done
       \/ /\ \E how \in {"no", "raise"} : Unwind(how)
          /\ livepatch' \in {livepatch, FALSE}
    /\ Inside /\ UNCHANGED <<source, listed, packages, once, hidden>>

\* remove_apt_config, its apt update included, after something has failed.
DropSource ==
    /\ source' = [source EXCEPT ![Top.svc] = Absent]
    /\ listed' \in {listed \ {Top.svc}, Listed(source')}
    /\ Hide("lost_source", Brings(Top.svc) \cap packages # {})
    /\ Unwind("raise")

\* setup_apt_config up to the apt source file: apt may not accept the credentials, or fail
\* to install what it needs for the source, which is then removed.  With fips-updates beside
\* it, which does not call it incompatible, fips-preview no longer applies.
WriteSource ==
    /\ Running("apply") /\ Top.svc \in Repos
    /\ \/ /\ source' = [source EXCEPT ![Top.svc] = url[Top.svc]]
          /\ Now("update", <<>>) /\ UNCHANGED <<listed, result>>
          /\ LET preview == Top.svc = "fips-updates" /\ Present("fips-preview")
             IN  Hide(IF preview THEN "preview" ELSE "kernel",
                      preview \/ (kernel = "0" /\ Top.svc \in Fips))
       \/ Unwind("raise") /\ UNCHANGED <<source, listed, hidden>>
       \/ DropSource
    /\ Inside /\ UNCHANGED <<packages, livepatch, once>>

\* apt update for the new source; if it fails the source is removed again.  enable goes on
\* to the packages, unless it is --access-only; setup_apt_config alone is done.
UpdateLists ==
    /\ Running("update")
    /\ \/ /\ listed' = listed \cup {Top.svc}
          /\ IF Top.op = "set_up" THEN Done
             ELSE Now(IF Top.access THEN "record" ELSE "install", <<>>) /\ UNCHANGED result
          /\ UNCHANGED <<source, hidden>>
       \/ /\ source' = [source EXCEPT ![Top.svc] = Absent]
          /\ listed' = listed \ {Top.svc}
          /\ Hide("lost_source", Brings(Top.svc) \cap packages # {})
          /\ Unwind("raise")
    /\ Inside /\ UNCHANGED <<packages, livepatch, once>>

\* apt can install a metapackage if some repository has it.
Available(s) == \A p \in Brings(s) \ packages :
                    \E r \in listed : p \in Brings(r) /\ source[r] \in Urls

\* install_packages; if that fails the apt source is removed -- also for the boot-time
\* script, whose cleanup_on_failure=False FIPS does not pass on.
InstallPackages ==
    /\ Running("install")
    /\ \/ /\ Available(Top.svc)
          /\ packages' = packages \cup Brings(Top.svc)
          /\ IF Top.op = "enable" THEN Now("record", <<>>) /\ UNCHANGED result ELSE Done
          /\ UNCHANGED <<source, listed, hidden>>
       \/ Brings(Top.svc) # {} /\ DropSource /\ UNCHANGED packages
    /\ Inside /\ UNCHANGED <<livepatch, once>>

\* fips-updates is remembered for good; for ESM the MOTD is updated, which may raise.
RecordOnce ==
    /\ Running("record")
    /\ \/ once' = (once \/ Top.svc = "fips-updates") /\ Done
       \/ Top.svc \in {"esm-apps", "esm-infra"} /\ Unwind("raise") /\ UNCHANGED once
    /\ Inside /\ UNCHANGED <<machine, hidden>>

-----------------------------------------------------------------------------
(* Disabling a service. *)

\* can_disable, and the refusal that disable() deals with: active dependent services.
TryDisable ==
    /\ Running("disable")
    /\ IF CanDisable(Top.svc)
       THEN Now("clear", BlockingDependents(Top.svc)) /\ UNCHANGED result
       ELSE Unwind("no")
    /\ Inside /\ UNCHANGED <<machine, once, hidden>>

\* Mutant of Uninstall: the metapackage stays.
UninstallNothing ==
    /\ Running("uninstall") /\ Top.svc \in Repos
    /\ Now("unconfigure", <<>>)
    /\ Inside /\ UNCHANGED <<machine, once, result, hidden>>

\* remove_packages, before the source goes.
Uninstall ==
    /\ Running("uninstall") /\ Top.svc \in Repos
    /\ \/ packages' = packages \ Brings(Top.svc) /\ Now("unconfigure", <<>>) /\ UNCHANGED result
       \/ Brings(Top.svc) \cap packages # {} /\ Unwind("raise") /\ UNCHANGED packages
    /\ Inside /\ UNCHANGED <<source, listed, livepatch, once, hidden>>

\* Mutant of RemoveSource: the repository's lists stay.
RemoveSourceNotLists ==
    /\ Running("unconfigure") \/ Running("replace")
    /\ source' = [source EXCEPT ![Top.svc] = Absent]
    /\ \/ /\ listed' = Listed(source')
          /\ IF Top.at = "replace" THEN Now("apply", <<>>) /\ UNCHANGED result ELSE Done
       \/ Unwind("raise") /\ UNCHANGED listed
    /\ Inside /\ UNCHANGED <<packages, livepatch, once, hidden>>

\* remove_apt_config: the files go; apt update or the removal of packages may fail.  For a
\* refresh with a new URL ("replace") the source is written again.
RemoveSource ==
    /\ Running("unconfigure") \/ Running("replace")
    /\ source' = [source EXCEPT ![Top.svc] = Absent]
    /\ \/ /\ listed' = Listed(source')
          /\ IF Top.at = "replace" THEN Now("apply", <<>>) /\ UNCHANGED result ELSE Done
       \/ listed' \in {listed \ {Top.svc}, Listed(source')} /\ Unwind("raise")
    /\ Inside /\ UNCHANGED <<packages, livepatch, once, hidden>>

DisableLivepatch ==
    /\ Running("uninstall") /\ Top.svc = "livepatch"
    /\ \/ livepatch' = FALSE /\ Done
       \/ Unwind("raise") /\ UNCHANGED livepatch
    /\ Inside /\ UNCHANGED <<source, listed, packages, once, hidden>>

-----------------------------------------------------------------------------
(* Commands. *)

Outside == UNCHANGED <<world, machine, host, once>>
Same == UNCHANGED <<attached, token, cached, old, moved, hidden>>

Start(name, label, list) ==
    /\ Between("idle")
    /\ command' = name /\ at' = label /\ todo' = list /\ failed' = FALSE /\ result' = "ok"

Idle ==
    /\ at' = "idle" /\ command' = "none" /\ todo' = <<>> /\ failed' = FALSE /\ old' = Nobody
    /\ stack' = <<>> /\ result' = "ok"

\* An attach obtains the token; enabling the default services is left to Enable.
Attach ==
    /\ Between("idle") /\ ~attached
    /\ attached' = TRUE
    /\ grant' = [s \in Svcs |-> IF s \in world THEN "yes" ELSE Absent]
    /\ Outside /\ UNCHANGED <<url, cached, control, stack, result, moved, hidden>>

\* pro enable (after its refresh) and the API: nothing to do for a service in use.
Enable(s, access) ==
    /\ attached /\ s \in world
    /\ ~(Applicable(s) /\ grant[s] = "yes" /\ Status(s) # "disabled")
    /\ Start("enable", "end", <<>>)
    /\ Push(Frame("enable", s, "enable", access, <<>>))
    /\ Outside /\ Same

\* pro disable, and the API's, which has checks of its own.
Disable(s) ==
    /\ attached /\ s \in world
    /\ Start("disable", "end", <<>>)
    /\ Push(Frame("disable", s, "disable", FALSE, <<>>))
    /\ Outside /\ Same

\* The status cache follows an enable that succeeded and a disable that did not raise;
\* the API's disable is silent if it returned False.
End ==
    /\ Between("end")
    /\ \/ result = "ok" /\ at' = "status" /\ UNCHANGED <<command, todo, failed, old, result, stack>>
       \/ result = "no" /\ command = "disable" /\ at' = "status"
             /\ UNCHANGED <<command, todo, failed, old, result, stack>>
       \/ result # "ok" /\ Idle
    /\ Outside /\ UNCHANGED <<attached, token, cached, moved, hidden>>

\* status.status as root: at the end of a command, or "pro status".
WriteStatus ==
    /\ Between("status") \/ Between("idle")
    /\ cached' = {s \in Svcs : attached /\ Active(s)}
    /\ Idle
    /\ Outside /\ UNCHANGED <<attached, token, moved, hidden>>

\* Mutant of DetachCli: dependent services are not ignored when the list is made.
DetachCliBlocked ==
    /\ attached
    /\ Start("detach_cli", "detach",
             Select(DisableOrder, {s \in world : CanDisable(s) /\ BlockingDependents(s) = <<>>}))
    /\ Outside /\ Same /\ UNCHANGED stack

\* pro detach makes its list before it disables anything; the API looks at each service
\* in its turn.
DetachCli ==
    /\ attached
    /\ Start("detach_cli", "detach", Select(DisableOrder, {s \in world : CanDisable(s)}))
    /\ Outside /\ Same /\ UNCHANGED stack

DetachApi ==
    /\ attached
    /\ Start("detach_api", "detach", Select(DisableOrder, world))
    /\ Outside /\ Same /\ UNCHANGED stack

\* A service that cannot be disabled is passed over; an exception ends the detach.
DetachNext ==
    /\ Between("detach") /\ todo # <<>> /\ result # "raise"
    /\ todo' = Tail(todo)
    /\ IF command = "detach_cli" \/ CanDisable(Head(todo))
       THEN Push(Frame("disable", Head(todo), "disable", FALSE, <<>>))
       ELSE UNCHANGED stack
    /\ Outside /\ Same /\ UNCHANGED <<command, at, failed, result>>

\* The token and the state files go; services-once-enabled stays.
DetachEnd ==
    /\ Between("detach") /\ (todo = <<>> \/ result = "raise")
    /\ Idle
    /\ IF result = "raise" THEN UNCHANGED <<attached, token, cached, marker>>
       ELSE /\ attached' = FALSE /\ grant' = Nobody.grant /\ url' = Nobody.url
            /\ cached' = NoCache /\ marker' = FALSE
    /\ UNCHANGED <<world, machine, kernel, upgraded, once, moved, hidden>>

-----------------------------------------------------------------------------
(* Refresh. *)

Refresh ==
    /\ attached
    /\ Start("refresh", "token", <<>>)
    /\ Outside /\ Same /\ UNCHANGED stack

\* The server's new word on one service.
Contract ==
    \E s \in world, g \in Grants, u \in Urls :
        /\ grant' = [grant EXCEPT ![s] = g]
        /\ url' = [url EXCEPT ![s] = u]
        /\ <<g, u>> # <<grant[s], url[s]>> /\ (g = Absent => u = url[s])
        /\ Hide("contract", Present(s) /\ (g = Absent \/ u # url[s]))

\* contract.refresh writes the token before anything is done about it.
RefreshToken ==
    /\ Between("token")
    /\ \/ /\ old' = [grant |-> grant, url |-> url]
          /\ \/ world \in ContractMoves /\ ~moved /\ Contract /\ moved' = TRUE
             \/ UNCHANGED <<token, moved, hidden>>
          /\ todo' = Select(EnableOrder, {s \in world : /\ grant'[s] # Absent
                                                       /\ \/ grant'[s] # grant[s]
                                                          \/ url'[s] # url[s]})
          /\ at' = "deltas"
          /\ UNCHANGED <<command, failed, result, stack>>
       \/ Idle /\ UNCHANGED <<token, moved, hidden>>
    /\ Outside /\ UNCHANGED <<attached, cached>>

UrlDelta(s) == old.grant[s] = Absent \/ old.url[s] # url[s]
Transition(s) == old.grant[s] = "yes" /\ grant[s] = "no"

\* Mutant of Known: the cache is not asked.
KnownNow(s) == Status(s) # "disabled"

\* The status a delta goes by: the cached one if the directives have changed.
Known(s) == IF UrlDelta(s) /\ cached # NoCache THEN s \in cached ELSE Status(s) # "disabled"

\* _check_apt_url_is_applied = False.
Outdated(s) == source[s] = "commented" \/ (UrlDelta(s) /\ source[s] # url[s])

\* The client is pointed at the new server, or enabled with the new token, if it is running.
LivepatchMoves(s) == s = "livepatch" /\ ~Transition(s) /\ livepatch /\ UrlDelta(s)

\* process_contract_deltas for the next service: disable it, configure it again or leave
\* it; a missing source file is an error.  For livepatch the URL stands for the server and
\* the token its client is enabled with, and it alone is enabled, asked or not, if the
\* change says enableByDefault.
DeltaNext ==
    /\ Between("deltas") /\ todo # <<>>
    /\ todo' = Tail(todo) /\ result' = "ok"
    /\ LET s == Head(todo)
           repair == s \in Repos /\ ~Transition(s) /\ Known(s)
       IN  /\ failed' = (failed \/ result = "raise" \/ (repair /\ source[s] = Absent))
           /\ \/ IF Transition(s) /\ Known(s) /\ CanDisable(s) /\ BlockingDependents(s) = <<>>
                 THEN Push(Frame("disable", s, "disable", FALSE, <<>>))
                 ELSE IF repair /\ source[s] # Absent /\ Outdated(s)
                 THEN Push(Frame("set_up", s, "replace", FALSE, <<>>))
                 ELSE IF LivepatchMoves(s)
                 THEN Push(Frame("set_up", s, "apply", FALSE, <<>>))
                 ELSE UNCHANGED stack
              \/ s = "livepatch" /\ ~Transition(s) /\ Push(Frame("enable", s, "enable", FALSE, <<>>))
    /\ Outside /\ Same /\ UNCHANGED <<command, at>>

\* A refresh at boot goes on to the services the release lacks, unless it has failed.
DeltasEnd ==
    /\ Between("deltas") /\ todo = <<>>
    /\ IF command = "boot" /\ ~failed /\ result # "raise"
       THEN /\ todo' = Select(EnableOrder, world)
            /\ at' = "upgrade" /\ old' = Nobody /\ result' = "ok"
            /\ UNCHANGED <<command, failed, stack>>
       ELSE Idle
    /\ Outside /\ UNCHANGED <<attached, token, cached, moved, hidden>>

-----------------------------------------------------------------------------
(* Boot and release upgrade. *)

\* The boot-time script: if the status cache says that FIPS is on, fix_pro_pkg_holds sets
\* up its source again and installs its package.  The server lists FIPS among its
\* resources, so the cache has an entry for it; one without is taken for a yes, not modelled.
Boot ==
    /\ world \in Boots /\ attached /\ marker
    /\ IF cached # NoCache /\ "fips" \in cached /\ grant["fips"] # Absent
       THEN /\ Start("boot", "holds", <<>>)
            /\ Push(Frame("set_up", "fips", "apply", FALSE, <<>>))
            /\ Hide("stale_cache", source["fips"] \notin Urls)
       ELSE Start("boot", "token", <<>>) /\ UNCHANGED <<stack, hidden>>
    /\ Outside /\ UNCHANGED <<attached, token, cached, old, moved>>

\* Whether or not that worked ...
BootInstalls ==
    /\ Between("holds")
    /\ Push(Frame("install", "fips", "install", FALSE, <<>>))
    /\ at' = "installed"
    /\ Outside /\ Same /\ UNCHANGED <<command, todo, failed, result>>

\* Mutant of BootRefreshes: the script goes on without the package.
BootRefreshesAnyway ==
    /\ Between("installed")
    /\ at' = "token" /\ result' = "ok"
    /\ UNCHANGED <<command, todo, failed, old, stack>>
    /\ Outside /\ UNCHANGED <<attached, token, cached, moved, hidden>>

\* ... the package must be there before the script goes on.
BootRefreshes ==
    /\ Between("installed")
    /\ IF result = "raise" THEN Idle
       ELSE at' = "token" /\ UNCHANGED <<command, todo, failed, old, result, stack>>
    /\ Outside /\ UNCHANGED <<attached, token, cached, moved, hidden>>

\* Mutant of UpgradeNext: disable() instead of _perform_disable(), with its conditions.
UpgradeNextDisable ==
    /\ Between("upgrade") /\ todo # <<>> /\ result # "raise"
    /\ todo' = Tail(todo)
    /\ LET s == Head(todo)
       IN  IF Status(s) = "enabled" /\ ~Applicable(s)
           THEN Push(Frame("disable", s, "disable", FALSE, <<>>))
           ELSE UNCHANGED stack
    /\ Outside /\ Same /\ UNCHANGED <<command, at, failed, result>>

\* process_contract_delta_after_apt_lock: disable what does not apply to this release,
\* with no thought for other services.
UpgradeNext ==
    /\ Between("upgrade") /\ todo # <<>> /\ result # "raise"
    /\ todo' = Tail(todo)
    /\ LET s == Head(todo)
       IN  IF Status(s) = "enabled" /\ ~Applicable(s)
           THEN Push(Frame("disable", s, "uninstall", FALSE, <<>>))
           ELSE UNCHANGED stack
    /\ Outside /\ Same /\ UNCHANGED <<command, at, failed, result>>

\* At boot the marker goes last; a script that failed leaves it for the next boot.
UpgradeEnd ==
    /\ Between("upgrade") /\ (todo = <<>> \/ result = "raise")
    /\ marker' = (marker /\ (command # "boot" \/ result = "raise"))
    /\ Idle
    /\ UNCHANGED <<world, attached, token, machine, kernel, upgraded, once, cached, moved, hidden>>

\* do-release-upgrade may comment the sources out; its script follows.
ReleaseUpgrade ==
    /\ world \in ReleaseMoves /\ ~upgraded /\ attached
    /\ Start("release", "upgrade", Select(EnableOrder, world))
    /\ upgraded' = TRUE
    /\ \/ UNCHANGED source
       \/ source' = [s \in Svcs |-> IF source[s] = Absent THEN Absent ELSE "commented"]
    /\ listed' = Listed(source')
    /\ Hide("upgrade", source # [s \in Svcs |-> Absent] \/ livepatch)
    /\ UNCHANGED <<world, attached, token, packages, livepatch, kernel, marker, once, cached,
                   old, moved, stack>>

\* A reboot, with or without the kernel FIPS asks for.
Reboot ==
    /\ world \in Boots /\ Between("idle")
    /\ kernel' \in IF "ubuntu-fips" \in packages THEN {"0", "1"} ELSE {"absent", "0"}
    /\ Hide("kernel", kernel' = "0" /\ \E s \in Fips : source[s] # Absent)
    /\ UNCHANGED <<world, attached, token, machine, marker, upgraded, once, cached, control,
                   stack, result, moved>>

\* An upgrade of the client's package asks for the boot-time script.
MarkBoot ==
    /\ world \in Boots /\ Between("idle") /\ attached
    /\ marker' = TRUE
    /\ UNCHANGED <<world, attached, token, machine, kernel, upgraded, once, cached, control,
                   stack, result, moved, hidden>>

\* The daily apt update.
AptUpdate ==
    /\ Between("idle")
    /\ listed' = Listed(source)
    /\ UNCHANGED <<world, attached, token, source, packages, livepatch, host, once, cached,
                   control, stack, result, moved, hidden>>

\* A crash: apt may not know a source that was just written.
Kill ==
    /\ world \in Crashes /\ ~Between("idle")
    /\ Idle
    /\ Hide("crash", listed # Listed(source))
    /\ Outside /\ UNCHANGED <<attached, token, cached, moved>>

-----------------------------------------------------------------------------

Operate ==
    \/ TryEnable \/ Descend \/ EnableLivepatch \/ WriteSource \/ UpdateLists
    \/ InstallPackages \/ RecordOnce \/ TryDisable \/ Uninstall \/ RemoveSource
    \/ DisableLivepatch

Conduct ==
    \/ End \/ WriteStatus \/ DetachNext \/ DetachEnd \/ RefreshToken \/ DeltaNext
    \/ DeltasEnd \/ BootInstalls \/ BootRefreshes \/ UpgradeNext \/ UpgradeEnd

Command ==
    \/ Attach \/ DetachCli \/ DetachApi \/ Refresh \/ Boot
    \/ \E s \in Svcs : Disable(s) \/ \E access \in BOOLEAN : Enable(s, access)

Environment == ReleaseUpgrade \/ Reboot \/ MarkBoot \/ AptUpdate \/ Kill

Next == Operate \/ Conduct \/ Command \/ Environment

Spec == Init /\ [][Next]_vars

-----------------------------------------------------------------------------
(* Properties. *)

Ops == {"enable", "disable", "set_up", "install"}
Places == {"enable", "disable", "make_room", "provide", "clear", "apply", "update",
           "install", "record", "uninstall", "unconfigure", "replace"}
Frames == [op : Ops, svc : Svcs, at : Places, access : BOOLEAN, todo : Seq(Svcs)]

\* The types of the variables; apt policy knows no repository that has no source.
TypeOK ==
    /\ world \subseteq Svcs /\ attached \in BOOLEAN
    /\ grant \in [Svcs -> Grants] /\ url \in [Svcs -> Urls]
    /\ source \in [Svcs -> Urls \cup {Absent, "commented"}]
    /\ listed \subseteq Listed(source)
    /\ packages \subseteq Packages /\ livepatch \in BOOLEAN
    /\ kernel \in {"absent", "0", "1"} /\ once \in BOOLEAN
    /\ cached = NoCache \/ cached \subseteq Svcs
    /\ marker \in BOOLEAN /\ upgraded \in BOOLEAN /\ moved \in BOOLEAN
    /\ command \in {"none", "enable", "disable", "detach_cli", "detach_api", "refresh",
                    "boot", "release"}
    /\ at \in {"idle", "end", "status", "detach", "token", "deltas", "holds", "installed",
               "upgrade"}
    /\ todo \in Seq(Svcs) /\ stack \in Seq(Frames) /\ result \in {"ok", "no", "raise"}
    /\ failed \in BOOLEAN
    /\ old \in [grant : [Svcs -> Grants], url : [Svcs -> Urls]]
    /\ hidden \in {"nothing", "lost_source", "stale_cache", "kernel", "preview", "contract",
                   "upgrade", "crash"}

\* Nothing has put a service out of the client's sight.
InSight == hidden = "nothing"

\* s calls t incompatible.
Excludes(s, t) == \E i \in DOMAIN Incompatible(s) : Incompatible(s)[i] = t

\* "The services in this list must be enabled for this service to be enabled", "They cannot be
\* enabled at the same time" (dependencies/v1.py): through every nested enable and disable,
\* whichever step of it fails or is the last, no service stands without the ones it requires,
\* and of two that name each other incompatible at most one is on the machine.  fips is never
\* on a machine that had fips-updates, even one detached and attached again.
StandTogether ==
    InSight =>
        /\ \A s \in Svcs : Present(s) => \A i \in DOMAIN Required(s) : Present(Required(s)[i])
        /\ \A s, t \in Svcs : Excludes(s, t) /\ Excludes(t, s) => ~(Present(s) /\ Present(t))
        /\ once => ~Present("fips") /\ ~Present("fips-preview")

\* A detach that ends, in either of its forms, leaves no service behind: neither form
\* passes over a service because of another one that it has yet to disable.
DetachLeavesNothing == InSight /\ ~attached => \A s \in Svcs : ~Present(s)

\* The metapackage of a service is never installed without a repository to update it from.
PackagesHaveSource ==
    InSight => \A p \in packages : \E s \in Svcs : p \in Brings(s) /\ Present(s)

\* A refresh that ends without a failure leaves no entitled service that the status cache
\* called enabled with the apt source of an old URL.
RefreshMovesSources ==
    [][DeltasEnd /\ ~failed /\ result # "raise" =>
        \A s \in cached \cap Repos :
            grant[s] = "yes" /\ Present(s) => source[s] = url[s]]_vars

\* The script of a release upgrade, and of a boot, that goes through leaves no service
\* enabled that does not apply to the machine, although disable() refuses those.
UpgradeLeavesApplicable ==
    [][UpgradeEnd /\ result # "raise" =>
        \A s \in Svcs : Status(s) = "enabled" => Applicable(s)]_vars

\* The boot-time script gives up its marker only if FIPS, where the status cache says it was
\* in use, has its package again, or was disabled by the contract or the release.
BootRestoresFips ==
    [][UpgradeEnd /\ marker /\ ~marker' /\ "fips" \in cached =>
        \/ "ubuntu-fips" \in packages
        \/ grant["fips"] # "yes" \/ ~Applicable("fips")]_vars

=============================================================================
