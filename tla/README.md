# Ubuntu Pro Client in TLA+

A model of the Ubuntu Pro Client (`pro`), TLC configurations that check it on small
instances, and theorems about it that TLAPS proves for every instance. Source paths below
are relative to the repository's root; `uaclient/...` stands for `src/uaclient/...`.

## 1. The system

The client attaches a machine to an Ubuntu Pro contract and enables the contract's services
on it. There is no central process. Many short-lived ones, most of them root, share a
directory of state files (`/var/lib/ubuntu-advantage`), the machine's apt configuration and
packages, and a lock file: `pro` commands, API calls from other programs, `ua-timer.service`,
the daemon `ubuntu-advantage.service`, the services that apt and the boot start, and the
maintainer scripts. They meet in the files only, so everything hard about the system is in
the order in which files are read and written, in what a process remembers of a file it has
read, and in what is left when one of them fails or is killed between two writes.

| component | state it keeps | operations | interacts with |
|---|---|---|---|
| lock (`uaclient/lock.py`) | lock file (pid, command), a notice | `RetryLock` enter/exit, `check_lock_info`, the clears of the error handlers | everything that changes the machine |
| attachment (`files/machine_token.py`, `actions.py`, attach, detach) | two token files, a cache per process, machine id, attachment data, two markers, `ua-timer` | attach, auto-attach, detach (command, API), refresh, metering, messaging | contract server, services, lock |
| services (`entitlements/`, `contract.py` deltas) | apt sources, packages, livepatch, kernel, the status cache, two marker files | enable, disable, detach's loop, refresh's deltas, boot script, release upgrade | apt, snap, the token |
| enable and disable commands (`cli/enable.py`, `cli/disable.py`) | `status.json` | the loop over the services named, prompts, report | services, lock |
| retry daemon (`daemon/`, `lib/daemon.py`, `lib/auto_attach.py`) | retry position, flag file, MOTD, two notices | auto-attach at boot, retries for a month, polling for a licence | attachment, lock, cloud |
| timer jobs (`lib/timer.py`, `timer/`) | per-job next run, contract message | metering, messaging | contract server |
| magic attach (`api/u/pro/attach/magic`) | a token at the server | initiate, wait, revoke | contract server |
| security fix (`api/u/pro/security/fix`, `cli/fix.py`) | plans, the packages | plan, execute | apt, attachment, services |
| CVE report (`api/u/pro/security/cves`) | data, its tag, a cached result and its date | fetch, compare, answer | dpkg |
| package reports and apt hook (`security_status.py`, `apt.py`, `apt-hook/`) | apt's cache, the private ESM cache | status, summary, counts; the job that keeps the cache | enable, disable, apt |
| livepatch and reboot reports (`livepatch.py`, `reboot_required`) | cached answer of livepatch's server | two inquiries | livepatch's daemon, the host |
| configuration (`config.py`, `cli/config.py`) | private and public settings, apt's and others' proxies | set, unset, refresh config | apt, snapd, livepatch, lxd |
| apt files (`apt.py`, `entitlements/repo.py`, `lib/*.py`) | sources, keys, pins, auth file | set up and remove a repository, conversion of sources | apt |
| apt news (`apt_news.py`, `lib/apt_news.py`) | the API's file and apt's | update by service and commands, switching off | attachment |
| packaging (`debian/`, `lib/migrate*`) | all of the above, in older forms | install, upgrade, purge | all |
| contract overrides, HTTP, clouds, API framework, output | none of their own, or a remote one | | |

What makes each correct, and how it can go wrong, is the `hazards` list of `PROJECT.json`.

## 2. Modules

| module | models | checked through | proofs |
|---|---|---|---|
| `ProLock` | the lock file with every kind of process that takes, inspects or clears it | itself | `ProLock_proofs` |
| `Subscription` | abstract: one subscription that is obtained, kept and dropped | as a property of `Attachment` | |
| `Attachment` | the token files and what goes with them; the processes that write them | `MCAttachment` | `Attachment_proofs` |
| `Services` | the services, and what enables, disables and updates them | `MCServices` | `Services_proofs` |
| `AutoAttach` | boot service, daemon, the commands around them | `MCBackground` | `Background_proofs` |
| `TimerJobs` | metering and messaging | `MCBackground` | `Background_proofs` |
| `MagicAttach` | client, second client, server token | `MCBackground` | `Background_proofs` |
| `ContractTerms` | a service's document with its overrides, in memory, in two files and at the server | `MCBackground` | `Entitlement_proofs` |
| `ServicePackages` | the packages and snaps of one service's enable, disable and purge | `MCBackground` | `Entitlement_proofs` |
| `PackageReports` | package caches, the ESM cache's job, the client's and the hook's reports | `MCReports` | `Reports_proofs` |
| `CveReport` | concurrent runs of the CVE report over its four files | `MCReports` | `Reports_proofs` |
| `LivepatchReport` | reboot-required and livepatch-support inquiries | `MCReports` | `Reports_proofs` |
| `SecurityFix` | plans of fixes and their execution | `MCSecurityFix`, `MCMachine` | `Commands_proofs` |
| `Settings` | config set, unset, refresh config | `MCMachine` | `Commands_proofs` |
| `PackageUpgrade` | maintainer scripts | `MCMachine` | `Machine_proofs` |
| `AptFiles` | sources, keys, pins, auth file | `MCMachine` | `Machine_proofs` |
| `AptNews` | the two files of apt news | `MCMachine` | `Machine_proofs` |
| `ServiceCommands` | the commands enable and disable on several services | `MCServiceCommands`, `MCMachine` | `Commands_proofs` |

`MCBackground`, `MCReports` and `MCMachine` hold several components that share no variable.
Interleaving those would multiply states and show nothing, so a variable `scene` picks the
component at the start and each behaviour is one of that component; the others stand still
in one initial state. Where components do meet, they are in one module (the daemon with the
attach commands, the job of the ESM cache with enable and disable) or the one is an action
of the other with all its outcomes (an attach in `AutoAttach`, an enable in `SecurityFix`).

### ProLock

One process per pid. A label stands for the next system call of `RetryLock` or of an error
handler: `check` reads the file, `ps` looks for the process it names, `remove` deletes a stale
file, `write` and `notice` are `grab_lock`, `body` the with statement, `delete` and `unnotice`
are `__exit__`, `clear` is the API calls' `except Exception`, `main` is `main_error_handler`.
`CONSTANTS` say of which kind a process is: command, API call, boot script, daemon, viewer;
a process may be of several. `breach` is a history variable: the first step that took the
lock from a live process.

### Attachment

A process runs one command, fixed at the start by `Worlds`. Its steps are the reads, writes
and deletes of files in the order of the code; `cache` is `MachineTokenFile._machine_token`,
which only the process' own writes and deletes clear. A token is named after the process
that obtained it, so a token that comes back, or changes, is seen. Here the lock is what
`RetryLock` means to be; `ProLock` says when it is not. The marker of the series and the
notice of a limited release are in the model because commands write them on their way, and a
kill may fall between; no property speaks of them.

### Services

Nine services with their real `incompatible_services`, `required_services` and
`dependent_services`. The state of the machine is what the code changes: the apt source file
of each service (`source`, the URL in it or `"commented"`), what apt policy knows (`listed`),
the metapackages, livepatch, the FIPS kernel flag, `services-once-enabled`, the status cache
and the marker of the boot-time script. What the client believes is computed from that as in
the code: `RepoOn`, `Status`, `Applicable`, `Active`, the three `Blocking...` lists.

Enabling a service may disable and enable others, which may do the same, so the program's
call stack is a variable. A frame is one `enable`, `disable`, `setup_apt_config` or
`install_packages` with its place in that method; each call of apt, snap or livepatch is a
step with its failures. An exception or a `False` unwinds the stack to the command
(`result`), which goes on as its code does: `detach` with the next service after a `False`,
`refresh` with the next one after an exception, the boot-time script with the installation
after a failed set-up. `at` and `todo` are the place and the loop of the command. Commands
run one at a time: this is what the lock is for. Enabling livepatch by default after a change of
the contract (`enableByDefault`) may fail like any other enable, and so may the refresh of the
MOTD when a service is recorded as once enabled. The boot-time script asks the status cache
whether FIPS is on; that the cache has an entry is assumed, as the server lists the service.

`hidden` is a history variable. There are states from which the client cannot see a
service that is on the machine: the kernel flag is 0, apt has not read a source because of a
crash, the contract dropped the service or its URL, a release upgrade commented the sources
out, the boot-time script went by a stale cache, fips-updates was enabled beside fips-preview,
which then no longer applies, or cleaning up after a failed installation removed the source of
an installed package. `hidden` names what first led there, and the
exclusion properties are about the states before that (`InSight`).

### ServiceCommands

The level above: `pro enable` and `pro disable` with several services. A service is on or
off. `cmd` is the command's record: where it is, the list of enabled services it read when
it started (`cli/enable.py:507`), what it asked and was told, what it moved. Each turn asks
from that list, acts on the machine as it is, may fail half-way (`Break`) and writes
`status.json` if it did not; `Elsewhere` is another process, `apart` says there was none.

### AutoAttach, TimerJobs, MagicAttach

`AutoAttach` has one variable per file the three parties share: the flag under `/run`, the
retry position, the MOTD, the two notices; the daemon's label walks through
`retry_auto_attach` (resume, save, announce, sleep, try) and through `poll_for_pro_license`;
`op` and `at` are the user's command. `StopDaemon` kills the daemon where it is, as
`systemctl stop` does, or fails, which the code passes over with a warning: then the daemon
goes on beside an attached machine. A boot that fails to attach writes its three files in
three steps. `Machines` fixes what the machine's cloud supports and which commands
its users use.

`TimerJobs` has the record on disk (`jobs`) and the copy a run works on (`mem`), the
server's and the configured interval, and the expiry as stored and as the server knows it.
A run takes the date once (`today`). The clock may be set back, the record lost or garbled.

`MagicAttach` has the client's loop with its two counters (attempts; errors in a row), the
revocation it tries at the end, and a server token that a browser confirms, a clock expires
and another client revokes.

### ContractTerms, ServicePackages

`ContractTerms`: the document the contract has of a service, with overrides by release, cloud
and variant. `offer` is the server's, `private` and `public` are root's token and its copy for
everyone, `document` is what the process at work has in memory. Attach and refresh write both
files, the answer to an activity report or to an expiry check writes back the document it
worked on, with its overrides applied, and detach deletes the copy first; `deltas` is what a
refresh finds changed. History: `agreed` (the server's last answer), `rewritten` (the releases
under which a document was written back) and `torn` (an end between two writes). The terms
stand for the keys the public copy has fields for; what it drops (`aptKey`, `requiredSnaps`,
`requiredPackages`, `onlySeries`) only root's commands read.

`ServicePackages`: what `enable` installs for one service (required snaps and packages, the
metapackage, a kernel, packages wanted if others are installed) and what `disable --purge` puts
back to Ubuntu's version or removes (`plan`). Every call of apt or snap may fail, after any part
of its packages (`Partly`), and others install and remove packages in between (`upset`). `declined` (history) is a kernel the user or
the code left in place.

### PackageReports, CveReport, LivepatchReport

`PackageReports`: archive, apt's lists, the private lists, the sources of the two ESM
services, and which of them the server has for the release (`available`: the job of the private
cache passes over the other); the report functions of `security_status.py` and of `json-hook.cc`/`esm-counts.cc`
are operators over them. Enable and disable act on the private cache in their own order,
the job of `update_esm_caches` beside them in its own.

`CveReport`: a run keeps data and tag in memory and saves four files one after the other;
two runs, root or not, with and without options, killed anywhere. An answer may come without
an etag (`SkipEtag`): the old tag then stays beside the new data.

`LivepatchReport`: the reads of an inquiry are steps, the machine changes between them;
`kept` is the cached answer with its age, `heard` (history) the last answer of the server
for each kernel.

### SecurityFix

A plan is a record with one part per pocket, in the fixed order of the code's steps; `MakePlan`
makes the next one from the issue and the host as it is then, and on an unattached machine with
old lists updates the ESM cache first, at most once and perhaps in vain. If that fails the plan
carries a warning (`warned`), and its expected status is "still-affected" (`Expected`). The
execution is a walk through stages and pockets, with the command's prompts or the API's
refusals. All plans are made before the first is executed. At any time another process may
attach or detach the machine, enable or disable a service (`SubscribeElsewhere`).

`ReportIsTrue` has two exceptions, both of them the code's. `apt-get install --only-upgrade`
exits 0 if the sources of an update are gone, and the issue is reported fixed
(`cli/fix.py:679-698`): packages of a service that others took away since the request began
(`withdrawn`) are excused. And a plan with the warning of the cache expects "still-affected" of
an issue that the execution may well fix: the end is then the one expected, or the one expected
without that warning. That others do not install or remove packages meanwhile is assumed.

### Settings, PackageUpgrade, AptFiles, AptNews

`Settings`: a command reads all settings, configures what is outside, writes all settings,
private then public file. Apt's file, snapd, livepatch and lxd are told one after the other
(`told`): snapd if it is installed and livepatch if it is enabled (`there`), so an unset may
leave the proxy of one that is not, for the day it is enabled again; enabling a repository or
livepatch tells some of them too. lxd is told its mode in lower case, but the mode is stored as
typed; one in capitals makes the redaction raise after the private write (`RedactRaises`) and is
read back as none. A detach deletes lxd's file and leaves the setting (`Unsubscribe`).

`doubt` (history) holds, facet by facet - apt, snap, livepatch, lxd, the public copy - what the
steps just described, an overlap or a kill may have left otherwise than the settings say; a
command that tells a facet its setting clears it, unless it was disturbed itself (`spoilt`).
What is not in doubt must agree with the file.

`PackageUpgrade`: preinst, unpacking and postinst with each migration step guarded by the
version upgraded from, cut short anywhere and run again. From 31 on the migrations of
`ubuntu-pro-client` come before the postinst of `ubuntu-advantage-tools`, earlier after it
(`AfterUnpacking`, `AfterTools`, `AfterMigrations`). `wanted` is what the user had: a proxy,
which stands for the settings that `migrate_user_config.py` lists, and in `rest` a field it
carries over, a field it does not, and a setting it does not list; the last two it drops without
a word. Whether a service is enabled the postinst asks `status.json` (`listed`), which may be
missing or old: before 27.13.5 it deletes source and key of a service that is on but not listed
there (`Swept`). Snapshot credentials are for archives at esm.ubuntu.com only (`usual`).
`UpgradeKeeps` says what survives: nothing is lost, in that what is not in force is in
`dpkg-bak`; without a cut or a warning the listed settings and carried fields are in force.

`AptFiles`: two hands, one under the
lock and one of a script without it; the auth file is a sequence, read and written back
whole, in which apt takes the first entry that fits. `AptNews`: writers look, fetch, write
the raw file and then the displayed one, or delete them in the other order, which is also what
follows a failing fetch or write. `config set apt_news` writes the news before it stores the
setting (`SwitchOn`), and with `false` hides them before it does (`Silence`, `SwitchOff`).

## 3. Runs

| run | instance | shows |
|---|---|---|
| `lock_safety` | a command, an API caller that lives on as a daemon, a boot script; 2 attempts; kills, Ctrl-C, failures | sections overlap only after one of four known steps; release, notice and lost races are in order |
| `lock_liveness` | `pro status`, an API command, the daemon | every attempt ends; a dead process' file is reclaimed |
| `attachment` | four processes; commands that decide under the lock, or that update a token nobody attaches or detaches | token files agree, detach detaches, refinement of `Subscription` |
| `services` | contracts of 2 to 4 services; crashes in some; one contract change, one release upgrade, reboots in others | nested operations, detach, packages, refresh, boot script, release upgrade |
| `background` | four kinds of machine; the timer over four days; a wait of six polls; three documents; a FIPS service | attaching without a user, timer, magic attach, and liveness of each; the terms in force; packages of a service |
| `reports` | two packages, two CVE runs, two kernels | reports agree with the machine and with each other |
| `machine` | see below | fix, settings, upgrade, apt's files, news, enable and disable |
| `lock_cli`, `attach_resurrect`, `fix_raises`, `fix_skips`, `enable_unasked` | the smallest instance | a promise that the code does not keep; see section 6 |

The largest are `machine` (2.4 million states) and `reports` (1.6 million). Type invariants
that TLAPS proves are not checked again by the runs; `services` checks its own.

Bounds, and why they are enough.

- Lock: three processes are the least for the worst race on a lock file: one that holds it,
  one that decides on an old reading, and one that the wrong removal lets in. Two attempts
  (`MaxRetries`) give a first and a last failure, and the loop treats all between alike.
- Attachment: a token is identified by the process that obtained it, so four processes give
  two attaches and two writers of old tokens.
- Services: each contract holds the services of one cluster of dependencies, everything
  around a kernel, and the ESM and ROS services; between clusters no list of the code has a
  member (the theorems cover contracts with all of them). An apt URL has an old and a new value, and one change of the contract concerns one
  service, as its deltas are processed one by one. Crashes are in the worlds where contract
  and release stand still, because a crash hides services for good and the properties of the
  moves are about what is in sight.
- Background: two intervals of retries are one that is followed by another and the last;
  one reboot gives a resumed position. Six polls and three forgiven errors let a streak of
  errors break, start again and be too long (the theorems cover all other values). Four days are an
  expiry with the stage before and the one after it, and two pings.
- Terms and packages (in `background`): releases 0 to 2, so that a document is written back
  under one and used under another. One document is an old contract's with its map of
  releases, one has an override of every kind, the heaviest first, and one has two overrides
  for the same cloud. The FIPS service has a kernel, a metapackage, a library of which Ubuntu
  has a version too, a package that cannot stay without the service's one, and a required tool.
- Reports: two packages, one per ESM service, with versions 0 to 2, so that two updates of
  one package, or of both, are in different pockets; a release past its standard support
  starts with at most one update from before. `Week = 1` stands for the
  seven days an answer is kept: one day short of too old, and too old. In `CveReport` one
  package and one issue stand for all, as the files are written whole. The constraint
  `Undisturbed` ends behaviours where the properties promise nothing any more: after a CVE
  run disturbed in one of five windows (`window`), and within an inquiry during which the
  host has changed (`inquiry.steady`).
- Machine: two source packages, one with two binaries, are the least for a fix that is half
  installed; requests with two issues give plans that an earlier fix makes stale; one change
  of the subscription by others (`MaxOthers`) falls between any two of their steps. Two editors
  of the settings, alike but for their names (symmetry), in two scenes: apt's two scopes, which
  exclude one another, and the settings of snapd, livepatch and lxd, the last with a mode in
  either case. Six prior versions, one between any two migrations; on each, either the settings
  vary or what the sweep and the snapshots depend on, as no step reads both. Three
  archives: one under esm with snapshots, two that share a key. Two lists of messages, a
  message before, in and after its time. Five services: a pair that excludes itself, a chain
  of three. In each scene one mishap per behaviour (`MaxMishaps`, `MaxCuts`, `MaxTrouble`,
  `MaxHitches`, `MaxUpsets`: an overlap, a kill or a failure): the properties say what holds
  without any, and what must hold again or still after one.

Deadlock is not checked where an idle machine with every process finished is a legal end.

Fairness. `lock_liveness`: weak fairness of `Proceed`, the steps that follow at once or after
`time.sleep`, per process. A running process that is not killed does take them. It is not
assumed of a process inside its section (a command may wait for apt or for the user forever),
of failures, kills or new commands. `background`: weak fairness of the boot service and of
the daemon's steps, which systemd runs and whose sleeps end; strong fairness of `PollAnswer`,
because a long poll that has an answer is answered, if not at the first attempt (the metadata
server is there again and again between errors); weak fairness of the magic-attach client,
whose every request ends with an answer or an error. None of the user, the server's changes,
reboots or kills.

History variables (called so where they are declared) are read by no guard but those of the
bounds: they record what a property needs to know of the past.

## 4. Theorems

TLAPS proves these for every value of the constants, within the assumptions named in each
module. Each module's theorems rest on one inductive invariant, a conjunction of named parts;
its types are proved first. The library's induction theorems take an operator as a parameter,
which no prover here can instantiate. Where a proof needs induction over a sequence it goes by
the least index that fails (`LeastNumber`, from well-foundedness of `<` on `Nat`).

### The lock and the subscription

`ProLock_proofs`: type correctness; `ExclusiveUntilBreached`, that sections do not overlap
before `breach` is set; that release is never the breaching step; that no process waits for
itself; that the notice has an owner. `ExclusiveUntilBreached` is not inductive: that nobody
else is in a section says nothing about the file the next process will look at. The invariant
`SectionOwnsLock` adds it: until the breach, a process that has written the file and not yet
deleted it is the one the file names, and none is in the detach that clears it halfway. Then
two processes in their sections are the same, and every step that puts a process there or
changes the file keeps this or sets `breach`. `NoSelfBlock` and `NoticeHasOwner` are inductive
with the types. Type correctness needs `TriesLeft`: a process that tries, or sleeps before it
tries again, has an attempt left.

`Attachment_proofs`: type correctness for every assignment of commands to processes. Under
the assumption `Locked`, that every process decides under the lock (stated in each theorem,
not as an axiom), also: the public token is never alone (`PublicImpliesPrivate`), detach
detaches, only an attach attaches, nothing is left inconsistent (`QuiescentConsistent`), and
the module implements `Subscription`. The invariants are `HolderAtWork`, the processes between
acquire and release are those that hold the lock, so there is one at most; `TokenInForce`,
what each place in a command may assume of the two files and of what the process remembers of
them: before the lock it remembers nothing, afterwards only the token in force; and
`SettledInv`, as long as nobody was killed: the files agree when the lock is free, and
`FilesAt`, what the one process at work has and has not yet written at each of its places.
`attach_resurrect` shows that without `Locked` the theorems are false.

### What runs beside the user (`Background_proofs`)

`MagicAttach`: types, with the two counters within their limits, and `ToldTheTruth`, for every
number of attempts and of forgiven errors. The property speaks of the last step only;
inductive is that the errors the client counts are not more than the failed connections in a
row (`errors <= down`), which only an answer of the server ends, and that each place of the
loop fits the token's history.

`TimerJobs`: `JobsInTime` for all intervals, expiries and clocks, as an action property from
two invariants. `Paced`: the record, which is in memory during a run and on disk between runs,
is never due before the last ping plus the server's interval; to look at one of the two only
is not inductive. `Ahead`: the expiry the machine believes in is never later than the server's.

`AutoAttach`: types, and with them that whoever is inside an attach holds the lock, which is
what makes two attaches exclude each other. `NoFalseAlarm`, that nothing says an attach failed
once one has succeeded and its stop of the daemon did not fail, follows from `Quiet`: from that
stop on the machine is attached and the daemon is off, so that nobody writes a notice again
behind the command's cleanup. `CountedAttempts` follows from `Counted`, which relates three copies of one
number: the attempts that failed, the loop's index, and the status file that a restarted
daemon resumes from; the file may lag, never lead.

### Terms and packages of a service (`Entitlement_proofs`)

`ContractTerms`: `TermsInForce`, `SameForEveryone` and `DeltasTell` for every set of documents
whose overrides select by release, cloud and variant. The difficulty is that a document is
written back with its overrides already applied, under one release, and read under another.
Two lemmas settle it: the weights tell any two sets of selectors apart, so that the order in
which overrides apply does not depend on their order in the document; and overrides applied
twice change nothing. `TermsInv` (types, `KeptOK`, `HeldOK`, `CopyOK`) says of the file, of
memory and of the copy that each is the server's document, possibly worked on.

`ServicePackages`: `KernelRemains` and `EndsAsAgreed` for every set of packages and kernels.
`PkgInv` adds to the types what each place may rely on (`PlaceOK`), that a kernel stays out of
the plan (`KernelKept`) and that the plan covers whatever of the repository is still installed
(`PlanCovers`), which is what a purge needs to end with nothing left.

### Services (`Services_proofs`)

The types, `StandTogether`, `DetachLeavesNothing` and `PackagesHaveSource`, for every set of
contracts, any services missing from the next release, and crashes, reboots, changes of the
contract and of the release wherever the constants allow them, all at once (in the run each
world has some of them). None is inductive: whether a step keeps them depends on every
operation that is still on the program's stack, however deep.

`ShapeInv` is about the stack itself: which operation may stand at which place (`PlaceFits`),
what it may still have to call (`ListFits`), who may have called whom (`Called`, `Above`), and
which commands have what on it (`CommandFits`). It holds in all states and implies the types.

`SightInv` is about the machine while nothing is hidden. `Seen`: what the client computes of a
service agrees with what is there, so that whatever is there can be disabled (`Disables`).
`CallsFit`: an operation that has asked what blocks it may count, until it is done, on those
services being the only ones that do; each is gone, or there, or in its list, or being dealt
with above it. That is the step that needs the stack: when the operation on top changes one
service, every operation below must still be right (`Kept`). It is, since above an operation
that makes room everything disables, and above one that provides everything enables services
that exclude nobody. `DetachFits`: the list of a detach is in the order
of disabling and holds everything that is still there, so that no service in it is passed over
on account of another. `Stand`, `Apart`, `Packed` and `Detached` are the properties in terms of
what is there.

### Reports (`Reports_proofs`)

`PackageReports`: `PrivateForDisabledOnly` and `HookAgrees`, for every set of packages and
every order of publications, updates and upgrades. `ReportInv` says: no version is both in a
pocket of ESM and in one of Ubuntu, in the archive and in what apt has read of it (`Apart`); apt
has indexes of ESM only where the service's source is or was (`ListsFit`, `SourcesFit`); and
what the job that keeps the private cache, and an enable or disable beside it, have made sure
of at each of their places (`JobFits`, `FilesFit`). That the two implementations count alike
is then the cardinality of disjoint unions.

`CveReport`: `AnswersAreCurrent` for all data, versions and numbers of runs. The invariant
`Parts` says, as long as no window has opened, what each place of a run may rely on in what it
holds and in the files (`PlaceOf`), that a run which saves is alone (`Alone`), that a tag on
disk names the data beside it (`Tagged`), and that a kept result is the parser's for the kept
data and the recorded date (`KeptOf`), unless a run is midway through the four files. It fails
without any one of the five windows: each is a step after which some place relies on what is
no longer so. That the parser lists what it should (`ClassifyRight`) compares it with
`Affected`, written from what the data means.

`LivepatchReport`: `LivepatchAnswersHold` for every set of kernels and every age limit but 0.
One invariant says what an undisturbed inquiry has already established at each of its places
(`SteadyInv`, with `BornOut` for the verdict), another that a kept answer is the server's for
that kernel and no younger than recorded (`KeptInv`).

### Commands (`Commands_proofs`)

`SecurityFix`: `ReportIsTrue` and `NothingUnasked` for every set of packages, notices, requests
and machines, and any number of changes by others. All plans are made before the first is
executed, so the hard part is that a plan still fits when its turn comes, after other fixes,
attaches, detaches, enables and disables. It does because versions only grow, nothing is
installed that was not, and a service once withdrawn stays so recorded (`Grown`); `FixInv`
(`World`, `Fits`, `Placed`, `Going`, `Told`) relates the plans to what the machine still lacks,
pocket by pocket, of services nobody withdrew.
`RequestsAssumption`: a request is about some issue, the API has no dry run, and of the notices
that name a package one asks for the largest version. `MachinesAssumption`: an unattached
machine has no services enabled.

`Settings`: `SettingsInForce` for any number of edits at once, of values and of mishaps.
`SettingsInv` is `Places`, what each undisturbed edit has established of the facets it has dealt
with and what it still holds to be in doubt, and `Settled`, that with no edit at work what is in
no doubt is as the file says. `ModesAssumption`: the lower case of a mode is a mode, in lower
case.

`ServiceCommands`: `CommandsAsAgreed` for every set of services. `DependencyAssumption` holds of
the real lists: required services clash with none, and what they require is required too. The
command asks from one list of services and acts on another, so `CmdInv` says which operations
a turn may still have left (`Turn`, `Once`), what is known of the list (`Known`), that
`status.json` is the last answer (`Cached`) and what was agreed to (`Agreed`). The order of the
services is by induction over `EnableOrder`.

### The machine's files (`Machine_proofs`)

`PackageUpgrade`: `UpgradeKeeps` from whatever earlier version, cut short however often.
`UpgradeInv` follows the settings out of `uaclient.conf`, into the user's file and into the
private directory, script step by script step (`BackedUp`, and `SettingsKept` as long as nothing
is cut short or warned of). `NothingLost` goes further: whatever is warned of, each place knows
a file that still has the setting. `NoPassword` and `SourcesKept` stand beside it.

`AptFiles`: `AptFilesSound` for every set of services and every list of URLs. Two halves: the
auth file stays ordered (`FilesOrdered`), so that apt, which takes the first entry that fits,
never takes a shorter one; that is induction over the file, from what insertion and removal do
to it. And `AptInv` follows each hand from write to write (`Turns`, `Phases`, `Progress`,
`Backed`, `Cleared`): without a kill or a failure, what stands in apt's directories belongs to
services that are on. `UrlsAssumption`: each service has its own URLs, and "is part of" is a
strict order, as it is on strings.

`AptNews`: `NewsSound` for every list of messages. That the two files agree when nobody writes
follows from what each writer's place says about the file it has yet to write, which holds as
long as writers work one after the other (`InTurn`, as `hitches = 0`). That the service fetches
once a day needs that a fetch newer than apt's stamp belongs to an update that is still at
work (`Daily`): the stamp, not the fetch, is what the service looks at.

### Left to TLC

The liveness properties, since TLAPS has no ENABLED. The three action properties of `Services`
about the end of a refresh, of a release upgrade and of the boot-time script. The types of `TimerJobs`,
`LivepatchReport` and `AptNews` are not theorems; what their proofs need of them is a part of
their invariants.

## 5. What is not modelled

`components` in `PROJECT.json` has the list with reasons.

- HTTP, the API framework, output: no state of their own. Cloud identity documents: reads of
  metadata services. The remaining entitlements depend on no other and exclude none.
- `Services`: variants, `--auto`, affordances of architecture and kernel, the warning status
  of livepatch; `--purge`, `--access-only` and required packages are in `ServicePackages`, for
  one service alone, and what a variant changes in the terms in `ContractTerms`. A failing server
  call is a step that fails, without kinds of errors. In `Services` prompts are answered
  yes; `ServiceCommands` has the answers.
- Lock: pids are not reused. After a reboot, or much later, the pid in a left lock file may be
  another program's, and the lock then counts as held until somebody removes it.
- apt is modelled from how the client uses it: an update or an install succeeds or fails,
  policy knows the sources it has read, a metapackage can be installed if some known
  repository has it.
- Fix: other processes change the subscription only, not the packages.
- Commands on services run one at a time. The script of a release upgrade
  (`lib/upgrade_lts_contract.py:17`) takes no lock; beside another command it is modelled for
  apt's files only.
- Selection of news beyond "for this machine or not"; timer intervals and feature flags in the
  configuration; apparmor, logrotate, debconf and the enabling of units in packaging.

## 6. Findings

Five places where TLC finds a behaviour of the code that a doc, comment or message rules out;
`findings` in `PROJECT.json` quotes each.

- `lock_cli`: error handlers clear a lock file that is not theirs.
- `attach_resurrect`: the metering job writes a token back after a detach.
- `fix_raises`: no plan for a contract that is about to expire.
- `fix_skips`: the upgrade for which a service was just enabled is skipped.
- `enable_unasked`: a later turn of `pro enable` disables a service without asking.

More came up while the code was read into the models. Those within a model are excused in its
properties by name, so that everything else is checked; no run singles them out.

Lock and attachment. The API's calls clear the lock as the command does, also when it was the
lock they lost. A second `pro attach` that decided before it had the lock replaces the first
one's subscription. An attach whose default services fail is recorded as attached but leaves
before it starts the timer (`actions.py:109`).

Services. A refresh passes over an enabled service that the status cache does not know
(`contract.py`, after a failed enable), and over one the token no longer mentions
(`contract.py:665`). `cleanup_on_failure=False` is lost on its way to the parent class, so a
failed set-up at boot removes the FIPS source (`fips.py:394`). Only one side of the
incompatibility with `fips-preview` is declared (`fips.py:745`): fips-updates can be enabled
beside it, after which fips-preview no longer applies, cannot be disabled and outlives a detach. With
`/proc/sys/crypto/fips_enabled` 0 FIPS counts as disabled whatever is installed
(`fips.py:517`). `pro disable ros-updates` deletes the key that ros, and `fips-updates` the
one that fips uses.

Terms and packages. After a release upgrade the map of releases in a document that was written
back is gone, so an old contract's terms for the new release are not found until a refresh.
A purge that declines to go back to an older kernel leaves the repository as well; the list of
kernels it decides by is not read again before the removal.

Commands. `pro disable esm-infra ros` reports ros as a failure, although it was disabled as a
dependent of the first. A network error in the status that follows reports a successful
enable as failed; a failed one leaves `status.json` as it was.

Retry daemon. A poll that fails after the retries have ended in total failure gives up
without another retry. On GCP, without a first answer there is no etag, and a licence that is
already there goes unnoticed; a connection error ends the polling daemon. The flag left by a
detach starts the retries again; the MOTD "failed" stays on a machine that was attached
through the API and then rebooted; a detach between the loop's end and the verdict counts as
total failure. The MOTD of an expired contract is not updated on a machine that is offline.

Security fix. A CVE's status is overwritten with "fixed" by a later pocket of the plan
(`plan/v1.py`). If somebody disables the service between planning and upgrade, the issue is
reported fixed with nothing upgraded. A plan expects "still-affected" on account of a cache it
could not update, and is carried out in full.

Reports. `pro cve` fails when the time of apt's update is not known, and shows no affected
packages for a lower-case name. The command refuses two options of `pro cves` that the API
combines into "all". The download for the published date may save data and tag without a
result; a kill between the files, or two runs side by side, can leave an old answer in force.
A package installed from an ESM service that was disabled since has the origin "unknown".
The hook counts the `-security` pockets only. `security_status.py:636` asks esm-apps for the
applicability of esm-infra. `livepatch_enabled_and_kernel_patched` takes "supported" with a
patch that failed to apply for patched; a failing livepatch is caught in one half of the
reboot answer and raised in the other; an ambiguous answer of the server is kept as none for
a week. The private ESM cache, if an enable and its job run side by side, is wrong until the
next job.

Configuration. `pro config unset ua_apt_http_proxy` while a global proxy is set removes apt's
proxy file, the mistake a comment in `cli/config.py` warns of. Concurrent `config set`s lose
updates. A corrupt private file means defaults. `lxd_guest_attach` is stored as typed: a value in
capitals leaves the public copy old and is read back as none. A detach deletes lxd's file while
the setting stays. Unsetting `http_proxy` while livepatch is disabled leaves livepatch's proxy.
`refresh config` with no proxies leaves apt's file.

Upgrades. A postinst run again after the backup was rewritten, or from before version 32,
can move a redacted file over the private one; a preinst run again backs up the default; the
warning about changed settings comes before the conffile is restored. The migration drops
`poll_for_pro_license`, `polling_error_retry_delay` and every field it does not name, without a
warning. The postinst deletes source and key of an enabled service that `status.json`, missing or
old, does not call enabled.

apt's files. The snapshot entries of the auth file outlive a later disable; scripts change
the file without the lock. `apt_news=false` deletes the displayed file only; the daily limit
of apt-news.service goes by apt's stamp, not by its own fetch.

## 7. Plan

A module with theorems keeps free of RECURSIVE operators.

1. From `ShapeInv` the action properties `RefreshMovesSources`, `UpgradeLeavesApplicable` and
   `BootRestoresFips`.
2. Variants in `Services`; a release upgrade beside other commands.
