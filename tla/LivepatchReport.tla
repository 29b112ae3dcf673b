---------------------------- MODULE LivepatchReport ----------------------------
(***************************************************************************)
(* Is a reboot required, and does livepatch cover the running kernel?      *)
(*                                                                         *)
(* The first answer is put together from files of the host and from        *)
(* livepatch's daemon, each read twice; the second comes from the daemon,  *)
(* from an answer of livepatch's server kept for a week, or from the       *)
(* server.                                                                 *)
(***************************************************************************)
EXTENDS Naturals

CONSTANTS Kernels, \* the kernels of the machine, as livepatch tells them apart
          Week,    \* the days an answer of the server is kept: 7
          MaxAge   \* bound on the age of what is remembered, in days

ASSUME LivepatchAssumption == Week \in Nat \ {0} /\ MaxAge \in Nat /\ MaxAge >= Week

VARIABLES kernel,  \* the running kernel
          marker,  \* /run/reboot-required
          pending, \* /run/reboot-required.pkgs
          daemon,  \* what canonical-livepatch status says
          kept,     \* livepatch-kernel-support-cache.json
          heard,   \* history: what the server last said of each kernel
          inquiry, \* a call of reboot_required
          verdict, \* its answer, until the next step
          support  \* an answer of on_supported_kernel, likewise

livepatchVars == <<kernel, marker, pending, daemon, kept, heard, inquiry, verdict, support>>

Unheard == [says |-> "failure", age |-> MaxAge]
Replies == {"supported", "unsupported", "upgrade", "failure"}
Coverage == {"supported", "unsupported", "unknown", "odd"}
Absences == {"missing", "disabled", "failing"}
Daemons == {[up |-> why, kernel |-> k, state |-> "other", supported |-> "odd"] :
              why \in Absences, k \in {CHOOSE k \in Kernels : TRUE}}
           \cup [up : {"up"}, kernel : Kernels, state : {"applied", "other"}, supported : Coverage]
Pending == {"nothing", "kernel", "other"}
Reboot == {"no", "yes", "yes-kernel-livepatches-applied"}
NoCache == [kernel |-> "none", says |-> "none", age |-> 0]
NoInquiry == [at |-> "idle", reboot |-> "no", pending |-> "nothing", steady |-> TRUE]
NoVerdict == [reboot |-> "no", patched |-> FALSE, own |-> FALSE, pending |-> "nothing",
              steady |-> TRUE, raised |-> FALSE]
NoSupport == [says |-> "none", from |-> "none", kernel |-> "none"]

LivepatchTypeOK ==
    /\ kernel \in Kernels /\ marker \in BOOLEAN /\ pending \in Pending \cup {"absent"}
    /\ daemon \in Daemons
    /\ kept = NoCache \/ kept \in [kernel : Kernels, says : {"yes", "no", "none"}, age : 0..MaxAge]
    /\ heard \in [Kernels -> [says : Replies \ {"upgrade"}, age : 0..MaxAge]]
    /\ inquiry.at \in {"idle", "packages", "livepatch", "pending", "daemon"}
    /\ inquiry.reboot \in Reboot /\ verdict.reboot \in Reboot
    /\ support.says \in {"none", "supported", "unsupported", "upgrade", "unknown"}

-----------------------------------------------------------------------------

\* The kernel is up to date with its patches.
Patched(d) == d.state = "applied" /\ d.supported = "supported"

\* livepatch_enabled_and_kernel_patched.
CalledPatched(d) == d.up = "up" /\ (d.state = "applied" \/ d.supported = "supported")

\* _on_supported_kernel_cli: nothing, if the word is not one of the known ones.
DaemonSays == IF daemon.up = "up" /\ daemon.supported # "odd" THEN daemon.supported ELSE "none"

LivepatchInit ==
    /\ kernel \in Kernels /\ marker = FALSE /\ pending = "absent"
    /\ daemon \in {d \in Daemons : d.up = "missing"}
    /\ kept = NoCache /\ heard = [k \in Kernels |-> Unheard]
    /\ inquiry = NoInquiry /\ verdict = NoVerdict
    /\ support = NoSupport

Unchanged == UNCHANGED <<kernel, marker, pending, daemon>>
Untold == verdict' = NoVerdict /\ support' = NoSupport
Asked == UNCHANGED <<kept, heard>>

\* should_reboot
LookForMarker ==
    /\ inquiry.at = "idle"
    /\ inquiry' = [NoInquiry EXCEPT !.at = IF marker THEN "packages" ELSE "pending"]
    /\ Unchanged /\ Asked /\ Untold

\* get_reboot_required_pkgs: livepatch is asked if there is nothing but kernels.
LookAtPackages ==
    LET only == pending = "kernel" /\ daemon.up # "missing" IN
    /\ inquiry.at = "packages"
    /\ inquiry' = [inquiry EXCEPT !.at = IF only THEN "livepatch" ELSE "pending", !.reboot = "yes"]
    /\ Unchanged /\ Asked /\ Untold

\* Mutant of LookAtLivepatch: whatever kernel the patches are for.
LookAtLivepatchOnly ==
    /\ inquiry.at = "livepatch"
    /\ inquiry' = [inquiry EXCEPT !.at = "pending",
         !.reboot = IF daemon.up = "up" /\ Patched(daemon) THEN "yes-kernel-livepatches-applied" ELSE @]
    /\ Unchanged /\ Asked /\ Untold

LookAtLivepatch ==
    LET covered == daemon.up = "up" /\ Patched(daemon) /\ daemon.kernel = kernel IN
    /\ inquiry.at = "livepatch"
    /\ inquiry' = [inquiry EXCEPT !.at = "pending",
                     !.reboot = IF covered THEN "yes-kernel-livepatches-applied" ELSE @]
    /\ Unchanged /\ Asked /\ Untold

LookAgain ==
    /\ inquiry.at = "pending"
    /\ inquiry' = [inquiry EXCEPT !.at = "daemon", !.pending = IF pending = "absent" THEN "nothing" ELSE pending]
    /\ Unchanged /\ Asked /\ Untold

\* A daemon that fails was caught the first time; now the call raises.
AnswerReboot ==
    /\ inquiry.at = "daemon"
    /\ verdict' = [reboot |-> inquiry.reboot, patched |-> CalledPatched(daemon),
                   own |-> daemon.kernel = kernel, pending |-> inquiry.pending,
                   steady |-> inquiry.steady, raised |-> daemon.up = "failing"]
    /\ inquiry' = NoInquiry /\ support' = NoSupport
    /\ Unchanged /\ Asked

-----------------------------------------------------------------------------

Recall(k) == kept.kernel = k /\ kept.age < Week
Recalled == CASE kept.says = "yes" -> "supported" [] kept.says = "no" -> "unsupported"
              [] OTHER -> "unknown"

\* Mutant of SupportFromCache: the answer for another kernel is taken.
SupportFromCacheAny ==
    /\ DaemonSays = "none" /\ kept # NoCache /\ kept.age < Week
    /\ support' = [says |-> Recalled, from |-> "server", kernel |-> kernel]
    /\ verdict' = NoVerdict
    /\ Unchanged /\ Asked /\ UNCHANGED inquiry

SupportFromCache ==
    /\ DaemonSays = "none" /\ Recall(kernel)
    /\ support' = [says |-> Recalled, from |-> "server", kernel |-> kernel]
    /\ verdict' = NoVerdict
    /\ Unchanged /\ Asked /\ UNCHANGED inquiry

SupportFromDaemon ==
    /\ DaemonSays # "none"
    /\ support' = [says |-> DaemonSays, from |-> "daemon", kernel |-> kernel]
    /\ verdict' = NoVerdict
    /\ Unchanged /\ Asked /\ UNCHANGED inquiry

\* The answer is kept as yes, no or nothing.
SupportFromServer ==
    /\ DaemonSays = "none" /\ ~Recall(kernel)
    /\ \E word \in Replies :
        /\ support' = [says |-> IF word = "failure" THEN "unknown" ELSE word,
                       from |-> "server", kernel |-> kernel]
        /\ kept' = [kernel |-> kernel, age |-> 0,
                     says |-> CASE word = "supported" -> "yes" [] word = "unsupported" -> "no"
                                [] OTHER -> "none"]
        /\ heard' = [heard EXCEPT ![kernel] = [says |-> IF word = "upgrade" THEN "failure" ELSE word,
                                                age |-> 0]]
    /\ verdict' = NoVerdict /\ Unchanged /\ UNCHANGED inquiry

-----------------------------------------------------------------------------

Disturb == inquiry' = [inquiry EXCEPT !.steady = inquiry.at = "idle"]

\* Packages are upgraded; the list of them may be missing.
UpgradeHost ==
    /\ marker' = TRUE
    /\ pending' \in CASE pending \in {"absent", "nothing"} -> Pending \cup {"absent"}
                      [] pending = "kernel" -> {"kernel", "other"}
                      [] OTHER -> {"other"}
    /\ Disturb /\ Untold /\ Asked /\ UNCHANGED <<kernel, daemon>>

\* The daemon is installed or removed, enabled or disabled, patches the kernel or fails to.
ChangeDaemon ==
    /\ daemon' \in {d \in Daemons : d.up = "up" => d.kernel = kernel \/ d.kernel = daemon.kernel}
    /\ Disturb /\ Untold /\ Asked /\ UNCHANGED <<kernel, marker, pending>>

BootKernel ==
    /\ inquiry.at = "idle" /\ kernel' \in Kernels
    /\ marker' = FALSE /\ pending' = "absent"
    /\ inquiry' = NoInquiry /\ Untold /\ Asked /\ UNCHANGED daemon

PassDay ==
    /\ LET Older(a) == IF a < MaxAge THEN a + 1 ELSE a IN
       /\ kept' = [kept EXCEPT !.age = IF kept = NoCache THEN 0 ELSE Older(@)]
       /\ heard' = [k \in Kernels |-> [heard[k] EXCEPT !.age = Older(@)]]
    /\ inquiry.at = "idle" /\ Untold /\ Unchanged /\ UNCHANGED inquiry

LivepatchNext ==
    \/ LookForMarker \/ LookAtPackages \/ LookAtLivepatch \/ LookAgain \/ AnswerReboot
    \/ SupportFromDaemon \/ SupportFromCache \/ SupportFromServer
    \/ UpgradeHost \/ ChangeDaemon \/ BootKernel \/ PassDay

LivepatchSpec == LivepatchInit /\ [][LivepatchNext]_livepatchVars

-----------------------------------------------------------------------------

\* An answer that the reboot may wait, if nothing changed while it was put together, comes with
\* the rest of the answer that bears it out: kernels alone are pending, and livepatch has
\* patched the kernel that runs, although each was read twice.  And where the daemon is of no
\* help, a kernel is called supported or not only if the server said so of this very kernel
\* less than a week ago.
LivepatchAnswersHold ==
    /\ verdict.reboot = "yes-kernel-livepatches-applied" /\ verdict.steady =>
        /\ verdict.pending = "kernel" /\ verdict.patched /\ verdict.own
        /\ ~verdict.raised
    /\ support.from = "server" /\ support.says \in {"supported", "unsupported"} =>
        heard[support.kernel].says = support.says /\ heard[support.kernel].age < Week

=============================================================================
