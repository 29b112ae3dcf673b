---------------------------- MODULE PackageUpgrade ----------------------------
(***************************************************************************)
(* The maintainer scripts of ubuntu-advantage-tools and ubuntu-pro-client: *)
(* an upgrade from an earlier version migrates the settings twice - out of *)
(* uaclient.conf (27.14), into the private directory (32) - and the key    *)
(* names, notices, tokens and credentials once.  dpkg runs a script again, *)
(* with the same previous version, when it was cut short.                  *)
(***************************************************************************)
EXTENDS Naturals

CONSTANTS Priors, \* the versions upgraded from: 27.1 is 2701, 30 is 3000, 2713 is before 27.13.5
          MaxCuts \* bound on the scripts cut short in a behaviour

ASSUME PriorsAssumption == Priors \subseteq 2700..3499 /\ MaxCuts \in Nat

VARIABLES place,  \* where the upgrade is
          prior,  \* the version upgraded from
          wanted, \* history: the proxy the user had set - none, one without or one with a
                  \* password - and what else uaclient.conf said
          conf,   \* uaclient.conf
          backup, \* uaclient.conf.preinst-backup
          bak,    \* uaclient.conf.dpkg-bak
          open,   \* user-config.json
          hidden, \* private/user-config.json
          disk,   \* all else the scripts look at
          warned, \* the user was told what to do by hand
          cuts    \* history: the scripts cut short

upgradeVars == <<place, prior, wanted, conf, backup, bak, open, hidden, disk, warned, cuts>>

\* Beside the settings that migrate_user_config.py lists, of which the proxy is one: the fields
\* it carries over, all others, and the settings it does not list.
Extras == {"carried", "other", "unlisted"}
Carried == {"carried"}
Proxy == {"none", "plain", "secret"}
Conf == [form : {"old", "new", "broken"}, proxy : Proxy, rest : SUBSET Extras]
Absent == [form |-> "absent", proxy |-> "none", rest |-> {}]
OldDefault == [form |-> "old", proxy |-> "none", rest |-> {}]
NewDefault == [form |-> "new", proxy |-> "none", rest |-> {}]
Setting == Proxy \cup {"absent", "redacted"}
Facts == {"old-ppa", "cloud-metapackage", "fips-held", "reboot-noticed"}
Preparing == {"prepare", "back-up", "copy", "default", "unpack"}
Migrating == {"hide", "publish", "mark", "snapshots"}
Configuring == Migrating \cup {"tidy", "token", "notices", "user-config", "conffile", "compare",
                               "restore", "keys"}
Resting == {"old", "installed", "removed", "purged"}

\* "listed": status.json calls the service enabled.  "swept": upgrades from before this version
\* delete the files of a service that is not listed: esm-infra's on Xenial (27.13), esm-apps'
\* (27.13.5).  "usual": its aptURL is at esm.ubuntu.com.
Disks ==
    [listed : BOOLEAN, swept : {0, 2713, 2714}, usual : BOOLEAN,
     token : BOOLEAN, publicToken : BOOLEAN, enabled : BOOLEAN,
     source : {"none", "dated", "named"}, key : {"none", "old", "new"},
     auth : SUBSET {"repo", "snapshot"}, facts : SUBSET Facts,
     notices : SUBSET (Facts \cup {"reboot"}), reboot : BOOLEAN,
     oldTimer : BOOLEAN, timer : BOOLEAN, series : BOOLEAN]

UpgradeTypeOK ==
    /\ place \in Resting \cup Preparing \cup Configuring
    /\ prior \in Priors /\ wanted \in [proxy : Proxy, rest : SUBSET Extras]
    /\ conf \in Conf /\ backup \in Conf \cup {Absent} /\ bak \in Conf \cup {Absent}
    /\ open \in Setting /\ hidden \in Setting
    /\ disk \in Disks /\ warned \in BOOLEAN /\ cuts \in 0..MaxCuts

RedactOne(s) == IF s = "secret" THEN "redacted" ELSE s

-----------------------------------------------------------------------------

\* What each version left behind: at most one service, or before 27.13 its source and key without
\* credentials; status.json may be missing, or tell of another time.
UpgradeInit ==
    /\ place = "old" /\ prior \in Priors /\ wanted \in [proxy : Proxy, rest : SUBSET Extras]
    /\ \E form \in {"old", "broken"} :
        conf = IF prior < 2714 THEN [form |-> form, proxy |-> wanted.proxy, rest |-> wanted.rest]
               ELSE [NewDefault EXCEPT !.rest = wanted.rest]
    /\ backup = Absent /\ bak = Absent
    /\ open = IF prior < 2714 \/ wanted.proxy = "none" THEN "absent"
              ELSE IF prior < 3200 THEN wanted.proxy ELSE RedactOne(wanted.proxy)
    /\ hidden = IF prior >= 3200 /\ wanted.proxy # "none" THEN wanted.proxy ELSE "absent"
    /\ \E token, enabled, stray, off, listed, usual \in BOOLEAN,
          swept \in {0, 2713, 2714}, fact \in Facts :
        /\ enabled => token
        /\ stray => prior < 2713 /\ swept # 0 /\ ~enabled
        /\ off => prior < 2703
        /\ disk = [listed |-> listed, swept |-> swept, usual |-> usual, token |-> token,
                   publicToken |-> token /\ prior >= 2711, enabled |-> enabled,
                   source |-> IF ~enabled /\ ~stray THEN "none"
                              ELSE IF prior < 2703 THEN "dated" ELSE "named",
                   key |-> IF ~enabled /\ ~stray THEN "none"
                           ELSE IF prior < 2900 THEN "old" ELSE "new",
                   auth |-> IF enabled THEN {"repo"} ELSE {}, facts |-> {fact},
                   notices |-> {}, reboot |-> FALSE, oldTimer |-> ~off, timer |-> TRUE,
                   series |-> FALSE]
    /\ warned = FALSE /\ cuts = 0

\* Where postinst-migrations.sh begins, and what follows the unpacking, the scripts of
\* ubuntu-advantage-tools and the migrations: from 31 on these belong to ubuntu-pro-client, which
\* is configured first.
Migrations == IF prior < 3200 /\ open # "absent" THEN "hide" ELSE "mark"
AfterUnpacking == IF prior < 3100 THEN "tidy" ELSE Migrations
AfterTools == IF prior < 3100 THEN Migrations ELSE "installed"
AfterMigrations == IF prior < 3100 THEN "installed" ELSE "tidy"

Move(from, to) == place = from /\ place' = to

\* preinst: the settings of the conffile are only in danger before 27.14, and not if it is
\* as it was shipped.
Compare ==
    /\ Move("old", IF prior < 2714 /\ conf # OldDefault THEN "back-up" ELSE "unpack")
    /\ UNCHANGED <<prior, wanted, conf, backup, bak, open, hidden, disk, warned, cuts>>

BackUp == /\ Move("back-up", "copy") /\ backup' = conf
          /\ UNCHANGED <<prior, wanted, conf, bak, open, hidden, disk, warned, cuts>>

CopyBak == /\ Move("copy", "default") /\ bak' = conf
           /\ UNCHANGED <<prior, wanted, conf, backup, open, hidden, disk, warned, cuts>>

InsertDefault == /\ Move("default", "unpack") /\ conf' = NewDefault
                 /\ UNCHANGED <<prior, wanted, backup, bak, open, hidden, disk, warned, cuts>>

Unpack == /\ Move("unpack", AfterUnpacking)
          /\ conf' = IF conf = OldDefault THEN NewDefault ELSE conf
          /\ UNCHANGED <<prior, wanted, backup, bak, open, hidden, disk, warned, cuts>>

\* dpkg unwinds: postrm abort-upgrade.
AbortUpgrade ==
    /\ Move("unpack", "old")
    /\ IF prior < 2714 /\ backup # Absent THEN conf' = backup /\ backup' = Absent
       ELSE UNCHANGED <<conf, backup>>
    /\ UNCHANGED <<prior, wanted, bak, open, hidden, disk, warned, cuts>>

\* postinst: names without the release, unauthenticated sources away - and those of a service
\* that is on, if status.json does not say so -, notices, timers.
Swept == prior < disk.swept /\ ~disk.listed
Tidy ==
    /\ Move("tidy", "token")
    /\ disk' = [disk EXCEPT
        !.source = IF Swept THEN "none" ELSE IF @ = "dated" THEN "named" ELSE @,
        !.key = IF Swept THEN "none" ELSE @,
        !.notices = @ \cup (disk.facts \cap {"old-ppa", "cloud-metapackage", "fips-held"}),
        !.reboot = @ \/ "fips-held" \in disk.facts,
        !.timer = @ /\ (prior \in 2700..2702 => disk.oldTimer),
        !.oldTimer = FALSE]
    /\ UNCHANGED <<prior, wanted, conf, backup, bak, open, hidden, warned, cuts>>

PublishToken ==
    /\ Move("token", IF prior < 2714 THEN "notices" ELSE "keys")
    /\ disk' = [disk EXCEPT !.publicToken = @ \/ disk.token]
    /\ UNCHANGED <<prior, wanted, conf, backup, bak, open, hidden, warned, cuts>>

MigrateNotices ==
    /\ Move("notices", IF backup = Absent THEN "keys"
                       ELSE IF backup.form = "broken" THEN "compare" ELSE "user-config")
    /\ disk' = [disk EXCEPT !.facts = @ \ {"reboot-noticed"},
                            !.notices = @ \cup (IF "reboot-noticed" \in disk.facts
                                                THEN {"reboot"} ELSE {})]
    /\ warned' = (warned \/ backup.form = "broken")
    /\ UNCHANGED <<prior, wanted, conf, backup, bak, open, hidden, cuts>>

\* migrate_user_config.py: the listed settings of the backup go to user-config.json, or the user
\* is told, if there were any; ...
CreateUserConfig ==
    /\ Move("user-config", "conffile")
    /\ \/ open' = backup.proxy /\ UNCHANGED warned
       \/ warned' = (warned \/ backup.proxy # "none") /\ UNCHANGED open
    /\ UNCHANGED <<prior, wanted, conf, backup, bak, hidden, disk, cuts>>

\* ... and the backup becomes a conffile without settings and with no field but some.  Nobody is
\* told of the settings and fields that are neither listed nor carried over.
CreateConffile ==
    /\ Move("conffile", "compare")
    /\ \/ backup' = [NewDefault EXCEPT !.rest = backup.rest \cap Carried] /\ UNCHANGED warned
       \/ warned' = TRUE /\ UNCHANGED backup
    /\ UNCHANGED <<prior, wanted, conf, bak, open, hidden, disk, cuts>>

CompareBak ==
    /\ Move("compare", "restore")
    /\ bak' = IF bak = backup THEN Absent ELSE bak
    /\ UNCHANGED <<prior, wanted, conf, backup, open, hidden, disk, warned, cuts>>

Restore ==
    /\ Move("restore", "keys")
    /\ conf' = backup /\ backup' = Absent
    /\ UNCHANGED <<prior, wanted, bak, open, hidden, disk, warned, cuts>>

RenameKeys ==
    /\ Move("keys", AfterTools)
    /\ disk' = [disk EXCEPT !.key = IF prior < 2900 /\ @ = "old" THEN "new" ELSE @]
    /\ UNCHANGED <<prior, wanted, conf, backup, bak, open, hidden, warned, cuts>>

\* Mutant of HideConfig: the file is copied.
HideConfigCopied ==
    /\ Move("hide", "publish")
    /\ hidden' = open
    /\ UNCHANGED <<prior, wanted, conf, backup, bak, open, disk, warned, cuts>>

\* postinst-migrations.sh: the settings move to the private directory ...
HideConfig ==
    /\ Move("hide", "publish")
    /\ hidden' = open /\ open' = "absent"
    /\ UNCHANGED <<prior, wanted, conf, backup, bak, disk, warned, cuts>>

\* ... and a redacted copy takes their place; a failure is printed.
PublishConfig ==
    /\ Move("publish", "mark")
    /\ \/ open' = RedactOne(hidden) /\ UNCHANGED warned
       \/ warned' = TRUE /\ UNCHANGED open
    /\ UNCHANGED <<prior, wanted, conf, backup, bak, hidden, disk, cuts>>

MarkSeries ==
    /\ Move("mark", IF disk.token THEN "snapshots" ELSE AfterMigrations)
    /\ disk' = [disk EXCEPT !.series = disk.token]
    /\ UNCHANGED <<prior, wanted, conf, backup, bak, open, hidden, warned, cuts>>

\* add_esm_snapshot_auth.py: only for a service that is on and at the usual place, and whatever
\* goes wrong is printed.
SnapshotAuth ==
    LET due == disk.enabled /\ disk.source # "none" /\ disk.usual IN
    /\ Move("snapshots", AfterMigrations)
    /\ \/ disk' = [disk EXCEPT !.auth = @ \cup (IF due THEN {"snapshot"} ELSE {})]
          /\ UNCHANGED warned
       \/ warned' = TRUE /\ UNCHANGED disk
    /\ UNCHANGED <<prior, wanted, conf, backup, bak, open, hidden, cuts>>

\* A kill, a reboot or another package's failure: dpkg starts the script over.
Cut ==
    /\ cuts < MaxCuts /\ cuts' = cuts + 1
    /\ place \in Preparing \cup Configuring
    /\ place' = IF place \in Preparing THEN "old"
                ELSE IF place \in Migrating THEN AfterUnpacking ELSE "tidy"
    /\ UNCHANGED <<prior, wanted, conf, backup, bak, open, hidden, disk, warned>>

RemovePackage ==
    /\ Move("installed", "removed")
    /\ disk' = [disk EXCEPT !.source = "none"]
    /\ UNCHANGED <<prior, wanted, conf, backup, bak, open, hidden, warned, cuts>>

Purge ==
    /\ Move("removed", "purged")
    /\ disk' = [disk EXCEPT !.token = FALSE, !.publicToken = FALSE, !.auth = {}, !.series = FALSE,
                            !.reboot = FALSE, !.key = IF @ = "new" THEN "none" ELSE @]
    /\ open' = "absent" /\ hidden' = "absent"
    /\ UNCHANGED <<prior, wanted, conf, backup, bak, warned, cuts>>

UpgradeNext ==
    \/ Compare \/ BackUp \/ CopyBak \/ InsertDefault \/ Unpack \/ AbortUpgrade
    \/ Tidy \/ PublishToken \/ MigrateNotices \/ CreateUserConfig \/ CreateConffile
    \/ CompareBak \/ Restore \/ RenameKeys \/ HideConfig \/ PublishConfig
    \/ MarkSeries \/ SnapshotAuth \/ Cut \/ RemovePackage \/ Purge

UpgradeSpec == UpgradeInit /\ [][UpgradeNext]_upgradeVars

-----------------------------------------------------------------------------

\* What root's commands find: the private file, else the public one.
Effective == IF hidden # "absent" THEN hidden ELSE IF open # "absent" THEN open ELSE "none"

Redacted == RedactOne(Effective) = (IF open = "absent" THEN "none" ELSE open)

\* An upgrade from any version, however often a script is cut short, leaves no password where
\* everybody reads it; a service that was on keeps its tokens, and its source and key unless an
\* upgrade from before 27.13.5 did not find it in status.json.  One that is not cut short loses
\* nothing uaclient.conf said: what is not in force is still in dpkg-bak.  If moreover no warning
\* was given, every listed setting is in force, with a redacted copy, and of the other fields
\* those that are carried over; a service at the usual place has credentials for its snapshots.
UpgradeKeeps ==
    /\ place = "installed" =>
        /\ open # "secret"
        /\ disk.enabled /\ ~Swept => disk.source = "named" /\ disk.key = "new"
        /\ Swept => disk.source = "none" /\ disk.key = "none"
        /\ disk.token => disk.publicToken /\ disk.series
        /\ cuts = 0 => /\ wanted.proxy \in {Effective, conf.proxy, bak.proxy}
                       /\ wanted.rest \subseteq conf.rest \cup bak.rest
        /\ cuts = 0 /\ ~warned =>
            /\ Effective = wanted.proxy /\ Redacted /\ conf.form = "new"
            /\ conf.rest = IF prior < 2714 THEN wanted.rest \cap Carried ELSE wanted.rest
            /\ disk.enabled => ("snapshot" \in disk.auth <=> disk.usual /\ ~Swept)
    /\ place = "purged" => disk.key = "none" /\ hidden = "absent"

=============================================================================
