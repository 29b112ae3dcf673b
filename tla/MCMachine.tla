------------------------------ MODULE MCMachine ------------------------------
(* Small instances of the parts of the client that share no variable with one
   another: each behaviour is one of one of them, and the others stand still. *)
EXTENDS MCSecurityFix, Settings, PackageUpgrade, AptFiles, AptNews,
        MCServiceCommands, TLC

VARIABLE scene

\* lxd_guest_attach takes "ON" for "on"; apt's settings or those of the services are changed.
Low == [m \in Modes |-> "on"]
UsedIn == [proxies |-> {"ua_apt_http_proxy", "global_apt_http_proxy"},
           services |-> {"http_proxy", "lxd_guest_attach"}]
UsesIts(sc) == \A e \in Editors : edits'[e].verb \notin Locking => edits'[e].key \in UsedIn[sc]

\* No command on the settings differs from another but in name.
EitherEditor == Permutations(Editors)

\* Three archives: one under esm with snapshots, two of one key.
Archives == {"esm-infra", "ros", "ros-updates"}
OwnUrl == [r \in Archives |-> r]
SnapshotUrls == [r \in Archives |-> IF r = "esm-infra" THEN <<"snapshot">> ELSE <<>>]
Keyring == [r \in Archives |-> IF r = "esm-infra" THEN r ELSE "ros"]
Within2 == {<<"esm-infra", "snapshot">>}
SomeContracts == {{"esm-infra"}, {"ros", "ros-updates"}}

\* A message that is over or not yet, one that is too long, one for another cloud.
NewsItem(text, first, last, valid, fits) ==
    [text |-> text, begin |-> first, end |-> last, valid |-> valid, fits |-> fits]
SmallFeeds == {<<NewsItem("old", 0, 9, TRUE, TRUE), NewsItem("any", 2, 9, TRUE, TRUE)>>,
               <<NewsItem("long", 0, 1, FALSE, TRUE), NewsItem("cloud", 0, 9, TRUE, FALSE)>>}

\* Either what was set differs, on a machine with a service that the upgrade finds; or the rest does.
AnyFact == {CHOOSE fact \in Facts : TRUE}
Varies(d) == d.swept # 2713 \/ ~d.listed \/ ~d.usual
Uneventful(d) == ~Varies(d) /\ d.enabled /\ d.facts = AnyFact

Scenes == {"fix", "proxies", "services", "upgrade", "apt", "news", "commands"}

\* The scenes that stand still do so in one of their initial states.
Init ==
    /\ scene \in Scenes
    /\ \/ scene = "upgrade"
       \/ scene # "upgrade" /\ prior = 3400 /\ wanted = [proxy |-> "none", rest |-> {}]
    /\ UpgradeInit
    /\ scene = "upgrade" =>
         \/ Uneventful(disk)
         \/ wanted = [proxy |-> "secret", rest |-> {"other"}] /\ conf.form # "broken"
    /\ Varies(disk) => scene = "upgrade" /\ disk.facts = AnyFact
    /\ scene # "upgrade" => ~disk.token /\ conf = NewDefault /\ disk.facts = AnyFact
    /\ \/ scene = "fix"
       \/ /\ scene # "fix"
          /\ machine = CHOOSE m \in Machines : TRUE
          /\ request = CHOOSE r \in Requests : TRUE
    /\ FixInit
    /\ scene \in DOMAIN UsedIn \/ (scene \notin DOMAIN UsedIn /\ subscribed = TRUE)
    /\ SettingsInit
    /\ scene # "proxies" => legacy = {} /\ \A k \in Keys : stored[k] = "unset"
    /\ scene # "services" => "livepatch" \notin there
    /\ scene \notin DOMAIN UsedIn => there = {}
    /\ scene = "apt" \/ (scene # "apt" /\ deb822 = TRUE /\ updates = TRUE)
    /\ AptInit
    /\ scene # "apt" => terms.svcs = {"esm-infra"} /\ terms.snapshots
    /\ scene = "news" \/ (scene # "news" /\ stamp = 0 /\ feed = CHOOSE f \in Feeds : TRUE)
    /\ NewsInit
    /\ scene = "commands" \/ (scene # "commands" /\ on = {} /\ fit = Offers /\ blocked = FALSE)
    /\ CmdInit
    /\ blocked => fit = Offers /\ entitled = listed
    /\ scene # "commands" => listed = {"lp", "infra"}

Next ==
    /\ UNCHANGED scene
    /\ \/ /\ scene = "fix" /\ FixNext
          /\ UNCHANGED <<settingsVars, upgradeVars, aptVars, newsVars, cmdVars>>
       \/ /\ scene \in DOMAIN UsedIn /\ SettingsNext /\ UsesIts(scene)
          /\ UNCHANGED <<fixVars, upgradeVars, aptVars, newsVars, cmdVars>>
       \/ /\ scene = "upgrade" /\ UpgradeNext
          /\ UNCHANGED <<fixVars, settingsVars, aptVars, newsVars, cmdVars>>
       \/ /\ scene = "apt" /\ AptNext
          /\ UNCHANGED <<fixVars, settingsVars, upgradeVars, newsVars, cmdVars>>
       \/ /\ scene = "news" /\ NewsNext
          /\ UNCHANGED <<fixVars, settingsVars, upgradeVars, aptVars, cmdVars>>
       \/ /\ scene = "commands" /\ CmdNext
          /\ UNCHANGED <<fixVars, settingsVars, upgradeVars, aptVars, newsVars>>

Spec == Init /\ [][Next]_<<scene, fixVars, settingsVars, upgradeVars, aptVars, newsVars, cmdVars>>

=============================================================================
