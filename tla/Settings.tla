------------------------------- MODULE Settings -------------------------------
(***************************************************************************)
(* pro config set, pro config unset and pro refresh config, and what the   *)
(* enabling of services does with the same settings.                       *)
(*                                                                         *)
(* The user's settings are in a file only root reads, with a redacted copy *)
(* for everybody; what they ask for is outside: apt's proxy file, snapd's  *)
(* and livepatch's proxies, the file lxd reads.  A command loads all       *)
(* settings, configures what is outside, and then saves all settings, once *)
(* for every setting it assigns.  config set and unset take no lock.       *)
(* http_proxy stands for https_proxy as well.                              *)
(***************************************************************************)
EXTENDS Naturals, Sequences

CONSTANTS Editors,   \* the processes that may run such a command
          Given,     \* the values a setting may be given
          Modes,     \* the values lxd_guest_attach may be given, in any spelling
          Lower,     \* the spelling lxd is told, the only one that can be read back
          Used,      \* the settings that are set and unset
          MaxMishaps \* bound on overlaps and kills in a behaviour

ASSUME GivenAssumption ==
    Given # {} /\ "unset" \notin Given \cup Modes /\ "redacted" \notin Given \cup Modes
ASSUME ModesAssumption == Lower \in [Modes -> Modes] /\ \A v \in Modes : Lower[Lower[v]] = Lower[v]
ASSUME MishapsAssumption == MaxMishaps \in Nat

VARIABLES stored,     \* user-config.json in the private directory
          public,     \* its redacted copy
          aptConf,    \* 90ubuntu-advantage-aptproxy: scope and both proxies
          told,       \* what snapd, livepatch and lxd were told
          there,      \* of snapd and livepatch: which is installed, and enabled
          subscribed, \* is_attached
          legacy,     \* settings given in uaclient.conf, in the old way
          edits,      \* the commands under way
          mishaps,    \* history: overlaps and kills so far
          doubt       \* what may not be as the settings say: see SettingsInForce

settingsVars == <<stored, public, aptConf, told, there, subscribed, legacy, edits, mishaps, doubt>>

Protocols == {"http", "https"}
GlobalKey == [http |-> "global_apt_http_proxy", https |-> "global_apt_https_proxy"]
ProKey == [http |-> "ua_apt_http_proxy", https |-> "ua_apt_https_proxy"]
OldKey == [http |-> "apt_http_proxy", https |-> "apt_https_proxy"]
KeysIn(f) == {f[p] : p \in Protocols}
AptKeys == KeysIn(GlobalKey) \cup KeysIn(ProKey) \cup KeysIn(OldKey)
Keys == AptKeys \cup {"http_proxy", "lxd_guest_attach", "metering_timer"}
Proxies == AptKeys \cup {"http_proxy"}
Protocol(k) == IF k \in {GlobalKey.https, ProKey.https, OldKey.https} THEN "https" ELSE "http"

Services == {"snap", "livepatch", "lxd"}
SettingOf(f) == IF f = "lxd" THEN "lxd_guest_attach" ELSE "http_proxy"
Values == {"unset"} \cup Given \cup Modes
NoConf == [scope |-> "none", http |-> "unset", https |-> "unset"]
Facets == {"apt", "public"} \cup Services
Locking == {"refresh", "enable", "livepatch"}
EditVerbs == {"set", "unset"} \cup Locking

Idle == [at |-> "idle", object |-> [k \in Keys |-> "unset"], verb |-> "refresh",
         key |-> "http_proxy", value |-> "unset", outer |-> {}, todo |-> <<>>,
         doubt |-> {}, spoilt |-> {}]

EditRecords ==
    [at : {"idle", "loaded", "write", "publish"}, object : [Keys -> Values],
     verb : EditVerbs, key : Keys, value : Values,
     outer : SUBSET ({"apt"} \cup Services), todo : Seq(Keys \X Values),
     doubt : SUBSET Facets, spoilt : SUBSET Facets]

SettingsTypeOK ==
    /\ stored \in [Keys -> Values]
    /\ public \in [Keys -> Values \cup {"redacted"}]
    /\ aptConf \in [scope : {"none", "global", "ua"}, http : Values, https : Values]
    /\ told \in [Services -> Values] /\ there \subseteq {"snap", "livepatch"}
    /\ subscribed \in BOOLEAN /\ legacy \in SUBSET Keys
    /\ edits \in [Editors -> EditRecords]
    /\ mishaps \in 0..MaxMishaps /\ doubt \subseteq Facets

-----------------------------------------------------------------------------

\* The proxy for all of apt; the deprecated key still counts.
Global(o, p) == IF o[GlobalKey[p]] # "unset" THEN o[GlobalKey[p]] ELSE o[OldKey[p]]
HasGlobal(o) == \E p \in Protocols : Global(o, p) # "unset"
HasPro(o) == \E p \in Protocols : o[ProKey[p]] # "unset"
BothScopes(o) == HasGlobal(o) /\ HasPro(o)

\* setup_apt_proxy: the file says just this, or is not there.
Render(scope, f) ==
    IF \A p \in Protocols : f[p] = "unset" THEN NoConf
    ELSE [scope |-> scope, http |-> f["http"], https |-> f["https"]]

InForce(o) == IF HasGlobal(o) THEN Render("global", [p \in Protocols |-> Global(o, p)])
                              ELSE Render("ua", [p \in Protocols |-> o[ProKey[p]]])

\* redact_config_data: a proxy with credentials.
Redact(o) == [k \in Keys |-> IF k \in Proxies /\ o[k] # "unset" THEN "redacted" ELSE o[k]]

\* LXDGuestAttachEnum has no such value: redaction raises, and a read takes it for null.
Misspelt(v) == v \in Modes /\ Lower[v] # v
Readable(k, v) == IF k = "lxd_guest_attach" /\ Misspelt(v) THEN "unset" ELSE v

\* UAConfig.__init__: the file, overridden by what uaclient.conf still says.
Load == [k \in Keys |-> IF k \in legacy THEN CHOOSE v \in Given : TRUE
                        ELSE Readable(k, stored[k])]

\* The setters: one of a global key also clears the deprecated one.
Assign(o, k, v) ==
    [o EXCEPT ![OldKey[Protocol(k)]] = IF k \in KeysIn(GlobalKey) THEN "unset" ELSE @,
              ![k] = v]

\* Mutant of ConfiguredProxy: the other protocol is not taken from the settings.
ConfiguredProxyAlone(o, k, v) ==
    Render(IF k \in KeysIn(GlobalKey) THEN "global" ELSE "ua",
           [p \in Protocols |-> IF p = Protocol(k) THEN v ELSE "unset"])

\* configure_apt_proxy: one protocol changes, the other is as it was.
ConfiguredProxy(o, k, v) ==
    IF k \in KeysIn(GlobalKey)
    THEN Render("global", [p \in Protocols |-> IF p = Protocol(k) THEN v ELSE Global(o, p)])
    ELSE Render("ua", [p \in Protocols |-> IF p = Protocol(k) THEN v ELSE o[ProKey[p]]])

\* The assignments of a command, in order: setting one scope clears the other first.
Assignments(verb, k, v) ==
    IF verb \in Locking THEN <<>>
    ELSE LET Clear(f) == <<<<f.http, "unset">>, <<f.https, "unset">>>> IN
         (IF verb = "unset" THEN <<>>
          ELSE IF k \in KeysIn(ProKey) THEN Clear(GlobalKey)
          ELSE IF k \in KeysIn(GlobalKey) THEN Clear(ProKey) ELSE <<>>)
         \o <<<<k, v>>>>

\* What a command configures, and in which order.  process_config leaves apt alone if no proxy
\* is set.  Enabling a repository sets up apt's proxy, enabling livepatch snapd's and its own.
Configures(verb, k, o) ==
    IF verb = "refresh" THEN IF HasGlobal(o) \/ HasPro(o) THEN {"apt"} \cup Services ELSE Services
    ELSE IF verb = "enable" THEN {"apt"}
    ELSE IF verb = "livepatch" THEN {"snap", "livepatch"}
    ELSE IF k \in AptKeys THEN {"apt"}
    ELSE {f \in Services : SettingOf(f) = k}
Before(f) == CASE f = "apt" -> {} [] f = "snap" -> {"apt"} [] f = "livepatch" -> {"apt", "snap"}
               [] OTHER -> {"apt", "snap", "livepatch"}

\* To unset a proxy of the scope that is not in use removes the file of the one that is.
Strays(r) == r.verb = "unset" /\ \/ r.key \in KeysIn(ProKey) /\ HasGlobal(r.object)
                                 \/ r.key \in KeysIn(GlobalKey) /\ HasPro(r.object)

Locked == \E e \in Editors : edits[e].at # "idle" /\ edits[e].verb \in Locking

-----------------------------------------------------------------------------

SettingsInit ==
    /\ \E old \in {"unset"} \cup Given :
        stored = [k \in Keys |-> IF k = OldKey.https THEN old ELSE "unset"]
    /\ public = Redact(stored)
    /\ aptConf = InForce(stored)
    /\ told = [f \in Services |-> "unset"]
    /\ there \in {{}, {"snap"}, {"snap", "livepatch"}}
    /\ subscribed \in BOOLEAN /\ ("livepatch" \in there => subscribed)
    /\ legacy \in {{}, {GlobalKey.http}}
    /\ edits = [e \in Editors |-> Idle]
    /\ mishaps = 0 /\ doubt = {}

\* The command is read, the settings are loaded, the value is validated.
StartEdit(e, verb, k, v) ==
    LET o == Load
        overlap == \E q \in Editors : edits[q].at # "idle" IN
    /\ edits[e].at = "idle"
    /\ overlap => mishaps < MaxMishaps
    /\ mishaps' = IF overlap THEN mishaps + 1 ELSE mishaps
    /\ IF verb \in Locking THEN ~Locked /\ k = "http_proxy" ELSE k \in Used
    /\ k \notin KeysIn(OldKey)          \* taken for the global key
    /\ IF verb # "set" THEN v = "unset"
       ELSE IF k # "lxd_guest_attach" THEN v \in Given ELSE v \in Modes /\ subscribed
    /\ verb = "refresh" => ~BothScopes(o)
    /\ verb \in {"enable", "livepatch"} => subscribed
    /\ edits' = [r \in Editors |->
        IF r = e
        THEN [at |-> "loaded", object |-> o, verb |-> verb, key |-> k, value |-> v,
              outer |-> Configures(verb, k, o), todo |-> Assignments(verb, k, v),
              doubt |-> doubt, spoilt |-> IF overlap THEN Facets ELSE {}]
        ELSE IF edits[r].at = "idle" THEN edits[r] ELSE [edits[r] EXCEPT !.spoilt = Facets]]
    /\ doubt' = Facets
    /\ UNCHANGED <<stored, public, aptConf, told, there, subscribed, legacy>>

Leave(e) ==
    /\ edits' = [edits EXCEPT ![e] = Idle]
    /\ doubt' = edits[e].doubt \cup edits[e].spoilt
    /\ UNCHANGED <<stored, public, aptConf, told, there, subscribed, legacy, mishaps>>

\* The value is empty, no number or no mode, or the proxy does not answer.
RefuseEdit(e) ==
    /\ edits[e].at = "loaded"
    /\ edits[e].outer = Configures(edits[e].verb, edits[e].key, edits[e].object)
    /\ Leave(e)

ConfigureApt(e) ==
    LET r == edits[e] IN
    /\ r.at = "loaded" /\ "apt" \in r.outer
    /\ aptConf' = IF r.verb \in Locking THEN InForce(r.object)
                  ELSE ConfiguredProxy(r.object, r.key, r.value)
    /\ edits' = [edits EXCEPT ![e].outer = @ \ {"apt"},
                              ![e].doubt = IF Strays(r) THEN @ \cup {"apt"} ELSE @ \ {"apt"}]
    /\ UNCHANGED <<stored, public, told, there, subscribed, legacy, mishaps, doubt>>

\* What a service is told: one that is not there nothing, and from the settings only what they
\* have, but lxd also that there is nothing.
Tells(r, f) ==
    IF r.verb \in {"set", "unset"} THEN f = "lxd" \/ f \in there
    ELSE IF f = "lxd" THEN r.object["lxd_guest_attach"] = "unset" \/ subscribed
    ELSE r.object["http_proxy"] # "unset" /\ (f \in there \/ r.verb = "livepatch")
Message(r, f) ==
    IF r.verb \notin {"set", "unset"} THEN r.object[SettingOf(f)]
    ELSE IF f = "lxd" /\ r.value # "unset" THEN Lower[r.value] ELSE r.value

\* snapd's and livepatch's proxies, and lxd's file.  To enable livepatch also installs snapd.
\* A service that is not there and comes later may have an older proxy.
Configure(e, f) ==
    LET r == edits[e] IN
    /\ r.at = "loaded" /\ f \in r.outer /\ Before(f) \cap r.outer = {}
    /\ told' = IF Tells(r, f) THEN [told EXCEPT ![f] = Message(r, f)] ELSE told
    /\ there' = IF r.verb = "livepatch" THEN there \cup {f} ELSE there
    /\ edits' = [edits EXCEPT ![e].outer = @ \ {f},
                              ![e].doubt = IF Tells(r, f) THEN @ \ {f}
                                           ELSE IF r.verb \in Locking THEN @ ELSE @ \cup {f}]
    /\ UNCHANGED <<stored, public, aptConf, subscribed, legacy, mishaps, doubt>>

\* A setter: the object changes and all of it is written, as it was typed.
WritePrivate(e) ==
    LET r == edits[e]
        k == Head(r.todo)[1]
        o == Assign(r.object, k, Head(r.todo)[2]) IN
    /\ r.at \in {"loaded", "write"} /\ r.outer = {} /\ r.todo # <<>>
    /\ stored' = o
    /\ edits' = [edits EXCEPT
          ![e].object = o, ![e].todo = Tail(@), ![e].at = "publish",
          ![e].doubt = @ \cup IF Misspelt(o["lxd_guest_attach"]) THEN {"public", "lxd"}
                               ELSE {"public"}]
    /\ UNCHANGED <<public, aptConf, told, there, subscribed, legacy, mishaps, doubt>>

WritePublic(e) ==
    /\ edits[e].at = "publish" /\ ~Misspelt(edits[e].object["lxd_guest_attach"])
    /\ public' = Redact(edits[e].object)
    /\ edits' = [edits EXCEPT ![e].at = "write", ![e].doubt = @ \ {"public"}]
    /\ UNCHANGED <<stored, aptConf, told, there, subscribed, legacy, mishaps, doubt>>

\* redact_config_data raises IncorrectEnumValueError.
RedactRaises(e) ==
    /\ edits[e].at = "publish" /\ Misspelt(edits[e].object["lxd_guest_attach"])
    /\ Leave(e)

EndEdit(e) ==
    /\ edits[e].at \in {"loaded", "write"} /\ edits[e].outer = {} /\ edits[e].todo = <<>>
    /\ Leave(e)

\* A kill, or snap or livepatch failing.
KillEdit(e) ==
    /\ edits[e].at # "idle" /\ mishaps < MaxMishaps
    /\ mishaps' = mishaps + 1
    /\ edits' = [edits EXCEPT ![e] = Idle]
    /\ UNCHANGED <<stored, public, aptConf, told, there, subscribed, legacy, doubt>>

Subscribe ==
    /\ ~Locked /\ ~subscribed
    /\ subscribed' = TRUE
    /\ UNCHANGED <<stored, public, aptConf, told, there, legacy, edits, mishaps, doubt>>

\* detach disables livepatch, and delete_state_files deletes lxd's file: the setting stays.
Unsubscribe ==
    /\ ~Locked /\ subscribed
    /\ subscribed' = FALSE
    /\ told' = [told EXCEPT !["lxd"] = "unset"]
    /\ there' = there \ {"livepatch"}
    /\ edits' = [e \in Editors |->
          IF edits[e].at = "idle" THEN edits[e] ELSE [edits[e] EXCEPT !.spoilt = @ \cup {"lxd"}]]
    /\ doubt' = IF stored["lxd_guest_attach"] = "unset" THEN doubt ELSE doubt \cup {"lxd"}
    /\ UNCHANGED <<stored, public, aptConf, legacy, mishaps>>

\* Nothing is taken back from a livepatch that is disabled.
DisableLivepatch ==
    /\ ~Locked /\ "livepatch" \in there
    /\ there' = there \ {"livepatch"}
    /\ UNCHANGED <<stored, public, aptConf, told, subscribed, legacy, edits, mishaps, doubt>>

SettingsNext ==
    \/ \E e \in Editors :
        \/ \E verb \in EditVerbs, k \in Keys, v \in Values : StartEdit(e, verb, k, v)
        \/ \E f \in Services : Configure(e, f)
        \/ RefuseEdit(e) \/ ConfigureApt(e) \/ WritePrivate(e) \/ WritePublic(e)
        \/ RedactRaises(e) \/ EndEdit(e) \/ KillEdit(e)
    \/ Subscribe \/ Unsubscribe \/ DisableLivepatch

SettingsSpec == SettingsInit /\ [][SettingsNext]_settingsVars

-----------------------------------------------------------------------------

\* Whatever overlaps, fails or is killed, the settings never ask for two proxies of apt at
\* once.  And what apt, snapd, livepatch and lxd were told is what the settings on file say, and
\* the public copy is the redacted private one, unless there is doubt about just this, which a
\* later undisturbed command that tells it the setting removes.  What may leave a doubt:
\* commands that overlap, a kill or a failure; to unset an apt proxy of the scope that is not in
\* use; to change http_proxy while snapd or livepatch is not there; a detach, for lxd; a value
\* for lxd in capitals.  (action_config_set, process_config, detach, _perform_enable)
SettingsInForce ==
    /\ legacy = {} => ~BothScopes(stored)
    /\ "apt" \notin doubt /\ legacy = {} => aptConf = InForce(stored)
    /\ "public" \notin doubt => public = Redact(stored)
    /\ \A f \in Services \ doubt : told[f] = Readable(SettingOf(f), stored[SettingOf(f)])

=============================================================================
