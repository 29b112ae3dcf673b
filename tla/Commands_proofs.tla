--------------------------- MODULE Commands_proofs ----------------------------
(* Theorems of the user's commands: pro config, pro fix, and pro enable and disable. *)
EXTENDS Settings, SecurityFix, ServiceCommands, SequenceTheorems, WellFoundedInduction, TLAPS

-------------------------------------------------------------------------------
(* Settings, for every number of commands under way, all values and spellings, every number
   of mishaps. *)

\* apt's proxy keys are six, and a key tells its kind and protocol.
LEMMA KeyFacts ==
    /\ KeysIn(GlobalKey) = {"global_apt_http_proxy", "global_apt_https_proxy"}
    /\ KeysIn(ProKey) = {"ua_apt_http_proxy", "ua_apt_https_proxy"}
    /\ KeysIn(OldKey) = {"apt_http_proxy", "apt_https_proxy"}
BY DEF KeysIn, GlobalKey, ProKey, OldKey, Protocols

LEMMA Tail1 == ASSUME NEW a PROVE Tail(<<a>>) = <<>> /\ Head(<<a>>) = a
OBVIOUS

LEMMA Tail2 == ASSUME NEW a, NEW b PROVE Tail(<<a, b>>) = <<b>> /\ Head(<<a, b>>) = a
OBVIOUS

LEMMA Tail3 ==
    ASSUME NEW a, NEW b, NEW c PROVE Tail(<<a, b, c>>) = <<b, c>> /\ Head(<<a, b, c>>) = a
OBVIOUS

LEMMA Concat0 == ASSUME NEW a PROVE <<>> \o <<a>> = <<a>>
OBVIOUS

LEMMA Concat2 == ASSUME NEW a, NEW b, NEW c PROVE <<a, b>> \o <<c>> = <<a, b, c>>
<1> DEFINE S == {a, b, c}
<1>1. <<a, b>> \in Seq(S) /\ <<c>> \in Seq(S) /\ <<a, b, c>> \in Seq(S)
  OBVIOUS
<1> HIDE DEF S
<1>2. /\ <<a, b>> \o <<c>> \in Seq(S) /\ Len(<<a, b>> \o <<c>>) = 3
      /\ \A i \in 1..3 : (<<a, b>> \o <<c>>)[i] = IF i <= 2 THEN <<a, b>>[i] ELSE <<c>>[i - 2]
  BY <1>1, ConcatProperties
<1>3. \A i \in 1..3 : (<<a, b>> \o <<c>>)[i] = <<a, b, c>>[i]
  BY <1>2
<1> QED
  BY <1>1, <1>2, <1>3, SeqEqual

Other(k) == IF k \in KeysIn(ProKey) THEN GlobalKey ELSE ProKey

LEMMA AssignmentsAre ==
    ASSUME NEW verb \in {"set", "unset"}, NEW k, NEW v
    PROVE  Assignments(verb, k, v) =
             IF verb = "set" /\ k \in KeysIn(ProKey) \cup KeysIn(GlobalKey)
             THEN <<<<Other(k).http, "unset">>, <<Other(k).https, "unset">>, <<k, v>>>>
             ELSE <<<<k, v>>>>
<1>1. CASE verb = "set" /\ k \in KeysIn(ProKey)
  BY <1>1, Concat2 DEF Assignments, Other, Locking
<1>2. CASE verb = "set" /\ k \notin KeysIn(ProKey) /\ k \in KeysIn(GlobalKey)
  BY <1>2, Concat2 DEF Assignments, Other, Locking
<1>3. CASE ~(verb = "set" /\ k \in KeysIn(ProKey) \cup KeysIn(GlobalKey))
  <2>1. Assignments(verb, k, v) = <<>> \o <<<<k, v>>>>
    BY <1>3 DEF Assignments, Locking
  <2> QED
    BY <1>3, <2>1, Concat0
<1> QED
  BY <1>1, <1>2, <1>3

\* The settings of the services.
OuterKeys == {"http_proxy", "lxd_guest_attach"}

LEMMA ServiceFacts ==
    /\ \A f \in Services : SettingOf(f) \in OuterKeys /\ f # "apt" /\ f # "public"
    /\ OuterKeys \subseteq Keys \ AptKeys
    /\ Facets = {"apt", "public"} \cup Services
BY KeyFacts DEF Services, SettingOf, OuterKeys, Keys, AptKeys, Facets


-----------------------------------------------------------------------------

LEMMA ScopeKeys ==
    ASSUME NEW p \in Protocols
    PROVE  /\ p \in {"http", "https"}
           /\ GlobalKey[p] \in KeysIn(GlobalKey) /\ GlobalKey[p] \in Keys
           /\ ProKey[p] \in KeysIn(ProKey) /\ ProKey[p] \in Keys
           /\ OldKey[p] \in KeysIn(OldKey) /\ OldKey[p] \in Keys
           /\ Protocol(GlobalKey[p]) = p /\ Protocol(ProKey[p]) = p
           /\ \A k \in KeysIn(GlobalKey) : Protocol(k) = p <=> k = GlobalKey[p]
           /\ \A k \in KeysIn(ProKey) : Protocol(k) = p <=> k = ProKey[p]
           /\ GlobalKey[p] \notin KeysIn(ProKey) \cup KeysIn(OldKey) \cup OuterKeys
           /\ ProKey[p] \notin KeysIn(GlobalKey) \cup KeysIn(OldKey) \cup OuterKeys
           /\ OldKey[p] \notin KeysIn(GlobalKey) \cup KeysIn(ProKey) \cup OuterKeys
BY KeyFacts DEF Keys, AptKeys, OuterKeys, Protocol, Protocols, GlobalKey, ProKey, OldKey

LEMMA ProtocolIs == \A k : Protocol(k) \in Protocols
BY DEF Protocol, Protocols

LEMMA AssignIs ==
    ASSUME NEW o \in [Keys -> Values], NEW k \in Keys, NEW v \in Values
    PROVE  /\ Assign(o, k, v) \in [Keys -> Values] /\ Assign(o, k, v)[k] = v
           /\ \A j \in Keys \ {k} :
                Assign(o, k, v)[j] = IF k \in KeysIn(GlobalKey) /\ j = OldKey[Protocol(k)]
                                     THEN "unset" ELSE o[j]
<1>1. OldKey[Protocol(k)] \in Keys
  BY ProtocolIs, ScopeKeys
<1>2. "unset" \in Values
  BY DEF Values
<1> QED
  BY <1>1, <1>2 DEF Assign

\* A setter changes what the key says for its own scope and protocol, nothing else: setting
\* or clearing a global key also silences the deprecated one.
LEMMA GlobalOfAssign ==
    ASSUME NEW o \in [Keys -> Values], NEW k \in Keys \ KeysIn(OldKey), NEW v \in Values,
           NEW p \in Protocols
    PROVE  Global(Assign(o, k, v), p) = IF k = GlobalKey[p] THEN v ELSE Global(o, p)
<1>1. CASE k = GlobalKey[p]
  <2>1. Protocol(k) = p /\ OldKey[p] # k /\ k \in KeysIn(GlobalKey)
    BY <1>1, ScopeKeys
  <2> QED
    BY <1>1, <2>1, AssignIs, ScopeKeys DEF Global
<1>2. CASE k # GlobalKey[p]
  <2>1. k \in KeysIn(GlobalKey) => OldKey[Protocol(k)] # OldKey[p]
    BY <1>2, KeyFacts, ScopeKeys DEF Protocol, Protocols, OldKey, GlobalKey, ProKey
  <2>2. OldKey[Protocol(k)] # GlobalKey[p]
    BY ProtocolIs, ScopeKeys
  <2>3. OldKey[p] # k
    BY ScopeKeys
  <2>4. Assign(o, k, v)[GlobalKey[p]] = o[GlobalKey[p]]
    BY <1>2, <2>2, AssignIs, ScopeKeys
  <2>5. Assign(o, k, v)[OldKey[p]] = o[OldKey[p]]
    BY <2>1, <2>3, AssignIs, ScopeKeys
  <2> QED
    BY <1>2, <2>4, <2>5 DEF Global
<1> QED
  BY <1>1, <1>2

LEMMA ProOfAssign ==
    ASSUME NEW o \in [Keys -> Values], NEW k \in Keys \ KeysIn(OldKey), NEW v \in Values,
           NEW p \in Protocols
    PROVE  Assign(o, k, v)[ProKey[p]] = IF k = ProKey[p] THEN v ELSE o[ProKey[p]]
<1>1. ProKey[p] \in Keys /\ OldKey[Protocol(k)] # ProKey[p]
  BY ProtocolIs, ScopeKeys
<1>2. CASE k = ProKey[p]
  BY <1>2, AssignIs
<1>3. CASE k # ProKey[p]
  BY <1>1, <1>3, AssignIs
<1> QED
  BY <1>2, <1>3

LEMMA OuterOfAssign ==
    ASSUME NEW o \in [Keys -> Values], NEW k \in Keys \ KeysIn(OldKey), NEW v \in Values,
           NEW f \in OuterKeys
    PROVE  Assign(o, k, v)[f] = IF f = k THEN v ELSE o[f]
<1>1. f \in Keys /\ OldKey[Protocol(k)] # f
  BY ProtocolIs, ScopeKeys DEF Keys, OuterKeys
<1>2. CASE k = f
  BY <1>2, AssignIs
<1>3. CASE k # f
  BY <1>1, <1>3, AssignIs
<1> QED
  BY <1>2, <1>3

\* What apt is to be told depends on the keys of apt alone.
LEMMA InForceStable ==
    ASSUME NEW o \in [Keys -> Values], NEW k \in Keys \ AptKeys, NEW v \in Values
    PROVE  /\ InForce(Assign(o, k, v)) = InForce(o)
           /\ HasGlobal(Assign(o, k, v)) <=> HasGlobal(o)
           /\ HasPro(Assign(o, k, v)) <=> HasPro(o)
<1>1. \A p \in Protocols : k # GlobalKey[p] /\ k # ProKey[p]
  BY ScopeKeys DEF AptKeys
<1>2. k \notin KeysIn(OldKey)
  BY DEF AptKeys
<1>3. \A p \in Protocols : /\ Global(Assign(o, k, v), p) = Global(o, p)
                           /\ Assign(o, k, v)[ProKey[p]] = o[ProKey[p]]
  BY <1>1, <1>2, GlobalOfAssign, ProOfAssign
<1>4. /\ [p \in Protocols |-> Global(Assign(o, k, v), p)] = [p \in Protocols |-> Global(o, p)]
      /\ [p \in Protocols |-> Assign(o, k, v)[ProKey[p]]] = [p \in Protocols |-> o[ProKey[p]]]
  BY <1>3
<1>5. /\ HasGlobal(Assign(o, k, v)) <=> HasGlobal(o)
      /\ HasPro(Assign(o, k, v)) <=> HasPro(o)
  BY <1>3 DEF HasGlobal, HasPro
<1> QED
  BY <1>4, <1>5 DEF InForce

\* What a command tells apt does not change under the assignments it makes afterwards.
LEMMA ConfiguredStable ==
    ASSUME NEW o \in [Keys -> Values], NEW k \in KeysIn(GlobalKey) \cup KeysIn(ProKey),
           NEW v \in Values, NEW j \in Keys \ KeysIn(OldKey), NEW u \in Values,
           \/ j = k
           \/ k \in KeysIn(ProKey) /\ j \in KeysIn(GlobalKey)
           \/ k \in KeysIn(GlobalKey) /\ j \in KeysIn(ProKey)
    PROVE  ConfiguredProxy(Assign(o, j, u), k, v) = ConfiguredProxy(o, k, v)
<1>1. CASE k \in KeysIn(GlobalKey)
  <2>1. \A p \in Protocols : p # Protocol(k) => Global(Assign(o, j, u), p) = Global(o, p)
    <3>1. \A p \in Protocols : p # Protocol(k) => j # GlobalKey[p]
      BY <1>1, ScopeKeys, KeyFacts
    <3> QED
      BY <3>1, GlobalOfAssign
  <2>2. [p \in Protocols |-> IF p = Protocol(k) THEN v ELSE Global(Assign(o, j, u), p)]
        = [p \in Protocols |-> IF p = Protocol(k) THEN v ELSE Global(o, p)]
    BY <2>1
  <2> QED
    BY <1>1, <2>2 DEF ConfiguredProxy
<1>2. CASE k \notin KeysIn(GlobalKey)
  <2>1. \A p \in Protocols : p # Protocol(k) => Assign(o, j, u)[ProKey[p]] = o[ProKey[p]]
    <3>1. \A p \in Protocols : p # Protocol(k) => j # ProKey[p]
      BY <1>2, ScopeKeys, KeyFacts
    <3> QED
      BY <3>1, ProOfAssign
  <2>2. [p \in Protocols |-> IF p = Protocol(k) THEN v ELSE Assign(o, j, u)[ProKey[p]]]
        = [p \in Protocols |-> IF p = Protocol(k) THEN v ELSE o[ProKey[p]]]
    BY <2>1
  <2> QED
    BY <1>2, <2>2 DEF ConfiguredProxy
<1> QED
  BY <1>1, <1>2

FacetOK(f) ==
    /\ f = "apt" /\ legacy = {} => aptConf = InForce(stored)
    /\ f = "public" => public = Redact(stored)
    /\ f \in Services => told[f] = Readable(SettingOf(f), stored[SettingOf(f)])

Busy(e) == edits[e].at # "idle"

\* The other scope is not in use any more, as far as protocol p.
Cleared(r, p) == IF r.key \in KeysIn(ProKey) THEN Global(r.object, p) = "unset"
                                             ELSE r.object[ProKey[p]] = "unset"
Scoped(r) == r.verb = "set" /\ r.key \in KeysIn(ProKey) \cup KeysIn(GlobalKey)
Last(r) == <<r.key, r.value>>
Long(r) == <<<<Other(r.key).http, "unset">>, <<Other(r.key).https, "unset">>, Last(r)>>
Middle(r) == <<<<Other(r.key).https, "unset">>, Last(r)>>

TodoOK(r) ==
    /\ r.verb \in Locking => r.todo = <<>> /\ r.at = "loaded"
    /\ r.todo = <<>> \/ r.todo = <<Last(r)>> \/ (Scoped(r) /\ r.todo \in {Middle(r), Long(r)})
    /\ Scoped(r) /\ r.todo # Long(r) => Cleared(r, "http")
    /\ Scoped(r) /\ r.todo # Long(r) /\ r.todo # Middle(r) => Cleared(r, "https")
    /\ r.todo = <<>> /\ r.verb \notin Locking =>
        /\ r.object[r.key] = r.value
        /\ r.key \in KeysIn(GlobalKey) => r.object[OldKey[Protocol(r.key)]] = "unset"

EditOK(r) ==
    /\ r.key \notin KeysIn(OldKey)
    /\ r.verb = "set" <=> r.value # "unset"
    /\ r.verb = "set" /\ r.key = "lxd_guest_attach" => r.value \in Modes
    /\ r.at = "loaded" => r.todo = Assignments(r.verb, r.key, r.value)
    /\ r.outer # {} => r.at = "loaded"
    /\ r.outer \subseteq Configures(r.verb, r.key, r.object)
    /\ TodoOK(r)
    /\ legacy = {} => ~BothScopes(r.object)
    /\ Misspelt(r.object["lxd_guest_attach"]) =>
        r.at = "publish" /\ r.key = "lxd_guest_attach" /\ {"public", "lxd"} \subseteq r.doubt

\* What a command on one setting tells, and what it tells.
Own(r) == IF r.verb \in Locking THEN {} ELSE Configures(r.verb, r.key, r.object)
Said(r, f) ==
    IF f = "apt" THEN aptConf = ConfiguredProxy(r.object, r.key, r.value) /\ ~Strays(r)
    ELSE told[f] = Message(r, f)

CleanOK(r) ==
    /\ r.at = "loaded" => r.object = Load
    /\ r.at # "loaded" => stored = r.object
    /\ r.at = "publish" => "public" \in r.doubt
    /\ \A f \in Facets \ (r.doubt \cup r.spoilt) :
        IF f \in Own(r) \ r.outer THEN Said(r, f) ELSE FacetOK(f)

Places ==
    /\ legacy \in {{}, {GlobalKey.http}}
    /\ legacy = {} => ~BothScopes(stored)
    /\ \A e \in Editors : Busy(e) => doubt = Facets
    /\ \A e, q \in Editors : Busy(e) /\ Busy(q) /\ edits[e].spoilt # Facets => q = e
    /\ \A e \in Editors : Busy(e) => EditOK(edits[e])

Settled ==
    /\ \A f \in Facets \ doubt : FacetOK(f)
    /\ \A e \in Editors : Busy(e) /\ edits[e].spoilt # Facets => CleanOK(edits[e])

SettingsInv == SettingsTypeOK /\ Places /\ Settled

-----------------------------------------------------------------------------

\* A command that is done told apt what the settings now ask for, unless the other scope is
\* the one in use.
LEMMA InForceEnd ==
    ASSUME NEW o \in [Keys -> Values], NEW k \in KeysIn(GlobalKey) \cup KeysIn(ProKey),
           NEW v \in Values, o[k] = v,
           k \in KeysIn(GlobalKey) => o[OldKey[Protocol(k)]] = "unset",
           k \in KeysIn(ProKey) => ~HasGlobal(o),
           k \in KeysIn(GlobalKey) => ~HasPro(o)
    PROVE  InForce(o) = ConfiguredProxy(o, k, v)
<1>1. CASE k \in KeysIn(ProKey)
  <2>1. k \notin KeysIn(GlobalKey)
    BY <1>1, KeyFacts
  <2>2. \A p \in Protocols : o[ProKey[p]] = IF p = Protocol(k) THEN v ELSE o[ProKey[p]]
    BY <1>1, ScopeKeys
  <2>3. [p \in Protocols |-> o[ProKey[p]]]
        = [p \in Protocols |-> IF p = Protocol(k) THEN v ELSE o[ProKey[p]]]
    BY <2>2
  <2> QED
    BY <1>1, <2>1, <2>3 DEF InForce, ConfiguredProxy
<1>2. CASE k \in KeysIn(GlobalKey)
  <2>1. Global(o, Protocol(k)) = v
    BY <1>2, ScopeKeys, ProtocolIs DEF Global
  <2>2. [p \in Protocols |-> Global(o, p)]
        = [p \in Protocols |-> IF p = Protocol(k) THEN v ELSE Global(o, p)]
    BY <2>1
  <2>3. ConfiguredProxy(o, k, v) = Render("global", [p \in Protocols |-> Global(o, p)])
    BY <1>2, <2>2 DEF ConfiguredProxy
  <2>4. CASE HasGlobal(o)
    BY <2>3, <2>4 DEF InForce
  <2>5. CASE ~HasGlobal(o)
    <3>1. ConfiguredProxy(o, k, v) = NoConf
      BY <2>3, <2>5 DEF Render, HasGlobal
    <3>2. InForce(o) = NoConf
      BY <1>2, <2>5 DEF InForce, Render, HasPro
    <3> QED
      BY <3>1, <3>2
  <2> QED
    BY <2>4, <2>5
<1> QED
  BY <1>1, <1>2

-----------------------------------------------------------------------------

AptConfs == [scope : {"none", "global", "ua"}, http : Values, https : Values]

LEMMA ConfTypes ==
    ASSUME NEW o \in [Keys -> Values], NEW k, NEW v \in Values
    PROVE  InForce(o) \in AptConfs /\ ConfiguredProxy(o, k, v) \in AptConfs
<1>1. \A p \in Protocols : Global(o, p) \in Values /\ o[ProKey[p]] \in Values
  BY ScopeKeys DEF Global
<1>2. ASSUME NEW f \in [Protocols -> Values], NEW scope \in {"global", "ua"}
      PROVE  Render(scope, f) \in AptConfs
  BY <1>2 DEF Render, AptConfs, NoConf, Protocols, Values
<1>3. /\ [p \in Protocols |-> Global(o, p)] \in [Protocols -> Values]
      /\ [p \in Protocols |-> o[ProKey[p]]] \in [Protocols -> Values]
      /\ [p \in Protocols |-> IF p = Protocol(k) THEN v ELSE Global(o, p)] \in [Protocols -> Values]
      /\ [p \in Protocols |-> IF p = Protocol(k) THEN v ELSE o[ProKey[p]]] \in [Protocols -> Values]
  BY <1>1
<1>4. InForce(o) \in AptConfs
  BY <1>2, <1>3 DEF InForce
<1>5. ConfiguredProxy(o, k, v) \in AptConfs
  BY <1>2, <1>3 DEF ConfiguredProxy
<1> QED
  BY <1>4, <1>5

LEMMA RedactType ==
    ASSUME NEW o \in [Keys -> Values]
    PROVE  Redact(o) \in [Keys -> Values \cup {"redacted"}]
BY DEF Redact

LEMMA LoadType == ASSUME SettingsTypeOK PROVE Load \in [Keys -> Values]
<1>1. (CHOOSE v \in Given : TRUE) \in Values
  BY GivenAssumption DEF Values
<1>2. \A k \in Keys : Readable(k, stored[k]) \in Values
  BY DEF Readable, SettingsTypeOK, Values
<1> QED
  BY <1>1, <1>2 DEF Load, SettingsTypeOK

LEMMA ConfiguresType ==
    ASSUME NEW verb, NEW k, NEW o PROVE Configures(verb, k, o) \subseteq {"apt"} \cup Services
BY DEF Configures, Services

LEMMA ConfiguresAre ==
    ASSUME NEW verb, NEW k, NEW o
    PROVE  /\ verb = "refresh" => Configures(verb, k, o) =
                    IF HasGlobal(o) \/ HasPro(o) THEN {"apt"} \cup Services ELSE Services
           /\ verb = "enable" => Configures(verb, k, o) = {"apt"}
           /\ verb = "livepatch" => Configures(verb, k, o) = {"snap", "livepatch"}
           /\ verb \notin Locking /\ k \in AptKeys => Configures(verb, k, o) = {"apt"}
           /\ verb \notin Locking /\ k = "http_proxy" =>
                    Configures(verb, k, o) = {"snap", "livepatch"}
           /\ verb \notin Locking /\ k = "lxd_guest_attach" => Configures(verb, k, o) = {"lxd"}
           /\ verb \notin Locking /\ k \notin AptKeys \cup OuterKeys => Configures(verb, k, o) = {}
<1>1. "http_proxy" \notin AptKeys /\ "lxd_guest_attach" \notin AptKeys
  BY KeyFacts DEF AptKeys
<1>2. CASE verb \in Locking
  <2>1. CASE verb = "refresh"
    BY <2>1 DEF Configures, Locking
  <2>2. CASE verb = "enable"
    BY <2>2 DEF Configures, Locking
  <2>3. CASE verb = "livepatch"
    BY <2>3 DEF Configures, Locking
  <2> QED
    BY <1>2, <2>1, <2>2, <2>3 DEF Locking
<1>3. CASE verb \notin Locking /\ k \in AptKeys
  BY <1>1, <1>3 DEF Configures, Locking, OuterKeys
<1>4. CASE verb \notin Locking /\ k \notin AptKeys
  <2>1. Configures(verb, k, o) = {f \in Services : SettingOf(f) = k}
    BY <1>4 DEF Configures, Locking
  <2>2. \A f \in Services : SettingOf(f) = k <=> IF f = "lxd" THEN k = "lxd_guest_attach"
                                                              ELSE k = "http_proxy"
    BY DEF SettingOf
  <2>3. k \notin OuterKeys => Configures(verb, k, o) = {}
    BY <2>1, <2>2 DEF OuterKeys
  <2>4. k = "http_proxy" =>
                    Configures(verb, k, o) = {"snap", "livepatch"}
    BY <2>1, <2>2 DEF Services
  <2>5. k = "lxd_guest_attach" => Configures(verb, k, o) = {"lxd"}
    BY <2>1, <2>2 DEF Services
  <2> QED
    BY <1>4, <2>3, <2>4, <2>5 DEF Locking
<1> QED
  BY <1>2, <1>3, <1>4

LEMMA AssignmentsType ==
    ASSUME NEW verb \in EditVerbs, NEW k \in Keys, NEW v \in Values
    PROVE  Assignments(verb, k, v) \in Seq(Keys \X Values)
<1>1. CASE verb \in Locking
  BY <1>1 DEF Assignments
<1>2. CASE verb \notin Locking
  <2>1. <<k, v>> \in Keys \X Values
    OBVIOUS
  <2>2. /\ <<Other(k).http, "unset">> \in Keys \X Values
        /\ <<Other(k).https, "unset">> \in Keys \X Values
    BY DEF Other, GlobalKey, ProKey, Keys, AptKeys, KeysIn, Protocols, Values
  <2> DEFINE a == <<Other(k).http, "unset">>
             b == <<Other(k).https, "unset">>
             c == <<k, v>>
  <2>3. Assignments(verb, k, v) \in {<<a, b, c>>, <<c>>}
    BY <1>2, AssignmentsAre DEF EditVerbs
  <2> HIDE DEF a, b, c
  <2>4. ASSUME NEW S, a \in S, b \in S, c \in S PROVE <<a, b, c>> \in Seq(S) /\ <<c>> \in Seq(S)
    BY <2>4
  <2>5. <<a, b, c>> \in Seq(Keys \X Values) /\ <<c>> \in Seq(Keys \X Values)
    BY <2>1, <2>2, <2>4 DEF a, b, c
  <2> QED
    BY <2>3, <2>5
<1> QED
  BY <1>1, <1>2

LEMMA TailType ==
    ASSUME NEW S, NEW q \in Seq(S), q # <<>>
    PROVE  Tail(q) \in Seq(S) /\ Head(q) \in S
OBVIOUS

\* What a command says to a service is a value.
LEMMA MessageType ==
    ASSUME NEW r \in EditRecords, EditOK(r), NEW f \in r.outer \ {"apt"}
    PROVE  Message(r, f) \in Values /\ f \in Services
<1>1. f \in Services /\ SettingOf(f) \in Keys /\ r.object \in [Keys -> Values] /\ r.value \in Values
  BY ServiceFacts DEF EditRecords
<1>2. CASE r.verb \notin {"set", "unset"}
  BY <1>1, <1>2 DEF Message
<1>3. CASE r.verb \in {"set", "unset"} /\ f = "lxd" /\ r.value # "unset"
  <2>1. f \in Configures(r.verb, r.key, r.object)
    BY DEF EditOK
  <2>2. r.key = "lxd_guest_attach" /\ r.verb = "set"
    BY <1>3, <2>1 DEF EditOK, Configures, SettingOf, Services
  <2>3. r.value \in Modes
    BY <2>2 DEF EditOK
  <2> QED
    BY <1>1, <1>3, <2>3, ModesAssumption DEF Message, Values
<1>4. CASE r.verb \in {"set", "unset"} /\ ~(f = "lxd" /\ r.value # "unset")
  BY <1>1, <1>4 DEF Message
<1> QED
  BY <1>1, <1>2, <1>3, <1>4

LEMMA IdleType == Idle \in EditRecords /\ \A e \in Editors : edits[e] = Idle => ~Busy(e)
BY DEF Idle, EditRecords, Keys, Values, Busy, EditVerbs, Locking

LEMMA LeaveTypes == ASSUME SettingsTypeOK, NEW e \in Editors, Leave(e) PROVE SettingsTypeOK'
<1>1. edits[e].doubt \subseteq Facets /\ edits[e].spoilt \subseteq Facets
  BY DEF SettingsTypeOK, EditRecords
<1>2. doubt' \subseteq Facets /\ edits' \in [Editors -> EditRecords]
  BY <1>1, IdleType DEF Leave, SettingsTypeOK
<1> QED
  BY <1>2 DEF Leave, SettingsTypeOK

LEMMA TypeStep ==
    ASSUME SettingsTypeOK, Places, [SettingsNext]_settingsVars PROVE SettingsTypeOK'
<1> USE DEF SettingsTypeOK
<1>0. edits \in [Editors -> EditRecords]
  OBVIOUS
<1>1. CASE UNCHANGED settingsVars
  BY <1>1 DEF settingsVars
<1>2. ASSUME NEW e \in Editors, NEW verb \in EditVerbs, NEW k \in Keys,
             NEW v \in Values, StartEdit(e, verb, k, v)
      PROVE  SettingsTypeOK'
  <2> DEFINE overlap == \E q \in Editors : edits[q].at # "idle"
             new == [at |-> "loaded", object |-> Load, verb |-> verb, key |-> k, value |-> v,
                     outer |-> Configures(verb, k, Load), todo |-> Assignments(verb, k, v),
                     doubt |-> doubt, spoilt |-> IF overlap THEN Facets ELSE {}]
  <2>1. /\ Load \in [Keys -> Values]
        /\ Configures(verb, k, Load) \subseteq {"apt"} \cup Services
        /\ Assignments(verb, k, v) \in Seq(Keys \X Values)
    BY LoadType, ConfiguresType, AssignmentsType
  <2>2. new \in EditRecords
    BY <2>1 DEF EditRecords
  <2>3. \A r \in Editors : [edits[r] EXCEPT !.spoilt = Facets] \in EditRecords
    <3>1. ASSUME NEW r \in EditRecords PROVE [r EXCEPT !.spoilt = Facets] \in EditRecords
      BY DEF EditRecords
    <3> QED
      BY <1>0, <3>1
  <2>4. edits' = [r \in Editors |-> IF r = e THEN new ELSE IF edits[r].at = "idle" THEN edits[r]
                                    ELSE [edits[r] EXCEPT !.spoilt = Facets]]
    BY <1>2 DEF StartEdit
  <2> HIDE DEF new
  <2>5. edits' \in [Editors -> EditRecords]
    BY <2>2, <2>3, <2>4
  <2>6. mishaps' \in 0..MaxMishaps
    BY <1>2, MishapsAssumption DEF StartEdit
  <2> QED
    BY <1>2, <2>5, <2>6 DEF StartEdit
<1>4. ASSUME NEW e \in Editors, RefuseEdit(e) \/ RedactRaises(e) \/ EndEdit(e) PROVE SettingsTypeOK'
  BY <1>4, LeaveTypes DEF RefuseEdit, RedactRaises, EndEdit
<1>5. ASSUME NEW e \in Editors, ConfigureApt(e) PROVE SettingsTypeOK'
  <2>1. /\ edits[e] \in EditRecords /\ edits[e].object \in [Keys -> Values]
        /\ edits[e].value \in Values
    BY <1>0 DEF EditRecords
  <2>2. aptConf' \in AptConfs
    BY <1>5, <2>1, ConfTypes DEF ConfigureApt
  <2>3. edits' \in [Editors -> EditRecords]
    <3>1. ASSUME NEW d \in SUBSET Facets
          PROVE  [edits[e] EXCEPT !.outer = edits[e].outer \ {"apt"}, !.doubt = d] \in EditRecords
      BY <2>1 DEF EditRecords
    <3>2. "apt" \in Facets /\ edits[e].doubt \in SUBSET Facets
      BY <2>1 DEF Facets, EditRecords
    <3>3. \E d \in SUBSET Facets : edits' = [edits EXCEPT ![e] =
                [edits[e] EXCEPT !.outer = edits[e].outer \ {"apt"}, !.doubt = d]]
      BY <1>0, <1>5, <3>2 DEF ConfigureApt
    <3> QED
      BY <1>0, <3>1, <3>3
  <2> QED
    BY <1>5, <2>2, <2>3 DEF ConfigureApt, AptConfs
<1>6. ASSUME NEW e \in Editors, NEW f \in Services, Configure(e, f) PROVE SettingsTypeOK'
  <2>1. edits[e] \in EditRecords /\ EditOK(edits[e]) /\ f \in edits[e].outer
    BY <1>0, <1>6 DEF Configure, Places, Busy
  <2>2. told' \in [Services -> Values]
    <3>1. Message(edits[e], f) \in Values
      BY <2>1, MessageType, ServiceFacts
    <3> QED
      BY <1>6, <3>1 DEF Configure
  <2>3. edits' \in [Editors -> EditRecords]
    <3>1. ASSUME NEW d \in SUBSET Facets
          PROVE  [edits[e] EXCEPT !.outer = edits[e].outer \ {f}, !.doubt = d] \in EditRecords
      BY <2>1 DEF EditRecords
    <3>2. f \in Facets /\ edits[e].doubt \in SUBSET Facets
      BY <2>1 DEF Facets, EditRecords
    <3>3. \E d \in SUBSET Facets : edits' = [edits EXCEPT ![e] =
                [edits[e] EXCEPT !.outer = edits[e].outer \ {f}, !.doubt = d]]
      BY <1>0, <1>6, <3>2 DEF Configure
    <3> QED
      BY <1>0, <3>1, <3>3
  <2>4. there' \subseteq {"snap", "livepatch"}
    <3>1. edits[e].verb = "livepatch" => f \in {"snap", "livepatch"}
      BY <2>1, ConfiguresAre DEF EditOK
    <3> QED
      BY <1>6, <3>1 DEF Configure
  <2> QED
    BY <1>6, <2>2, <2>3, <2>4 DEF Configure
<1>7. ASSUME NEW e \in Editors, WritePrivate(e) PROVE SettingsTypeOK'
  <2>1. edits[e] \in EditRecords
    BY <1>0
  <2>2. edits[e].object \in [Keys -> Values] /\ edits[e].todo \in Seq(Keys \X Values)
        /\ edits[e].doubt \in SUBSET Facets
    BY <2>1 DEF EditRecords
  <2>3. Tail(edits[e].todo) \in Seq(Keys \X Values) /\ Head(edits[e].todo) \in Keys \X Values
    BY <1>7, <2>2, TailType DEF WritePrivate
  <2>4. Head(edits[e].todo)[1] \in Keys /\ Head(edits[e].todo)[2] \in Values
    BY <2>3
  <2>5. /\ stored' = Assign(edits[e].object, Head(edits[e].todo)[1], Head(edits[e].todo)[2])
        /\ stored' \in [Keys -> Values]
    <3>1. stored' = Assign(edits[e].object, Head(edits[e].todo)[1], Head(edits[e].todo)[2])
      BY <1>7 DEF WritePrivate
    <3> DEFINE j == Head(edits[e].todo)[1]
               u == Head(edits[e].todo)[2]
    <3>2. j \in Keys /\ u \in Values
      BY <2>4
    <3> HIDE DEF j, u
    <3>3. Assign(edits[e].object, j, u) \in [Keys -> Values]
      BY <2>2, <3>2, AssignIs
    <3> QED
      BY <3>1, <3>3 DEF j, u
  <2>6. \E d \in SUBSET Facets : edits' = [edits EXCEPT ![e] =
          [edits[e] EXCEPT !.object = stored', !.todo = Tail(edits[e].todo), !.at = "publish",
                           !.doubt = d]]
    <3>1. {"public", "lxd"} \subseteq Facets
      BY DEF Facets, Services
    <3> QED
      BY <1>0, <1>7, <2>2, <2>5, <3>1 DEF WritePrivate
  <2>7. ASSUME NEW d \in SUBSET Facets
        PROVE  [edits[e] EXCEPT !.object = stored', !.todo = Tail(edits[e].todo), !.at = "publish",
                                !.doubt = d] \in EditRecords
    BY <2>1, <2>3, <2>5 DEF EditRecords
  <2>8. edits' \in [Editors -> EditRecords]
    BY <1>0, <2>6, <2>7
  <2> QED
    BY <1>7, <2>5, <2>8 DEF WritePrivate
<1>8. ASSUME NEW e \in Editors, WritePublic(e) PROVE SettingsTypeOK'
  <2>1. edits[e] \in EditRecords /\ edits[e].object \in [Keys -> Values]
    BY <1>0 DEF EditRecords
  <2>2. edits' \in [Editors -> EditRecords]
    <3>1. [edits[e] EXCEPT !.at = "write", !.doubt = edits[e].doubt \ {"public"}] \in EditRecords
      BY <2>1 DEF EditRecords
    <3>2. edits' = [edits EXCEPT ![e] =
              [edits[e] EXCEPT !.at = "write", !.doubt = edits[e].doubt \ {"public"}]]
      BY <1>0, <1>8 DEF WritePublic
    <3> QED
      BY <1>0, <3>1, <3>2
  <2> QED
    BY <1>8, <2>1, <2>2, RedactType DEF WritePublic
<1>9. ASSUME NEW e \in Editors, KillEdit(e) PROVE SettingsTypeOK'
  BY <1>9, IdleType, MishapsAssumption DEF KillEdit
<1>10. CASE Subscribe
  BY <1>10 DEF Subscribe
<1>11. CASE Unsubscribe
  <2>1. \A e \in Editors : [edits[e] EXCEPT !.spoilt = @ \cup {"lxd"}] \in EditRecords
    <3>1. ASSUME NEW r \in EditRecords
          PROVE  [r EXCEPT !.spoilt = @ \cup {"lxd"}] \in EditRecords
      BY DEF EditRecords, Facets, Services
    <3> QED
      BY <1>0, <3>1
  <2>2. edits' \in [Editors -> EditRecords]
    BY <1>0, <1>11, <2>1 DEF Unsubscribe
  <2>3. doubt' \subseteq Facets /\ told' \in [Services -> Values]
    BY <1>11 DEF Unsubscribe, Facets, Services, Values
  <2> QED
    BY <1>11, <2>2, <2>3 DEF Unsubscribe
<1>12. CASE DisableLivepatch
  BY <1>12 DEF DisableLivepatch
<1> QED
  BY <1>1, <1>2, <1>4, <1>5, <1>6, <1>7, <1>8, <1>9, <1>10, <1>11, <1>12 DEF SettingsNext


-----------------------------------------------------------------------------

SettingsFacts == UNCHANGED <<stored, public, aptConf, told, legacy>>

LEMMA FactsFrame ==
    ASSUME SettingsFacts
    PROVE  /\ \A f : FacetOK(f)' <=> FacetOK(f)
           /\ \A r, f : Said(r, f)' <=> Said(r, f)
           /\ Load' = Load
           /\ \A r : EditOK(r)' <=> EditOK(r)
           /\ \A r : CleanOK(r)' <=> CleanOK(r)
<1>1. UNCHANGED <<stored, public, aptConf, told, legacy>>
  BY DEF SettingsFacts
<1>2. \A f : FacetOK(f)' <=> FacetOK(f)
  BY <1>1 DEF FacetOK
<1>3. Load' = Load
  BY <1>1 DEF Load
<1>4. \A r : EditOK(r)' <=> EditOK(r)
  BY <1>1 DEF EditOK
<1>5. \A r, f : Said(r, f)' <=> Said(r, f)
  BY <1>1 DEF Said
<1>6. \A r : CleanOK(r)' <=> CleanOK(r)
  BY <1>1, <1>2, <1>3, <1>5 DEF CleanOK
<1> QED
  BY <1>2, <1>3, <1>4, <1>5, <1>6

\* What apt is told depends on its own keys only.
LEMMA SameProxies ==
    ASSUME NEW o \in [Keys -> Values], NEW q \in [Keys -> Values], \A k \in AptKeys : o[k] = q[k]
    PROVE  InForce(o) = InForce(q) /\ (BothScopes(o) <=> BothScopes(q))
<1>1. \A p \in Protocols : /\ GlobalKey[p] \in AptKeys /\ ProKey[p] \in AptKeys
                           /\ OldKey[p] \in AptKeys
  BY DEF AptKeys, KeysIn
<1>2. \A p \in Protocols : Global(o, p) = Global(q, p) /\ o[ProKey[p]] = q[ProKey[p]]
  BY <1>1 DEF Global
<1>3. (HasGlobal(o) <=> HasGlobal(q)) /\ (HasPro(o) <=> HasPro(q))
  BY <1>2 DEF HasGlobal, HasPro
<1>4. /\ [p \in Protocols |-> Global(o, p)] = [p \in Protocols |-> Global(q, p)]
      /\ [p \in Protocols |-> o[ProKey[p]]] = [p \in Protocols |-> q[ProKey[p]]]
  BY <1>2
<1> QED
  BY <1>3, <1>4 DEF InForce, BothScopes

\* What can be read can be read again as it is.
LEMMA Rereads ==
    /\ ~Misspelt("unset")
    /\ \A k, v : Readable(k, Readable(k, v)) = Readable(k, v)
    /\ \A k, v : k # "lxd_guest_attach" \/ ~Misspelt(v) => Readable(k, v) = v
<1>1. ~Misspelt("unset")
  BY GivenAssumption DEF Misspelt
<1> QED
  BY <1>1 DEF Readable

LEMMA LoadIs ==
    ASSUME SettingsTypeOK, Places
    PROVE  /\ legacy = {} => /\ InForce(Load) = InForce(stored)
                             /\ BothScopes(Load) <=> BothScopes(stored)
           /\ \A k \in OuterKeys : Load[k] = Readable(k, stored[k])
           /\ ~Misspelt(Load["lxd_guest_attach"])
<1>1. \A k \in Keys : Load[k] = IF k \in legacy THEN CHOOSE v \in Given : TRUE
                                ELSE Readable(k, stored[k])
  BY DEF Load
<1>2. \A k \in OuterKeys : k \in Keys /\ k \notin legacy
  BY DEF Places, OuterKeys, GlobalKey, Keys
<1>3. ASSUME legacy = {}
      PROVE  InForce(Load) = InForce(stored) /\ (BothScopes(Load) <=> BothScopes(stored))
  <2>1. \A k \in AptKeys : k \in Keys /\ k # "lxd_guest_attach"
    BY KeyFacts DEF AptKeys, Keys
  <2>2. \A k \in AptKeys : Load[k] = stored[k]
    BY <1>1, <1>3, <2>1, Rereads
  <2>3. Load \in [Keys -> Values] /\ stored \in [Keys -> Values]
    BY LoadType DEF SettingsTypeOK
  <2> QED
    BY <2>2, <2>3, SameProxies
<1>4. ~Misspelt(Load["lxd_guest_attach"])
  <2>1. Load["lxd_guest_attach"] = Readable("lxd_guest_attach", stored["lxd_guest_attach"])
    BY <1>1, <1>2 DEF OuterKeys
  <2> QED
    BY <2>1, Rereads DEF Readable
<1> QED
  BY <1>1, <1>2, <1>3, <1>4

\* A command on one setting configures the same whatever the others are.
LEMMA OwnIs ==
    ASSUME NEW r
    PROVE  /\ r.verb \in Locking => Own(r) = {}
           /\ r.verb \notin Locking => Own(r) = Configures(r.verb, r.key, r.object)
           /\ r.verb \notin Locking /\ r.key \in AptKeys => Own(r) = {"apt"}
           /\ r.verb \notin Locking /\ r.key \notin AptKeys =>
                Own(r) = {f \in Services : SettingOf(f) = r.key}
           /\ "public" \notin Own(r)
<1>1. r.verb \in Locking => Own(r) = {}
  BY DEF Own
<1>2. r.verb \notin Locking => Own(r) = Configures(r.verb, r.key, r.object)
  BY DEF Own
<1>3. r.verb \notin Locking /\ r.key \in AptKeys => Own(r) = {"apt"}
  BY DEF Own, Configures, Locking
<1>4. r.verb \notin Locking /\ r.key \notin AptKeys =>
                Own(r) = {f \in Services : SettingOf(f) = r.key}
  BY DEF Own, Configures, Locking
<1>5. "public" \notin Own(r)
  BY <1>1, <1>3, <1>4 DEF Services
<1> QED
  BY <1>1, <1>2, <1>3, <1>4, <1>5

\* A command as it starts.
LEMMA Started ==
    ASSUME SettingsTypeOK, Places, NEW e \in Editors, NEW verb \in EditVerbs, NEW k \in Keys,
           NEW v \in Values, StartEdit(e, verb, k, v)
    PROVE  LET r == edits'[e] IN
           /\ EditOK(r)
           /\ (\A f \in Facets \ doubt : FacetOK(f)) => CleanOK(r)
<1> DEFINE o == Load
           c == IF \E q \in Editors : edits[q].at # "idle" THEN Facets ELSE {}
           r == [at |-> "loaded", object |-> o, verb |-> verb, key |-> k, value |-> v,
                 outer |-> Configures(verb, k, o), todo |-> Assignments(verb, k, v),
                 doubt |-> doubt, spoilt |-> c]
<1>1. edits'[e] = r
  BY DEF StartEdit, SettingsTypeOK
<1>2. /\ r.at = "loaded" /\ r.object = o /\ r.verb = verb /\ r.key = k /\ r.value = v
      /\ r.outer = Configures(verb, k, o) /\ r.todo = Assignments(verb, k, v)
      /\ r.doubt = doubt
  OBVIOUS
<1>3. /\ k \notin KeysIn(OldKey)
      /\ verb = "set" => IF k = "lxd_guest_attach" THEN v \in Modes ELSE v \in Given
      /\ verb # "set" => v = "unset"
  BY DEF StartEdit
<1>4. verb = "set" <=> v # "unset"
  BY <1>3, GivenAssumption
<1> HIDE DEF r, c
<1>5. TodoOK(r)
  <2>1. CASE verb \in Locking
    <3>1. verb # "set" /\ verb # "unset"
      BY <2>1 DEF Locking
    <3> QED
      BY <1>2, <2>1, <3>1 DEF TodoOK, Assignments, Scoped
  <2>2. CASE verb \notin Locking /\ Scoped(r)
    <3>1. r.todo = Long(r)
      BY <1>2, <2>2, AssignmentsAre DEF Scoped, Long, Last
    <3>2. Long(r) # <<>>
      BY DEF Long
    <3> QED
      BY <1>2, <2>2, <3>1, <3>2 DEF TodoOK
  <2>3. CASE verb \notin Locking /\ ~Scoped(r)
    <3>0. verb \in {"set", "unset"}
      BY <2>3 DEF EditVerbs, Locking
    <3>1. r.todo = <<Last(r)>>
      BY <1>2, <2>3, <3>0, AssignmentsAre DEF Scoped, Last
    <3> QED
      BY <1>2, <2>3, <3>1 DEF TodoOK
  <2> QED
    BY <2>1, <2>2, <2>3
<1>6. legacy = {} => ~BothScopes(o)
  BY LoadIs DEF Places
<1>7. ~Misspelt(o["lxd_guest_attach"])
  BY LoadIs
<1> HIDE DEF o
<1>8. EditOK(r)
  BY <1>2, <1>3, <1>4, <1>5, <1>6, <1>7 DEF EditOK
<1>9. ASSUME \A f \in Facets \ doubt : FacetOK(f)
      PROVE  CleanOK(r)
  <2>1. Own(r) \ r.outer = {}
    BY <1>2, OwnIs
  <2> QED
    BY <1>2, <1>9, <2>1 DEF CleanOK, o
<1> QED
  BY <1>1, <1>8, <1>9

\* A command with one thing less to configure.
LEMMA OneLess ==
    ASSUME NEW r, NEW s, NEW f, EditOK(r), r.at = "loaded", s.at = "loaded",
           s.object = r.object, s.verb = r.verb, s.key = r.key, s.value = r.value,
           s.todo = r.todo, s.outer = r.outer \ {f}
    PROVE  EditOK(s) /\ Own(s) = Own(r) /\ \A g : Said(s, g) <=> Said(r, g)
<1>1. TodoOK(s)
  BY DEF EditOK, TodoOK, Scoped, Long, Middle, Last, Cleared
<1>2. EditOK(s)
  BY <1>1 DEF EditOK
<1>3. Own(s) = Own(r)
  BY DEF Own
<1>4. \A g : Said(s, g) <=> Said(r, g)
  BY DEF Said, Strays, Message
<1> QED
  BY <1>2, <1>3, <1>4

\* A command that has told apt.
LEMMA ConfiguredApt ==
    ASSUME SettingsTypeOK, Places, NEW e \in Editors, Busy(e), ConfigureApt(e)
    PROVE  /\ EditOK(edits'[e]) /\ edits'[e].spoilt = edits[e].spoilt /\ Busy(e)'
           /\ CleanOK(edits[e]) => CleanOK(edits[e])'
<1>0. PICK r, s : r = edits[e] /\ s = edits'[e]
  OBVIOUS
<1>1. /\ r \in EditRecords /\ EditOK(r) /\ r.at = "loaded" /\ "apt" \in r.outer
      /\ "apt" \in Facets /\ r.doubt \in SUBSET Facets
  <2>1. r \in EditRecords /\ EditOK(r) /\ r.at = "loaded" /\ "apt" \in r.outer
    BY <1>0 DEF SettingsTypeOK, Places, ConfigureApt
  <2> QED
    BY <2>1 DEF EditRecords, Facets
<1>2. PICK d \in SUBSET Facets :
        d = IF Strays(r) THEN r.doubt \cup {"apt"} ELSE r.doubt \ {"apt"}
  BY <1>1
<1>3. s = [r EXCEPT !.outer = @ \ {"apt"}, !.doubt = d]
  BY <1>0, <1>2 DEF ConfigureApt, SettingsTypeOK
<1>4. /\ EditOK(s)
      /\ s.at = "loaded" /\ s.object = r.object /\ s.verb = r.verb /\ s.key = r.key
      /\ s.value = r.value /\ s.todo = r.todo /\ s.spoilt = r.spoilt /\ s.doubt = d
      /\ s.outer = r.outer \ {"apt"}
      /\ Own(s) = Own(r) /\ \A g : Said(s, g) <=> Said(r, g)
  <2>1. /\ s.at = "loaded" /\ s.object = r.object /\ s.verb = r.verb /\ s.key = r.key
        /\ s.value = r.value /\ s.todo = r.todo /\ s.spoilt = r.spoilt /\ s.doubt = d
        /\ s.outer = r.outer \ {"apt"}
    BY <1>1, <1>3 DEF EditRecords
  <2> QED
    BY <1>1, <2>1, OneLess
<1>5. ASSUME CleanOK(r) PROVE CleanOK(edits[e])'
  <2>1. UNCHANGED <<stored, public, told, legacy>>
    BY DEF ConfigureApt
  <2>2. aptConf' = IF r.verb \in Locking THEN InForce(r.object)
                   ELSE ConfiguredProxy(r.object, r.key, r.value)
    BY <1>0 DEF ConfigureApt
  <2>3. r.object = Load /\ Load' = Load
    BY <1>1, <1>5, <2>1 DEF CleanOK, Load
  <2>4. ASSUME NEW g \in Facets \ (s.doubt \cup s.spoilt)
        PROVE  IF g \in Own(s) \ s.outer THEN Said(s, g)' ELSE FacetOK(g)'
    <3>1. CASE g = "apt"
      <4>1. ~Strays(r)
        BY <1>2, <1>4, <2>4, <3>1
      <4>2. CASE r.verb \in Locking
        <5>1. legacy = {} => aptConf' = InForce(stored')
          BY <2>1, <2>2, <2>3, <4>2, LoadIs
        <5>2. FacetOK(g)'
          BY <2>1, <3>1, <5>1, ServiceFacts DEF FacetOK
        <5> QED
          BY <1>4, <4>2, <5>2, OwnIs
      <4>3. CASE r.verb \notin Locking
        <5>1. g \in Own(s) \ s.outer
          BY <1>1, <1>4, <3>1, <4>3, OwnIs DEF EditOK
        <5>2. Said(s, g)'
          BY <1>4, <2>2, <3>1, <4>1, <4>3 DEF Said, Strays
        <5> QED
          BY <5>1, <5>2
      <4> QED
        BY <4>2, <4>3
    <3>2. CASE g # "apt"
      <4>1. g \in Facets \ (r.doubt \cup r.spoilt)
            /\ (g \in Own(s) \ s.outer <=> g \in Own(r) \ r.outer)
        BY <1>2, <1>4, <2>4, <3>2
      <4>2. IF g \in Own(r) \ r.outer THEN Said(r, g) ELSE FacetOK(g)
        BY <1>5, <4>1 DEF CleanOK
      <4>3. (FacetOK(g) => FacetOK(g)') /\ (Said(s, g) => Said(s, g)')
        BY <2>1, <3>2 DEF FacetOK, Said
      <4> QED
        BY <1>4, <4>1, <4>2, <4>3
    <3> QED
      BY <3>1, <3>2
  <2> QED
    BY <1>0, <1>4, <2>1, <2>3, <2>4 DEF CleanOK
<1>6. Busy(e)'
  BY <1>0, <1>4 DEF Busy
<1> QED
  BY <1>0, <1>4, <1>5, <1>6

\* A command that has told snapd, livepatch or lxd.
LEMMA Configured ==
    ASSUME SettingsTypeOK, Places, NEW e \in Editors, NEW f \in Services, Busy(e), Configure(e, f)
    PROVE  /\ EditOK(edits'[e]) /\ edits'[e].spoilt = edits[e].spoilt /\ Busy(e)'
           /\ CleanOK(edits[e]) => CleanOK(edits[e])'
<1>0. PICK r, s : r = edits[e] /\ s = edits'[e]
  OBVIOUS
<1>1. /\ r \in EditRecords /\ EditOK(r) /\ r.at = "loaded" /\ f \in r.outer
      /\ f \in Facets /\ r.doubt \in SUBSET Facets /\ r.verb \in EditVerbs
  <2>1. r \in EditRecords /\ EditOK(r) /\ r.at = "loaded" /\ f \in r.outer
    BY <1>0 DEF SettingsTypeOK, Places, Configure
  <2> QED
    BY <2>1 DEF EditRecords, Facets
<1>2. PICK d \in SUBSET Facets :
        d = IF Tells(r, f) THEN r.doubt \ {f}
            ELSE IF r.verb \in Locking THEN r.doubt ELSE r.doubt \cup {f}
  BY <1>1
<1>3. s = [r EXCEPT !.outer = @ \ {f}, !.doubt = d]
  BY <1>0, <1>2 DEF Configure, SettingsTypeOK
<1>4. /\ EditOK(s)
      /\ s.at = "loaded" /\ s.object = r.object /\ s.verb = r.verb /\ s.key = r.key
      /\ s.value = r.value /\ s.todo = r.todo /\ s.spoilt = r.spoilt /\ s.doubt = d
      /\ s.outer = r.outer \ {f}
      /\ Own(s) = Own(r) /\ \A g : Said(s, g) <=> Said(r, g)
  <2>1. /\ s.at = "loaded" /\ s.object = r.object /\ s.verb = r.verb /\ s.key = r.key
        /\ s.value = r.value /\ s.todo = r.todo /\ s.spoilt = r.spoilt /\ s.doubt = d
        /\ s.outer = r.outer \ {f}
    BY <1>1, <1>3 DEF EditRecords
  <2> QED
    BY <1>1, <2>1, OneLess
<1>5. ASSUME CleanOK(r) PROVE CleanOK(edits[e])'
  <2>1. UNCHANGED <<stored, public, aptConf, legacy>>
    BY DEF Configure
  <2>2. /\ told' = IF Tells(r, f) THEN [told EXCEPT ![f] = Message(r, f)] ELSE told
        /\ told \in [Services -> Values]
    BY <1>0 DEF Configure, SettingsTypeOK
  <2>3. r.object = Load /\ Load' = Load
    BY <1>1, <1>5, <2>1 DEF CleanOK, Load
  <2>4. f # "apt" /\ f # "public" /\ SettingOf(f) \in OuterKeys
    BY ServiceFacts
  <2>5. ASSUME NEW g \in Facets \ (s.doubt \cup s.spoilt)
        PROVE  IF g \in Own(s) \ s.outer THEN Said(s, g)' ELSE FacetOK(g)'
    <3>1. CASE g = f /\ Tells(r, f) /\ r.verb \in Locking
      <4>1. r.verb \notin {"set", "unset"}
        BY <3>1 DEF Locking
      <4>2. told'[f] = r.object[SettingOf(f)]
        BY <2>2, <3>1, <4>1 DEF Message
      <4>3. told'[f] = Readable(SettingOf(f), stored'[SettingOf(f)])
        BY <2>1, <2>3, <2>4, <4>2, LoadIs
      <4>4. FacetOK(g)'
        BY <2>4, <3>1, <4>3 DEF FacetOK
      <4> QED
        BY <1>4, <3>1, <4>4, OwnIs
    <3>2. CASE g = f /\ Tells(r, f) /\ r.verb \notin Locking
      <4>1. g \in Own(s) \ s.outer
        BY <1>1, <1>4, <3>2, OwnIs DEF EditOK
      <4>2. told'[f] = Message(s, f)
        BY <1>4, <2>2, <3>2 DEF Message
      <4>3. Said(s, g)'
        BY <2>4, <3>2, <4>2 DEF Said
      <4> QED
        BY <4>1, <4>3
    <3>3. CASE g = f /\ ~Tells(r, f)
      <4>1. r.verb \in Locking /\ g \notin r.doubt \cup r.spoilt /\ told' = told
        BY <1>2, <1>4, <2>2, <2>5, <3>3
      <4>2. Own(r) = {}
        BY <4>1, OwnIs
      <4>3. FacetOK(g)
        BY <1>5, <2>5, <4>1, <4>2 DEF CleanOK
      <4>4. FacetOK(g)'
        BY <2>1, <4>1, <4>3 DEF FacetOK
      <4> QED
        BY <1>4, <4>2, <4>4
    <3>4. CASE g # f
      <4>1. g \in Facets \ (r.doubt \cup r.spoilt)
            /\ (g \in Own(s) \ s.outer <=> g \in Own(r) \ r.outer)
        BY <1>2, <1>4, <2>5, <3>4
      <4>2. IF g \in Own(r) \ r.outer THEN Said(r, g) ELSE FacetOK(g)
        BY <1>5, <4>1 DEF CleanOK
      <4>3. g \in Services => told'[g] = told[g]
        BY <2>2, <3>4
      <4>4. g \in Own(s) => g = "apt" \/ g \in Services
        BY <2>5, ServiceFacts, OwnIs
      <4>5. (FacetOK(g) => FacetOK(g)') /\ (g \in Own(s) /\ Said(s, g) => Said(s, g)')
        BY <2>1, <4>3, <4>4 DEF FacetOK, Said
      <4> QED
        BY <1>4, <4>1, <4>2, <4>5
    <3> QED
      BY <3>1, <3>2, <3>3, <3>4
  <2> QED
    BY <1>0, <1>4, <2>1, <2>3, <2>5 DEF CleanOK
<1>6. Busy(e)'
  BY <1>0, <1>4 DEF Busy
<1> QED
  BY <1>0, <1>4, <1>5, <1>6

\* The next assignment of a command is its own or clears the other scope.
LEMMA NextAssignment ==
    ASSUME NEW r \in EditRecords, EditOK(r), r.todo # <<>>
    PROVE  LET j == Head(r.todo)[1]
               u == Head(r.todo)[2] IN
           /\ r.verb \notin Locking /\ j \in Keys \ KeysIn(OldKey) /\ u \in Values
           /\ \/ r.todo = <<Last(r)>> /\ j = r.key /\ u = r.value
              \/ /\ r.todo = Middle(r) /\ Scoped(r) /\ u = "unset"
                 /\ j = Other(r.key).https
              \/ /\ r.todo = Long(r) /\ Scoped(r) /\ u = "unset"
                 /\ j = Other(r.key).http
<1>1. r.verb \notin Locking
  BY DEF EditOK, TodoOK
<1>2. r.key \in Keys \ KeysIn(OldKey) /\ r.value \in Values /\ "unset" \in Values
  BY DEF EditRecords, EditOK, Values
<1>3. CASE r.todo = <<Last(r)>>
  BY <1>1, <1>2, <1>3, Tail1 DEF Last
<1>4. \A p \in Protocols : Other(r.key)[p] \in Keys \ KeysIn(OldKey)
  BY ScopeKeys DEF Other
<1>5. Other(r.key).http \in Keys \ KeysIn(OldKey) /\ Other(r.key).https \in Keys \ KeysIn(OldKey)
  BY <1>4 DEF Protocols
<1>6. CASE Scoped(r) /\ r.todo = Middle(r)
  <2>1. Head(r.todo) = <<Other(r.key).https, "unset">>
    BY <1>6, Tail2 DEF Middle
  <2> QED
    BY <1>1, <1>2, <1>5, <1>6, <2>1
<1>7. CASE Scoped(r) /\ r.todo = Long(r)
  <2>1. Head(r.todo) = <<Other(r.key).http, "unset">>
    BY <1>7, Tail3 DEF Long
  <2> QED
    BY <1>1, <1>2, <1>5, <1>7, <2>1
<1> QED
  BY <1>3, <1>6, <1>7 DEF EditOK, TodoOK

\* Keys of the other scope.
LEMMA OtherKeys ==
    ASSUME NEW k \in KeysIn(ProKey) \cup KeysIn(GlobalKey)
    PROVE  /\ k \in KeysIn(ProKey) => Other(k) = GlobalKey /\ k \notin KeysIn(GlobalKey)
           /\ k \in KeysIn(GlobalKey) => Other(k) = ProKey /\ k \notin KeysIn(ProKey)
           /\ GlobalKey.http = GlobalKey["http"] /\ GlobalKey.https = GlobalKey["https"]
           /\ ProKey.http = ProKey["http"] /\ ProKey.https = ProKey["https"]
           /\ "http" \in Protocols /\ "https" \in Protocols
           /\ \A p \in Protocols : p = "http" \/ p = "https"
BY KeyFacts DEF Other, Protocols

\* The settings never ask for both scopes, while a command clears the one and sets the other.
LEMMA ScopeStep ==
    ASSUME NEW r \in EditRecords, EditOK(r), r.todo # <<>>, ~BothScopes(r.object)
    PROVE  ~BothScopes(Assign(r.object, Head(r.todo)[1], Head(r.todo)[2]))
<1> DEFINE o == r.object
           j == Head(r.todo)[1]
           u == Head(r.todo)[2]
<1>1. o \in [Keys -> Values] /\ j \in Keys \ KeysIn(OldKey) /\ u \in Values
  BY NextAssignment DEF EditRecords
<1>2. \A p \in Protocols :
        /\ Global(Assign(o, j, u), p) = IF j = GlobalKey[p] THEN u ELSE Global(o, p)
        /\ Assign(o, j, u)[ProKey[p]] = IF j = ProKey[p] THEN u ELSE o[ProKey[p]]
  BY <1>1, GlobalOfAssign, ProOfAssign
<1>3. ~(HasGlobal(o) /\ HasPro(o))
  BY DEF BothScopes
<1>4. CASE u = "unset"
  <2>1. HasGlobal(Assign(o, j, u)) => HasGlobal(o)
    BY <1>2, <1>4 DEF HasGlobal
  <2>2. HasPro(Assign(o, j, u)) => HasPro(o)
    BY <1>2, <1>4 DEF HasPro
  <2> QED
    BY <1>3, <2>1, <2>2 DEF BothScopes
<1>5. CASE u # "unset"
  <2>1. r.todo = <<Last(r)>> /\ j = r.key /\ u = r.value /\ r.verb = "set"
    BY <1>5, NextAssignment DEF EditOK
  <2>2. r.todo # Long(r) /\ r.todo # Middle(r)
    BY <2>1 DEF Long, Middle
  <2>3. CASE j \in KeysIn(ProKey)
    <3>1. Cleared(r, "http") /\ Cleared(r, "https")
      BY <2>1, <2>2, <2>3 DEF EditOK, TodoOK, Scoped
    <3>2. \A p \in Protocols : Global(o, p) = "unset" /\ j # GlobalKey[p]
      BY <2>1, <2>3, <3>1, ScopeKeys DEF Cleared, Protocols
    <3> QED
      BY <1>2, <3>2 DEF BothScopes, HasGlobal
  <2>4. CASE j \in KeysIn(GlobalKey)
    <3>1. Cleared(r, "http") /\ Cleared(r, "https") /\ j \notin KeysIn(ProKey)
      BY <2>1, <2>2, <2>4, OtherKeys DEF EditOK, TodoOK, Scoped
    <3>2. \A p \in Protocols : o[ProKey[p]] = "unset" /\ j # ProKey[p]
      BY <2>1, <2>4, <3>1, ScopeKeys DEF Cleared, Protocols
    <3> QED
      BY <1>2, <3>2 DEF BothScopes, HasPro
  <2>5. CASE j \notin KeysIn(ProKey) \cup KeysIn(GlobalKey)
    <3>1. j \in Keys \ AptKeys
      BY <1>1, <2>5 DEF AptKeys
    <3> QED
      BY <1>1, <1>3, <3>1, InForceStable DEF BothScopes
  <2> QED
    BY <2>3, <2>4, <2>5
<1> QED
  BY <1>4, <1>5

\* A command that has saved one more assignment.
LEMMA Written ==
    ASSUME SettingsTypeOK, Places, NEW e \in Editors, Busy(e), WritePrivate(e)
    PROVE  /\ EditOK(edits'[e])
           /\ legacy = {} => ~BothScopes(stored')
           /\ edits'[e].spoilt = edits[e].spoilt /\ Busy(e)'
           /\ CleanOK(edits[e]) => CleanOK(edits[e])'
<1>0. PICK r, s : r = edits[e] /\ s = edits'[e]
  OBVIOUS
<1> DEFINE j == Head(r.todo)[1]
           u == Head(r.todo)[2]
           o == Assign(r.object, j, u)
           d == r.doubt \cup IF Misspelt(o["lxd_guest_attach"])
                             THEN {"public", "lxd"} ELSE {"public"}
<1>1. r \in EditRecords /\ EditOK(r) /\ r.todo # <<>> /\ r.outer = {}
      /\ r.at \in {"loaded", "write"}
  BY <1>0 DEF SettingsTypeOK, Places, WritePrivate
<1>2. s = [r EXCEPT !.object = o, !.todo = Tail(r.todo), !.at = "publish", !.doubt = d]
      /\ stored' = o
  BY <1>0 DEF WritePrivate, SettingsTypeOK
<1>3. /\ s.at = "publish" /\ s.object = o /\ s.verb = r.verb /\ s.key = r.key
      /\ s.value = r.value /\ s.todo = Tail(r.todo) /\ s.spoilt = r.spoilt
      /\ s.doubt = d /\ s.outer = {}
  BY <1>1, <1>2 DEF EditRecords
<1>4. /\ r.object \in [Keys -> Values] /\ j \in Keys \ KeysIn(OldKey) /\ u \in Values
      /\ r.key \in Keys /\ r.value \in Values
  BY <1>1, NextAssignment DEF EditRecords
<1>5. /\ r.verb \notin Locking
      /\ \/ r.todo = <<Last(r)>> /\ j = r.key /\ u = r.value
         \/ r.todo = Middle(r) /\ Scoped(r) /\ u = "unset" /\ j = Other(r.key).https
         \/ r.todo = Long(r) /\ Scoped(r) /\ u = "unset" /\ j = Other(r.key).http
  BY <1>1, NextAssignment
<1>6. Long(s) = Long(r) /\ Middle(s) = Middle(r) /\ Last(s) = Last(r) /\ (Scoped(s) <=> Scoped(r))
  BY <1>3 DEF Long, Middle, Last, Scoped
<1>7. \A p \in Protocols :
        /\ Global(o, p) = IF j = GlobalKey[p] THEN u ELSE Global(r.object, p)
        /\ o[ProKey[p]] = IF j = ProKey[p] THEN u ELSE r.object[ProKey[p]]
  BY <1>4, GlobalOfAssign, ProOfAssign
<1> HIDE DEF j, u, o, d
<1>8. TodoOK(s)
  <2>1. ASSUME NEW p \in Protocols, Scoped(r), Cleared(r, p) PROVE Cleared(s, p)
    <3>1. CASE r.key \in KeysIn(ProKey)
      <4>1. j = GlobalKey[p] => u = "unset"
        BY <1>5, <3>1, ScopeKeys
      <4> QED
        BY <1>3, <1>7, <2>1, <3>1, <4>1 DEF Cleared
    <3>2. CASE r.key \notin KeysIn(ProKey)
      <4>1. j = ProKey[p] => u = "unset"
        BY <1>5, <3>2, ScopeKeys
      <4> QED
        BY <1>3, <1>7, <2>1, <3>2, <4>1 DEF Cleared
    <3> QED
      BY <3>1, <3>2
  <2>2. ASSUME NEW p \in Protocols, Scoped(r), j = Other(r.key)[p], u = "unset" PROVE Cleared(s, p)
    <3>1. CASE r.key \in KeysIn(ProKey)
      <4>1. j = GlobalKey[p]
        BY <2>2, <3>1 DEF Other
      <4> QED
        BY <1>3, <1>7, <2>2, <3>1, <4>1 DEF Cleared
    <3>2. CASE r.key \notin KeysIn(ProKey)
      <4>1. j = ProKey[p]
        BY <2>2, <3>2 DEF Other
      <4> QED
        BY <1>3, <1>7, <2>2, <3>2, <4>1 DEF Cleared
    <3> QED
      BY <3>1, <3>2
  <2>3. "http" \in Protocols /\ "https" \in Protocols
    BY DEF Protocols
  <2>4. Long(r) # Middle(r) /\ Long(r) # <<Last(r)>> /\ Middle(r) # <<Last(r)>>
        /\ Long(r) # <<>> /\ Middle(r) # <<>> /\ <<Last(r)>> # <<>>
    BY DEF Long, Middle
  <2>5. CASE r.todo = Long(r) /\ Scoped(r) /\ u = "unset" /\ j = Other(r.key).http
    <3>1. s.todo = Middle(r)
      BY <1>3, <2>5, Tail3 DEF Long, Middle
    <3>2. Cleared(s, "http")
      BY <2>2, <2>3, <2>5
    <3> QED
      BY <1>3, <1>5, <1>6, <2>4, <2>5, <3>1, <3>2 DEF TodoOK
  <2>6. CASE r.todo = Middle(r) /\ Scoped(r) /\ u = "unset" /\ j = Other(r.key).https
    <3>1. s.todo = <<Last(r)>>
      BY <1>3, <2>6, Tail2 DEF Middle
    <3>2. Cleared(s, "http") /\ Cleared(s, "https")
      BY <1>1, <2>1, <2>2, <2>3, <2>4, <2>6 DEF EditOK, TodoOK
    <3> QED
      BY <1>3, <1>5, <1>6, <2>4, <2>6, <3>1, <3>2 DEF TodoOK
  <2>7. CASE r.todo = <<Last(r)>> /\ j = r.key /\ u = r.value
    <3>1. s.todo = <<>>
      BY <1>3, <2>7, Tail1
    <3>2. Scoped(r) => Cleared(s, "http") /\ Cleared(s, "https")
      BY <1>1, <2>1, <2>3, <2>4, <2>7 DEF EditOK, TodoOK
    <3>3. o[r.key] = r.value
      BY <1>4, <2>7, AssignIs DEF o
    <3>4. r.key \in KeysIn(GlobalKey) => o[OldKey[Protocol(r.key)]] = "unset"
      <4>1. OldKey[Protocol(r.key)] \in Keys \ {j}
        BY <1>4, ScopeKeys, ProtocolIs
      <4> QED
        BY <1>4, <2>7, <4>1, AssignIs DEF o
    <3> QED
      BY <1>3, <1>5, <1>6, <2>4, <3>1, <3>2, <3>3, <3>4 DEF TodoOK
  <2> QED
    BY <1>5, <2>5, <2>6, <2>7
<1>9. legacy = {} => ~BothScopes(o)
  BY <1>1, ScopeStep DEF EditOK, o, j, u
<1>10. EditOK(s)
  <2>1. ASSUME Misspelt(o["lxd_guest_attach"])
        PROVE  r.key = "lxd_guest_attach" /\ {"public", "lxd"} \subseteq d
    <3>1. "lxd_guest_attach" \in OuterKeys /\ ~Misspelt(r.object["lxd_guest_attach"])
      BY <1>1 DEF OuterKeys, EditOK
    <3>2. j = "lxd_guest_attach"
      BY <1>4, <2>1, <3>1, OuterOfAssign DEF o
    <3>3. j \notin KeysIn(GlobalKey) \cup KeysIn(ProKey)
      BY <3>2, KeyFacts
    <3>4. Other(r.key).https \in KeysIn(GlobalKey) \cup KeysIn(ProKey)
          /\ Other(r.key).http \in KeysIn(GlobalKey) \cup KeysIn(ProKey)
      BY DEF Other, KeysIn, Protocols, GlobalKey, ProKey
    <3> QED
      BY <1>5, <2>1, <3>2, <3>3, <3>4 DEF d
  <2> QED
    BY <1>1, <1>3, <1>5, <1>8, <1>9, <2>1 DEF EditOK
<1>11. ASSUME CleanOK(r) PROVE CleanOK(edits[e])'
  <2>1. UNCHANGED <<public, aptConf, told, legacy>>
    BY DEF WritePrivate
  <2>2. Own(s) = Own(r) /\ ~(r.verb \in Locking)
    BY <1>3, <1>5, OwnIs
  <2>3. legacy = {} => InForce(r.object) = InForce(stored)
    BY <1>1, <1>11, LoadIs DEF CleanOK
  <2>4. \A k \in OuterKeys : Readable(k, r.object[k]) = Readable(k, stored[k])
    BY <1>1, <1>11, LoadIs, Rereads DEF CleanOK
  <2>5. ASSUME NEW k \in OuterKeys, k # r.key
        PROVE  Readable(k, stored'[k]) = Readable(k, stored[k])
    <3>1. k # j
      BY <1>5, <2>5, ScopeKeys, OtherKeys DEF Scoped, Other, Protocols
    <3>2. stored'[k] = r.object[k]
      BY <1>2, <1>4, <2>5, <3>1, OuterOfAssign DEF o
    <3> QED
      BY <2>4, <3>2
  <2>6. ASSUME r.key \notin AptKeys, legacy = {} PROVE InForce(stored') = InForce(stored)
    <3>1. j = r.key
      BY <1>5, <2>6 DEF Scoped, AptKeys
    <3> QED
      BY <1>2, <1>4, <2>3, <2>6, <3>1, InForceStable DEF o
  <2>7. ASSUME r.key \in AptKeys
        PROVE  ConfiguredProxy(o, r.key, r.value) = ConfiguredProxy(r.object, r.key, r.value)
    <3>1. r.key \in KeysIn(GlobalKey) \cup KeysIn(ProKey)
      BY <1>1, <2>7 DEF EditOK, AptKeys
    <3>2. \A p \in Protocols : GlobalKey[p] \in KeysIn(GlobalKey) /\ ProKey[p] \in KeysIn(ProKey)
      BY ScopeKeys
    <3>3. \/ j = r.key
          \/ r.key \in KeysIn(ProKey) /\ j \in KeysIn(GlobalKey)
          \/ r.key \in KeysIn(GlobalKey) /\ j \in KeysIn(ProKey)
      BY <1>5, <3>1, <3>2, OtherKeys
    <3> QED
      BY <1>4, <3>1, <3>3, ConfiguredStable DEF o
  <2>8. ASSUME Strays(s) PROVE Strays(r)
    <3>1. r.verb = "unset" /\ j = r.key
      BY <1>3, <1>5, <2>8 DEF Strays, Scoped
    <3>2. CASE r.key \in KeysIn(ProKey) /\ HasGlobal(o)
      <4>1. \A p \in Protocols : j # GlobalKey[p]
        BY <3>1, <3>2, ScopeKeys
      <4>2. HasGlobal(r.object)
        BY <1>7, <3>2, <4>1 DEF HasGlobal
      <4> QED
        BY <3>1, <3>2, <4>2 DEF Strays
    <3>3. CASE r.key \in KeysIn(GlobalKey) /\ HasPro(o)
      <4>1. \A p \in Protocols : j # ProKey[p]
        BY <3>1, <3>3, ScopeKeys, OtherKeys
      <4>2. HasPro(r.object)
        BY <1>7, <3>3, <4>1 DEF HasPro
      <4> QED
        BY <3>1, <3>3, <4>2 DEF Strays
    <3> QED
      BY <1>3, <2>8, <3>2, <3>3 DEF Strays
  <2>9. ASSUME NEW g \in Facets \ (s.doubt \cup s.spoilt)
        PROVE  IF g \in Own(s) \ s.outer THEN Said(s, g)' ELSE FacetOK(g)'
    <3>1. g # "public" /\ g \in Facets \ (r.doubt \cup r.spoilt) /\ g \in {"apt"} \cup Services
      BY <1>3, <2>9, ServiceFacts DEF d
    <3>2. IF g \in Own(r) THEN Said(r, g) ELSE FacetOK(g)
      BY <1>1, <1>11, <3>1 DEF CleanOK
    <3>3. CASE g \in Own(r) /\ g = "apt"
      <4>1. r.key \in AptKeys
        BY <2>2, <3>3, ServiceFacts, OwnIs
      <4> QED
        BY <1>3, <2>1, <2>2, <2>7, <2>8, <3>2, <3>3, <4>1 DEF Said
    <3>4. CASE g \in Own(r) /\ g # "apt"
      <4>1. Message(s, g) = Message(r, g)
        BY <1>3, <2>2, <1>1 DEF Message, Locking, EditRecords, EditVerbs
      <4> QED
        BY <1>3, <2>1, <2>2, <3>2, <3>4, <4>1 DEF Said
    <3>5. CASE g \notin Own(r) /\ g = "apt"
      <4>1. r.key \notin AptKeys
        BY <2>2, <3>5, OwnIs
      <4>2. FacetOK(g)'
        BY <2>1, <2>6, <3>2, <3>5, <4>1, ServiceFacts DEF FacetOK
      <4> QED
        BY <2>2, <3>5, <4>2
    <3>6. CASE g \notin Own(r) /\ g # "apt"
      <4>1. g \in Services /\ SettingOf(g) \in OuterKeys /\ OuterKeys \cap AptKeys = {}
        BY <3>1, <3>6, ServiceFacts
      <4>2. SettingOf(g) # r.key
        <5>1. CASE r.key \in AptKeys
          BY <4>1, <5>1
        <5>2. CASE r.key \notin AptKeys
          BY <2>2, <3>6, <4>1, <5>2, OwnIs
        <5> QED
          BY <5>1, <5>2
      <4>3. FacetOK(g)'
        BY <2>1, <2>5, <3>1, <3>2, <3>6, <4>1, <4>2 DEF FacetOK
      <4> QED
        BY <2>2, <3>6, <4>3
    <3> QED
      BY <3>3, <3>4, <3>5, <3>6
  <2>10. "public" \in s.doubt
    BY <1>3 DEF d
  <2> QED
    BY <1>0, <1>2, <1>3, <2>9, <2>10 DEF CleanOK
<1>12. Busy(e)'
  BY <1>0, <1>3 DEF Busy
<1> QED
  BY <1>0, <1>2, <1>3, <1>9, <1>10, <1>11, <1>12

\* A command that has published what it saved.
LEMMA Publishes ==
    ASSUME SettingsTypeOK, Places, NEW e \in Editors, Busy(e), WritePublic(e)
    PROVE  /\ EditOK(edits'[e]) /\ edits'[e].spoilt = edits[e].spoilt /\ Busy(e)'
           /\ CleanOK(edits[e]) => CleanOK(edits[e])'
<1>0. PICK r, s : r = edits[e] /\ s = edits'[e]
  OBVIOUS
<1>1. r \in EditRecords /\ EditOK(r) /\ r.at = "publish" /\ ~Misspelt(r.object["lxd_guest_attach"])
  BY <1>0 DEF SettingsTypeOK, Places, WritePublic
<1>2. s = [r EXCEPT !.at = "write", !.doubt = @ \ {"public"}]
  BY <1>0 DEF WritePublic, SettingsTypeOK
<1>3. /\ s.at = "write" /\ s.object = r.object /\ s.verb = r.verb /\ s.key = r.key
      /\ s.value = r.value /\ s.todo = r.todo /\ s.spoilt = r.spoilt
      /\ s.doubt = r.doubt \ {"public"} /\ s.outer = r.outer
  BY <1>1, <1>2 DEF EditRecords
<1>4. r.verb \notin Locking /\ r.outer = {}
  BY <1>1 DEF EditOK, TodoOK
<1>5. TodoOK(s)
  BY <1>1, <1>3, <1>4 DEF EditOK, TodoOK, Scoped, Long, Middle, Last, Cleared
<1>6. EditOK(s)
  BY <1>1, <1>3, <1>4, <1>5 DEF EditOK
<1>7. ASSUME CleanOK(r) PROVE CleanOK(edits[e])'
  <2>1. UNCHANGED <<stored, aptConf, told, legacy>> /\ public' = Redact(r.object)
    BY <1>0 DEF WritePublic
  <2>2. stored = r.object
    BY <1>1, <1>7 DEF CleanOK
  <2>3. Own(s) = Own(r) /\ \A g : Said(s, g) <=> Said(r, g)
    BY <1>3 DEF Own, Said, Strays, Message
  <2>4. ASSUME NEW g \in Facets \ (s.doubt \cup s.spoilt)
        PROVE  IF g \in Own(s) \ s.outer THEN Said(s, g)' ELSE FacetOK(g)'
    <3>1. CASE g = "public"
      BY <2>1, <2>2, <2>3, <3>1, OwnIs, ServiceFacts DEF FacetOK
    <3>2. CASE g # "public"
      <4>1. IF g \in Own(r) \ r.outer THEN Said(r, g) ELSE FacetOK(g)
        BY <1>3, <1>7, <2>4, <3>2 DEF CleanOK
      <4>2. (FacetOK(g) => FacetOK(g)') /\ (Said(s, g) => Said(s, g)')
        BY <2>1, <3>2 DEF FacetOK, Said
      <4> QED
        BY <1>3, <2>3, <4>1, <4>2
    <3> QED
      BY <3>1, <3>2
  <2> QED
    BY <1>0, <1>3, <2>1, <2>2, <2>4 DEF CleanOK
<1>8. Busy(e)'
  BY <1>0, <1>3 DEF Busy
<1> QED
  BY <1>0, <1>3, <1>6, <1>7, <1>8

\* A command that ends in order, undisturbed, leaves no other doubt than it had.
LEMMA Ended ==
    ASSUME SettingsTypeOK, Places, NEW e \in Editors, Busy(e), EndEdit(e), CleanOK(edits[e]),
           NEW f \in Facets \ (edits[e].doubt \cup edits[e].spoilt)
    PROVE  FacetOK(f)
<1>0. PICK r : r = edits[e]
  OBVIOUS
<1>1. r \in EditRecords /\ EditOK(r) /\ r.todo = <<>> /\ r.outer = {}
  BY <1>0 DEF SettingsTypeOK, Places, EndEdit
<1>2. r.at \in {"loaded", "write"} /\ CleanOK(r)
  BY <1>0 DEF EndEdit
<1>3. r.object \in [Keys -> Values] /\ r.key \in Keys /\ r.value \in Values /\ r.verb \in EditVerbs
  BY <1>1 DEF EditRecords
<1>4. IF f \in Own(r) THEN Said(r, f) ELSE FacetOK(f)
  BY <1>0, <1>1, <1>2 DEF CleanOK
<1>5. CASE f \notin Own(r)
  BY <1>4, <1>5
<1>6. CASE f \in Own(r)
  <2>1. r.verb \notin Locking /\ r.verb \in {"set", "unset"}
    BY <1>3, <1>6, OwnIs DEF EditVerbs, Locking
  <2>2. r.at = "write"
    <3>1. \A a, b, c : <<a>> # <<>> /\ <<a, b, c>> # <<>>
      OBVIOUS
    <3>2. Assignments(r.verb, r.key, r.value) # <<>>
      BY <2>1, <3>1, AssignmentsAre
    <3> QED
      BY <1>1, <1>2, <3>2 DEF EditOK
  <2>3. stored = r.object /\ r.object[r.key] = r.value
    BY <1>1, <1>2, <2>1, <2>2 DEF CleanOK, EditOK, TodoOK
  <2>4. CASE f = "apt"
    <3>1. r.key \in AptKeys
      BY <1>6, <2>1, <2>4, ServiceFacts, OwnIs
    <3>2. aptConf = ConfiguredProxy(r.object, r.key, r.value) /\ ~Strays(r)
      BY <1>4, <1>6, <2>4 DEF Said
    <3>3. r.key \in KeysIn(GlobalKey) \cup KeysIn(ProKey)
      BY <1>1, <3>1 DEF EditOK, AptKeys
    <3>4. r.key \in KeysIn(GlobalKey) => r.object[OldKey[Protocol(r.key)]] = "unset"
      BY <1>1, <2>1 DEF EditOK, TodoOK
    <3>5. ASSUME r.key \in KeysIn(ProKey) PROVE ~HasGlobal(r.object)
      <4>1. CASE r.verb = "unset"
        BY <3>2, <3>5, <4>1 DEF Strays
      <4>2. CASE r.verb = "set"
        <5>1. r.todo # Long(r) /\ r.todo # Middle(r)
          BY <1>1 DEF Long, Middle
        <5>2. Cleared(r, "http") /\ Cleared(r, "https")
          BY <1>1, <3>5, <4>2, <5>1 DEF EditOK, TodoOK, Scoped
        <5> QED
          BY <3>5, <5>2 DEF Cleared, HasGlobal, Protocols
      <4> QED
        BY <2>1, <4>1, <4>2
    <3>6. ASSUME r.key \in KeysIn(GlobalKey) PROVE ~HasPro(r.object)
      <4>1. CASE r.verb = "unset"
        BY <3>2, <3>6, <4>1 DEF Strays
      <4>2. CASE r.verb = "set"
        <5>1. r.todo # Long(r) /\ r.todo # Middle(r)
          BY <1>1 DEF Long, Middle
        <5>2. Cleared(r, "http") /\ Cleared(r, "https") /\ r.key \notin KeysIn(ProKey)
          BY <1>1, <3>6, <4>2, <5>1, OtherKeys DEF EditOK, TodoOK, Scoped
        <5> QED
          BY <3>6, <5>2 DEF Cleared, HasPro, Protocols
      <4> QED
        BY <2>1, <4>1, <4>2
    <3>7. InForce(r.object) = ConfiguredProxy(r.object, r.key, r.value)
      BY <1>3, <2>3, <3>3, <3>4, <3>5, <3>6, InForceEnd
    <3> QED
      BY <2>3, <2>4, <3>2, <3>7, ServiceFacts DEF FacetOK
  <2>5. CASE f # "apt"
    <3>1. f \in Services /\ SettingOf(f) = r.key
      BY <1>6, <2>1, <2>5, OwnIs
    <3>2. told[f] = Message(r, f)
      BY <1>4, <1>6, <2>5 DEF Said
    <3>3. Message(r, f) = Readable(r.key, r.value)
      <4>1. CASE f = "lxd" /\ r.value # "unset"
        <5>1. r.verb = "set" /\ r.key = "lxd_guest_attach"
          BY <1>1, <3>1, <4>1 DEF EditOK, SettingOf
        <5>2. r.value \in Modes /\ ~Misspelt(r.value)
          BY <1>1, <2>2, <2>3, <5>1 DEF EditOK
        <5> QED
          BY <2>1, <4>1, <5>2, Rereads DEF Message, Misspelt
      <4>2. CASE f = "lxd" /\ r.value = "unset"
        BY <2>1, <4>2, Rereads DEF Message
      <4>3. CASE f # "lxd"
        <5>1. r.key = "http_proxy"
          BY <3>1, <4>3 DEF SettingOf
        <5> QED
          BY <2>1, <4>3, <5>1, Rereads DEF Message
      <4> QED
        BY <4>1, <4>2, <4>3
    <3> QED
      BY <2>3, <3>1, <3>2, <3>3, ServiceFacts DEF FacetOK
  <2> QED
    BY <2>4, <2>5
<1> QED
  BY <1>5, <1>6

\* What a step of one command must show, when the others stand still.
LEMMA OneMoves ==
    ASSUME SettingsTypeOK, Places, Settled, NEW e \in Editors, Busy(e),
           \A q \in Editors \ {e} : edits'[q] = edits[q],
           edits'[e].spoilt = edits[e].spoilt, Busy(e)',
           UNCHANGED <<legacy, doubt>>,
           EditOK(edits'[e]),
           legacy = {} => ~BothScopes(stored'),
           CleanOK(edits[e]) => CleanOK(edits[e])'
    PROVE  Places' /\ Settled'
<1>1. \A q \in Editors : Busy(q)' <=> Busy(q)
  BY DEF Busy
<1>2. doubt = Facets /\ doubt' = Facets
  BY DEF Places
<1>3. \A r : EditOK(r)' <=> EditOK(r)
  BY DEF EditOK
<1>4. \A q \in Editors : Busy(q)' => EditOK(edits[q])'
  BY <1>1, <1>3 DEF Places
<1>5. \A q \in Editors : edits'[q].spoilt = edits[q].spoilt
  OBVIOUS
<1>6. Places'
  BY <1>1, <1>2, <1>4, <1>5 DEF Places
<1>7. ASSUME NEW q \in Editors, Busy(q)', edits'[q].spoilt # Facets
      PROVE  q = e
  BY <1>1, <1>5, <1>7 DEF Places
<1>8. \A q \in Editors : Busy(q)' /\ edits'[q].spoilt # Facets => CleanOK(edits[q])'
  BY <1>1, <1>5, <1>7 DEF Settled
<1>9. Settled'
  BY <1>2, <1>8 DEF Settled
<1> QED
  BY <1>6, <1>9

\* What the end of a command must show.
LEMMA OneStops ==
    ASSUME SettingsTypeOK, Places, Settled, NEW e \in Editors, Busy(e),
           edits' = [edits EXCEPT ![e] = Idle], SettingsFacts,
           edits[e].spoilt = Facets => doubt' = Facets,
           \A f \in Facets \ doubt' : edits[e].spoilt # Facets => FacetOK(f)
    PROVE  Places' /\ Settled'
<1>1. ~Busy(e)' /\ \A q \in Editors \ {e} : edits'[q] = edits[q] /\ (Busy(q)' <=> Busy(q))
  BY DEF Busy, Idle, SettingsTypeOK
<1>2. UNCHANGED <<stored, legacy>>
  BY DEF SettingsFacts
<1>3. ASSUME NEW q \in Editors, Busy(q)' PROVE doubt' = Facets
  BY <1>1, <1>3 DEF Places
<1>4. \A q \in Editors : Busy(q)' => EditOK(edits[q])'
  BY <1>1, FactsFrame DEF Places
<1>5. Places'
  BY <1>1, <1>2, <1>3, <1>4 DEF Places
<1>6. \A f \in Facets \ doubt' : FacetOK(f)'
  BY FactsFrame
<1>7. \A q \in Editors : Busy(q)' /\ edits'[q].spoilt # Facets => CleanOK(edits[q])'
  BY <1>1, FactsFrame DEF Settled
<1>8. Settled'
  BY <1>6, <1>7 DEF Settled
<1> QED
  BY <1>5, <1>8

\* A command that leaves takes with it no doubt about what is not right.
LEMMA Leaves ==
    ASSUME SettingsTypeOK, Places, Settled, NEW e \in Editors, Busy(e), Leave(e),
           \A f \in Facets \ (edits[e].doubt \cup edits[e].spoilt) : CleanOK(edits[e]) => FacetOK(f)
    PROVE  Places' /\ Settled'
<1>1. edits' = [edits EXCEPT ![e] = Idle] /\ SettingsFacts
      /\ doubt' = edits[e].doubt \cup edits[e].spoilt
  BY DEF Leave, SettingsFacts
<1>2. edits[e].spoilt = Facets => doubt' = Facets
  <2>1. edits[e] \in EditRecords
    BY DEF SettingsTypeOK
  <2> QED
    BY <1>1, <2>1 DEF EditRecords
<1>3. \A f \in Facets \ doubt' : edits[e].spoilt # Facets => FacetOK(f)
  BY <1>1 DEF Settled
<1> QED
  BY <1>1, <1>2, <1>3, OneStops

LEMMA AllStand ==
  ASSUME Places, Settled, edits' = edits, doubt' = doubt, SettingsFacts
  PROVE  Places' /\ Settled'
<1>1. \A q \in Editors : Busy(q)' <=> Busy(q)
  BY DEF Busy
<1>2. UNCHANGED <<stored, legacy>>
  BY DEF SettingsFacts
<1>3. Places'
  BY <1>1, <1>2, FactsFrame DEF Places
<1>4. Settled'
  BY <1>1, FactsFrame DEF Settled
<1> QED
  BY <1>3, <1>4

\* A detach deletes lxd's file, and leaves the setting.
LEMMA Detaches == ASSUME SettingsTypeOK, Places, Settled, Unsubscribe PROVE Places' /\ Settled'
<1>1. UNCHANGED <<stored, public, aptConf, legacy>> /\ told' = [told EXCEPT !["lxd"] = "unset"]
      /\ doubt' = (IF stored["lxd_guest_attach"] = "unset" THEN doubt ELSE doubt \cup {"lxd"})
  BY DEF Unsubscribe
<1>2. ASSUME NEW e \in Editors
      PROVE  IF Busy(e) THEN edits'[e] = [edits[e] EXCEPT !.spoilt = @ \cup {"lxd"}]
                        ELSE edits'[e] = edits[e]
  BY DEF Unsubscribe, Busy
<1>3. /\ \A f \in Facets \ {"lxd"} : FacetOK(f) => FacetOK(f)'
      /\ \A r : \A f \in Facets \ {"lxd"} : Said(r, f) => Said(r, f)'
      /\ Load' = Load
  <2>1. \A f \in Services \ {"lxd"} : told'[f] = told[f]
    BY <1>1 DEF SettingsTypeOK
  <2> QED
    BY <1>1, <2>1, ServiceFacts DEF FacetOK, Said, Load
<1>4. stored["lxd_guest_attach"] = "unset" => FacetOK("lxd")'
  <2>1. told'["lxd"] = "unset"
    BY <1>1 DEF SettingsTypeOK, Services
  <2> QED
    BY <1>1, <2>1, Rereads DEF FacetOK, SettingOf
<1>5. "lxd" \in Facets
  BY DEF Facets, Services
<1>6. \A r : EditOK(r)' <=> EditOK(r)
  BY <1>1 DEF EditOK
<1>7. ASSUME NEW e \in Editors
      PROVE  /\ Busy(e)' <=> Busy(e)
             /\ Busy(e) => /\ EditOK(edits[e])'
                           /\ edits'[e].spoilt # Facets => edits[e].spoilt # Facets
                           /\ edits'[e].spoilt # Facets => CleanOK(edits[e])'
  <2>1. PICK r, s : r = edits[e] /\ s = edits'[e]
    OBVIOUS
  <2>2. r \in EditRecords
    BY <2>1 DEF SettingsTypeOK
  <2>3. CASE ~Busy(e)
    BY <1>2, <2>3 DEF Busy
  <2>4. CASE Busy(e)
    <3>1. s = [r EXCEPT !.spoilt = @ \cup {"lxd"}]
      BY <1>2, <2>1, <2>4
    <3>2. /\ s.at = r.at /\ s.object = r.object /\ s.verb = r.verb /\ s.key = r.key
          /\ s.value = r.value /\ s.todo = r.todo /\ s.spoilt = r.spoilt \cup {"lxd"}
          /\ s.doubt = r.doubt /\ s.outer = r.outer
      BY <2>2, <3>1 DEF EditRecords
    <3>3. EditOK(s)
      <4>1. EditOK(r)
        BY <2>1, <2>4 DEF Places
      <4>2. TodoOK(s)
        BY <3>2, <4>1 DEF EditOK, TodoOK, Scoped, Long, Middle, Last, Cleared
      <4> QED
        BY <3>2, <4>1, <4>2 DEF EditOK
    <3>4. s.spoilt # Facets => r.spoilt # Facets
      BY <1>5, <3>2
    <3>5. ASSUME CleanOK(r) PROVE CleanOK(edits[e])'
      <4>1. Own(s) = Own(r) /\ \A g : Said(s, g) <=> Said(r, g)
        BY <3>2 DEF Own, Said, Strays, Message
      <4>2. ASSUME NEW g \in Facets \ (s.doubt \cup s.spoilt)
            PROVE  IF g \in Own(s) \ s.outer THEN Said(s, g)' ELSE FacetOK(g)'
        BY <1>3, <3>2, <3>5, <4>1, <4>2 DEF CleanOK
      <4> QED
        BY <1>1, <1>3, <2>1, <3>2, <3>5, <4>2 DEF CleanOK
    <3>6. CleanOK(r) \/ r.spoilt = Facets
      BY <2>1, <2>4 DEF Settled
    <3> QED
      BY <1>6, <2>1, <2>4, <3>2, <3>3, <3>4, <3>5, <3>6 DEF Busy
  <2> QED
    BY <2>3, <2>4
<1>8. Places'
  BY <1>1, <1>5, <1>7 DEF Places
<1>9. \A f \in Facets \ doubt' : FacetOK(f)'
  BY <1>1, <1>3, <1>4 DEF Settled
<1> QED
  BY <1>7, <1>8, <1>9 DEF Settled

LEMMA InvInit == SettingsInit => SettingsInv
<1> SUFFICES ASSUME SettingsInit PROVE SettingsInv
  OBVIOUS
<1> USE DEF SettingsInit
<1>1. stored \in [Keys -> Values] /\ \A k \in Keys \ {OldKey.https} : stored[k] = "unset"
  BY DEF Values
<1>2. Idle \in EditRecords /\ \A e \in Editors : ~Busy(e)
  BY IdleType
<1>3. SettingsTypeOK
  <2>1. public \in [Keys -> Values \cup {"redacted"}]
    BY <1>1, RedactType
  <2>2. aptConf \in AptConfs
    BY <1>1, ConfTypes DEF Values
  <2>3. told \in [Services -> Values] /\ mishaps \in 0..MaxMishaps
    BY MishapsAssumption DEF Values
  <2>4. legacy \in SUBSET Keys
    BY DEF GlobalKey, Keys, AptKeys, KeysIn, Protocols
  <2> QED
    BY <1>1, <1>2, <2>1, <2>2, <2>3, <2>4 DEF SettingsTypeOK, AptConfs
<1>4. ~HasPro(stored)
  <2>1. \A p \in Protocols : ProKey[p] \in Keys \ {OldKey.https}
    BY ScopeKeys DEF ProKey, OldKey, Protocols
  <2> QED
    BY <1>1, <2>1 DEF HasPro
<1>5. Places
  BY <1>2, <1>4 DEF Places, BothScopes
<1>6. \A k \in OuterKeys : stored[k] = "unset"
  BY <1>1 DEF OuterKeys, Keys, OldKey
<1>7. \A f \in Services : told[f] = Readable(SettingOf(f), stored[SettingOf(f)])
  BY <1>6, ServiceFacts, Rereads
<1>8. Settled
  BY <1>2, <1>7, ServiceFacts DEF Settled, FacetOK
<1> QED
  BY <1>3, <1>5, <1>8 DEF SettingsInv

LEMMA InvStep == ASSUME SettingsInv, [SettingsNext]_settingsVars PROVE SettingsInv'
<1> USE DEF SettingsInv
<1>1. SettingsTypeOK'
  BY TypeStep
<1>2. ASSUME NEW e \in Editors, NEW verb \in EditVerbs, NEW k \in Keys,
             NEW v \in Values, StartEdit(e, verb, k, v)
      PROVE  Places' /\ Settled'
  <2>1. ~Busy(e) /\ SettingsFacts /\ doubt' = Facets
    BY <1>2 DEF StartEdit, Busy, SettingsFacts
  <2>2. EditOK(edits'[e]) /\ ((\A f \in Facets \ doubt : FacetOK(f)) => CleanOK(edits'[e]))
    BY <1>2, Started
  <2>3. /\ edits'[e].at = "loaded"
        /\ edits'[e].spoilt # Facets => \A q \in Editors : ~Busy(q)
        /\ \A q \in Editors \ {e} : edits'[q] = IF Busy(q) THEN [edits[q] EXCEPT !.spoilt = Facets]
                                                ELSE edits[q]
    BY <1>2 DEF StartEdit, SettingsTypeOK, Busy
  <2>4. ASSUME NEW q \in Editors \ {e}
        PROVE  /\ Busy(q)' <=> Busy(q)
               /\ Busy(q) => edits'[q].spoilt = Facets
               /\ Busy(q) /\ EditOK(edits[q]) => EditOK(edits'[q])
    <3>1. edits[q] \in EditRecords
      BY DEF SettingsTypeOK
    <3>2. ASSUME NEW r \in EditRecords, NEW s, s = [r EXCEPT !.spoilt = Facets]
          PROVE  s.spoilt = Facets /\ s.at = r.at /\ (EditOK(r) => EditOK(s))
      BY <3>2 DEF EditRecords, EditOK, TodoOK, Scoped, Long, Middle, Last, Cleared
    <3> QED
      BY <2>3, <3>1, <3>2 DEF Busy
  <2>5. \A q \in Editors : Busy(q)' => EditOK(edits[q])'
    <3>1. \A q \in Editors \ {e} : Busy(q) => EditOK(edits[q])
      BY DEF Places
    <3>2. \A r : EditOK(r)' <=> EditOK(r)
      BY <2>1, FactsFrame
    <3>3. \A q \in Editors : Busy(q)' => EditOK(edits'[q])
      BY <2>2, <2>4, <3>1
    <3> QED
      BY <3>2, <3>3
  <2>6. UNCHANGED <<stored, legacy>>
    BY <2>1 DEF SettingsFacts
  <2>7. ASSUME NEW q \in Editors, NEW p \in Editors, Busy(q)', Busy(p)', edits'[q].spoilt # Facets
        PROVE  p = q
    <3>1. q = e
      BY <2>4, <2>7
    <3> QED
      BY <2>3, <2>4, <2>7, <3>1
  <2>8. Places'
    BY <2>1, <2>5, <2>6, <2>7 DEF Places
  <2>9. ASSUME NEW q \in Editors, Busy(q)', edits'[q].spoilt # Facets PROVE CleanOK(edits[q])'
    <3>1. q = e
      BY <2>4, <2>9
    <3>2. CleanOK(edits'[e])
      BY <2>2 DEF Settled
    <3>3. \A r : CleanOK(r)' <=> CleanOK(r)
      BY <2>1, FactsFrame
    <3> QED
      BY <3>1, <3>2, <3>3
  <2>10. Settled'
    BY <2>1, <2>9 DEF Settled
  <2> QED
    BY <2>8, <2>10
<1>3. ASSUME NEW e \in Editors, RefuseEdit(e) PROVE Places' /\ Settled'
  <2>1. Busy(e) /\ Leave(e)
        /\ edits[e].outer = Configures(edits[e].verb, edits[e].key, edits[e].object)
    BY <1>3 DEF RefuseEdit, Busy
  <2>2. ASSUME CleanOK(edits[e]), NEW f \in Facets \ (edits[e].doubt \cup edits[e].spoilt)
        PROVE  FacetOK(f)
    <3>1. Own(edits[e]) \ edits[e].outer = {}
      BY <2>1, OwnIs
    <3> QED
      BY <2>2, <3>1 DEF CleanOK
  <2> QED
    BY <2>1, <2>2, Leaves
<1>4. ASSUME NEW e \in Editors, RedactRaises(e) PROVE Places' /\ Settled'
  <2>1. Busy(e) /\ Leave(e)
    BY <1>4 DEF RedactRaises, Busy
  <2>2. /\ edits[e].key = "lxd_guest_attach" /\ {"public", "lxd"} \subseteq edits[e].doubt
        /\ edits[e].verb \notin Locking
    BY <1>4, <2>1 DEF RedactRaises, Places, EditOK, TodoOK
  <2>3. ASSUME CleanOK(edits[e]), NEW f \in Facets \ (edits[e].doubt \cup edits[e].spoilt)
        PROVE  FacetOK(f)
    <3>1. f \in {"apt", "snap", "livepatch"}
      BY <2>2, <2>3 DEF Facets, Services
    <3>2. "lxd_guest_attach" \notin AptKeys
      BY KeyFacts DEF AptKeys
    <3>3. f \notin Own(edits[e])
      BY <2>2, <3>1, <3>2, OwnIs DEF SettingOf, Services
    <3> QED
      BY <2>3, <3>3 DEF CleanOK
  <2> QED
    BY <2>1, <2>3, Leaves
<1>5. ASSUME NEW e \in Editors, ConfigureApt(e) PROVE Places' /\ Settled'
  <2>1. Busy(e) /\ UNCHANGED <<stored, legacy, doubt>>
        /\ \A q \in Editors \ {e} : edits'[q] = edits[q]
    BY <1>5 DEF ConfigureApt, Busy, SettingsTypeOK
  <2>2. legacy = {} => ~BothScopes(stored')
    BY <2>1 DEF Places
  <2> QED
    BY <1>5, <2>1, <2>2, ConfiguredApt, OneMoves
<1>6. ASSUME NEW e \in Editors, NEW f \in Services, Configure(e, f) PROVE Places' /\ Settled'
  <2>1. Busy(e) /\ UNCHANGED <<stored, legacy, doubt>>
        /\ \A q \in Editors \ {e} : edits'[q] = edits[q]
    BY <1>6 DEF Configure, Busy, SettingsTypeOK
  <2>2. legacy = {} => ~BothScopes(stored')
    BY <2>1 DEF Places
  <2> QED
    BY <1>6, <2>1, <2>2, Configured, OneMoves
<1>7. ASSUME NEW e \in Editors, WritePrivate(e) PROVE Places' /\ Settled'
  <2>1. Busy(e) /\ UNCHANGED <<legacy, doubt>> /\ \A q \in Editors \ {e} : edits'[q] = edits[q]
    BY <1>7 DEF WritePrivate, Busy, SettingsTypeOK
  <2> QED
    BY <1>7, <2>1, Written, OneMoves
<1>8. ASSUME NEW e \in Editors, WritePublic(e) PROVE Places' /\ Settled'
  <2>1. Busy(e) /\ UNCHANGED <<stored, legacy, doubt>>
        /\ \A q \in Editors \ {e} : edits'[q] = edits[q]
    BY <1>8 DEF WritePublic, Busy, SettingsTypeOK
  <2>2. legacy = {} => ~BothScopes(stored')
    BY <2>1 DEF Places
  <2> QED
    BY <1>8, <2>1, <2>2, Publishes, OneMoves
<1>9. ASSUME NEW e \in Editors, EndEdit(e) PROVE Places' /\ Settled'
  <2>1. Busy(e) /\ Leave(e)
    BY <1>9 DEF EndEdit, Busy
  <2> QED
    BY <1>9, <2>1, Ended, Leaves
<1>10. ASSUME NEW e \in Editors, KillEdit(e) PROVE Places' /\ Settled'
  <2>1. Busy(e) /\ edits' = [edits EXCEPT ![e] = Idle] /\ SettingsFacts /\ UNCHANGED doubt
    BY <1>10 DEF KillEdit, Busy, SettingsFacts
  <2>2. doubt' = Facets
    BY <2>1 DEF Places
  <2> QED
    BY <2>1, <2>2, OneStops
<1>11. CASE Subscribe \/ DisableLivepatch
  BY <1>1, <1>11, AllStand DEF Subscribe, DisableLivepatch, SettingsFacts
<1>12. CASE Unsubscribe
  BY <1>1, <1>12, Detaches
<1>13. CASE UNCHANGED settingsVars
  BY <1>1, <1>13, AllStand DEF settingsVars, SettingsFacts
<1> QED
  BY <1>1, <1>2, <1>3, <1>4, <1>5, <1>6, <1>7, <1>8, <1>9, <1>10, <1>11, <1>12, <1>13
  DEF SettingsNext

\* The settings, their copies and the edits under way keep their types in every reachable state.
THEOREM SettingsTypeCorrect == SettingsSpec => []SettingsTypeOK
<1>1. SettingsInv => SettingsTypeOK
  BY DEF SettingsInv
<1> QED
  BY <1>1, InvInit, InvStep, PTL DEF SettingsSpec

\* Whatever commands overlap, fail or are killed, whoever attaches, detaches or disables
\* livepatch meanwhile, the settings never ask for two proxies of apt at once; and where no
\* doubt is left, apt, snapd, livepatch and lxd were told what the settings say and the public
\* copy is the redacted private one - for every set of values and of spellings, any number of
\* commands and any number of mishaps.  (action_config_set, process_config, detach)
THEOREM SettingsAreInForce == SettingsSpec => []SettingsInForce
<1>1. ASSUME SettingsInv PROVE SettingsInForce
  BY <1>1, ServiceFacts DEF SettingsInv, Places, Settled, SettingsInForce, FacetOK
<1> QED
  BY <1>1, InvInit, InvStep, PTL DEF SettingsSpec

-------------------------------------------------------------------------------
(* SecurityFix, for every set of packages, pockets' versions, requests and machines. *)

\* No package of the issue being dealt with is left unfixed.
Clean == IF request.by = "cli" THEN unfixed = {} ELSE status = "fixed"

\* The pockets whose part of the plan is over.
Behind(p) ==
    \/ stage \in {"finish", "end"}
    \/ p = "standard-updates" /\ pocket # "standard-updates"
    \/ p = "esm-infra" /\ pocket = "esm-apps"

\* A plan that leaves something unfixed even if all its steps succeed.
Short(p) == p.notFixed # {} \/ \E q \in Pockets : p.part[q].outdated # p.part[q].upgrade
\* The issues the report is about; those that are dealt with, and those that are over.
Counts(i) == i = 1 \/ request.about = "cve"
Dealt(i) == plans[i].kind = "patched" \/ ~Vulnerable(request.issues[i])
Over(i) == i < current \/ (i = current /\ stage = "end")
InSteps == stage \in {"stuck", "attach", "enable", "upgrade"}
InPart == stage \in {"attach", "enable", "upgrade"}

\* The machine: versions grow and nothing is installed that was not.
World ==
    /\ \A b \in Binaries : version[b] >= machine.version[b]
                           /\ (version[b] > 0 <=> machine.version[b] > 0)
    /\ contract = "none" => enabled = {}
    /\ stage = "plan" => version = machine.version

\* What the archive or ESM will offer of a package of the pocket.
Highest(b, q) == IF q \in Esm THEN Larger(machine.standard[b], machine.esm[b]) ELSE machine.standard[b]

\* A service that stays on unless another process takes it away.
Served(q) == q \in enabled /\ contract = "active"

\* A pocket's part of a plan covers what is outdated, at any later time; a service that the
\* plan does not enable is on, unless it was taken away.
PartFits(issue, part_, q) ==
    /\ part_.packages = PackagesIn(issue, q)
    /\ Outdated(issue, q) \subseteq part_.outdated
    /\ part_.upgrade \subseteq part_.outdated
    /\ \A b \in part_.outdated : SourceOf[b] \in part_.packages /\ machine.version[b] > 0
    /\ \A b \in part_.upgrade : Fixing(issue, b) <= Highest(b, q)
    /\ q \notin Esm => part_.attach = "no" /\ ~part_.enable
    /\ q \in Esm /\ part_.outdated # {} /\ ~part_.enable => Served(q) \/ q \in withdrawn

PlanFits(issue, p) ==
    /\ p.kind = "not-affected" => Affected(issue) = {}
    /\ p.kind = "steps" => /\ p.notFixed = Affected(issue) \ Released(issue)
                           /\ \A q \in Pockets : PartFits(issue, p.part[q], q)

\* Every plan fits its issue, unless it was refused.
Fits == stage # "raise" =>
            \A i \in DOMAIN plans : PlanFits(request.issues[i], plans[i])

\* What each stage says of the variables.
Placed ==
    /\ stage \notin {"plan", "raise"} => current \in DOMAIN plans
    /\ stage = "plan" => current = 1 /\ Len(plans) < Len(request.issues)
                         /\ overall = "not-affected" /\ ~failed
    /\ stage \in {"plan", "warnings"} =>
         status = "fixed" /\ unfixed = {} /\ ~needs /\ pocket = "standard-updates"
    /\ InSteps => plan.kind = "steps"
    /\ InPart => part.outdated # {}

\* How far the plan has got, if nothing was left unfixed.
Going ==
    InSteps \/ stage \in {"finish", "end"} =>
        /\ plan.kind \in {"not-affected", "error"} => status = plan.kind
        /\ plan.kind = "patched" => status = "fixed"
        /\ plan.kind # "steps" => unfixed = {}
        /\ plan.kind = "steps" => status # "not-affected"
        /\ plan.kind = "steps" /\ Clean =>
            /\ status = "fixed" /\ plan.notFixed = {} /\ ~needs
            /\ \A q \in Pockets : request.by = "api" \/ Behind(q) \/ (InPart /\ q = pocket) =>
                    plan.part[q].outdated = plan.part[q].upgrade
            /\ ~request.dryRun => \A q \in Pockets : Behind(q) => q \in withdrawn \/ Outdated(request.issues[current], q) = {}
            /\ stage = "upgrade" /\ ~request.dryRun /\ pocket \in Esm \ withdrawn => pocket \in enabled
        /\ plan.kind = "steps" /\ ~failed =>
            status \in {"fixed", "still-affected"} /\ (~Clean => Short(plan))

\* What a plan may come to, if the cache that could not be updated need not count.
Foreseen(p, word) ==
    LET foreseen == {Expected(p)} \cup IF p.warned THEN {Expected([p EXCEPT !.warned = FALSE])} ELSE {}
    IN  word \in foreseen \/ ("fixed" \in foreseen /\ word = "affected-until-reboot")

\* The issues dealt with so far, if all is well; and a single one comes to what was expected.
Told ==
    stage \notin {"plan", "raise"} =>
        /\ overall \in Good /\ ~request.dryRun =>
            \A i \in DOMAIN plans : Counts(i) /\ Over(i) => Dealt(i)
        /\ stage = "end" /\ request.about = "cve" => current = Len(plans)
        /\ Len(plans) = 1 /\ stage # "end" => overall = "not-affected"
        /\ Len(plans) = 1 /\ stage = "end" /\ ~failed => Foreseen(plans[1], overall)

\* The inductive invariant.
FixInv == FixTypeOK /\ World /\ Fits /\ Placed /\ Going /\ Told

\* Versions have grown, nothing was installed that was not, and no service went unnoticed.
Grown == /\ request' = request /\ machine' = machine /\ withdrawn \subseteq withdrawn'
         /\ \A q \in Esm : Served(q) => Served(q)' \/ q \in withdrawn'
         /\ \A b \in Binaries : version'[b] >= version[b] /\ (version'[b] > 0 <=> version[b] > 0)

LEMMA RequestTypes ==
    ASSUME FixTypeOK
    PROVE  /\ request \in RequestType /\ request.issues # <<>> /\ request.issues \in Seq(IssueType)
           /\ request.by \in {"cli", "api"} /\ request.about \in {"cve", "usn"}
           /\ DOMAIN request.issues = 1..Len(request.issues) /\ Len(request.issues) \in Nat
           /\ 1 \in 1..Len(request.issues)
           /\ machine \in MachineType /\ SourceOf \in [Binaries -> Sources]
           /\ (machine.contract = "none" => machine.enabled = {})
           /\ (request.by = "api" => ~request.dryRun)
<1>1. request \in Requests /\ machine \in Machines
  BY DEF FixTypeOK
<1>2. /\ request \in RequestType /\ request.issues # <<>>
      /\ (request.by = "api" => ~request.dryRun)
  BY <1>1, RequestsAssumption
<1>3. machine \in MachineType /\ (machine.contract = "none" => machine.enabled = {})
  BY <1>1, MachinesAssumption
<1>4. request.issues \in Seq(IssueType) /\ request.by \in {"cli", "api"} /\ request.about \in {"cve", "usn"}
  BY <1>2 DEF RequestType
<1> QED
  BY <1>2, <1>3, <1>4, SourceAssumption

LEMMA PlanPlaces ==
    ASSUME FixTypeOK
    PROVE  /\ plans \in Seq(PlanType) /\ Len(plans) \in Nat /\ DOMAIN plans = 1..Len(plans)
           /\ Len(plans) <= Len(request.issues) /\ DOMAIN plans \subseteq DOMAIN request.issues
<1>1. plans \in Seq(PlanType) /\ Len(plans) <= Len(request.issues)
  BY DEF FixTypeOK
<1>2. Len(plans) \in Nat /\ DOMAIN plans = 1..Len(plans)
  BY <1>1
<1>3. DOMAIN request.issues = 1..Len(request.issues) /\ Len(request.issues) \in Nat
  BY RequestTypes
<1>4. PICK m \in Nat, n \in Nat : m = Len(plans) /\ n = Len(request.issues)
  BY <1>2, <1>3
<1>5. 1..m \subseteq 1..n
  BY <1>1, <1>4
<1> QED
  BY <1>1, <1>2, <1>3, <1>4, <1>5

LEMMA Standing ==
    ASSUME FixTypeOK, Placed, stage \notin {"plan", "raise"}
    PROVE  /\ plans \in Seq(PlanType) /\ DOMAIN plans \subseteq DOMAIN request.issues
           /\ current \in DOMAIN plans /\ current \in DOMAIN request.issues /\ plan \in PlanType
           /\ request.issues[current] \in IssueType
<1>1. current \in DOMAIN plans
  BY DEF Placed
<1>2. current \in DOMAIN request.issues /\ plans[current] \in PlanType
  BY <1>1, PlanPlaces
<1> QED
  BY <1>1, <1>2, PlanPlaces, RequestTypes DEF plan

LEMMA PlanIsTyped ==
    ASSUME NEW p \in PlanType, NEW q \in Pockets
    PROVE  /\ p.kind \in {"patched", "error", "not-affected", "steps"} /\ p.notFixed \in SUBSET Sources
           /\ p.part[q].packages \in SUBSET Sources /\ p.part[q].outdated \in SUBSET Binaries
           /\ p.part[q].upgrade \in SUBSET Binaries /\ p.part[q].enable \in BOOLEAN
           /\ p.part[q].attach \in {"no", "required", "expired"} /\ p.warned \in BOOLEAN
<1>1. /\ p.kind \in {"patched", "error", "not-affected", "steps"} /\ p.notFixed \in SUBSET Sources
      /\ p.warned \in BOOLEAN
      /\ p.part \in [Pockets -> [packages : SUBSET Sources, outdated : SUBSET Binaries,
                                 upgrade : SUBSET Binaries, enable : BOOLEAN,
                                 attach : {"no", "required", "expired"}]]
  BY DEF PlanType
<1>2. p.part[q] \in [packages : SUBSET Sources, outdated : SUBSET Binaries,
                    upgrade : SUBSET Binaries, enable : BOOLEAN,
                    attach : {"no", "required", "expired"}]
  BY <1>1
<1> QED
  BY <1>1, <1>2

\* The largest version that any notice asks for is a version.
LEMMA FixingIsVersion ==
    ASSUME FixTypeOK, NEW i \in DOMAIN request.issues, NEW b \in Binaries
    PROVE  Fixing(request.issues[i], b) \in Nat
<1> DEFINE asked == {n[b] : n \in request.issues[i].notices}
<1>1. request.issues[i] \in IssueType
  BY RequestTypes
<1>2. asked \subseteq Nat
  BY <1>1 DEF IssueType
<1>3. asked = {} \/ \E v \in asked : \A w \in asked : v >= w
  <2>1. request \in Requests
    BY DEF FixTypeOK
  <2>2. \E top \in {0} \cup asked : \A n \in request.issues[i].notices : top >= n[b]
    BY <2>1, RequestsAssumption
  <2>3. PICK top \in {0} \cup asked : \A v \in asked : top >= v
    BY <2>2
  <2> HIDE DEF asked
  <2>4. CASE top \in asked
    BY <2>3, <2>4
  <2>5. CASE top \notin asked
    BY <1>2, <2>3, <2>5
  <2> QED
    BY <2>4, <2>5
<1>4. Fixing(request.issues[i], b) =
          IF asked = {} THEN 0 ELSE CHOOSE v \in asked : \A w \in asked : v >= w
  BY DEF Fixing
<1> HIDE DEF asked
<1>5. CASE asked = {}
  BY <1>4, <1>5
<1>6. CASE asked # {}
  <2> DEFINE top == CHOOSE v \in asked : \A w \in asked : v >= w
  <2>1. top \in asked
    BY <1>3, <1>6
  <2>2. Fixing(request.issues[i], b) = top
    BY <1>4, <1>6
  <2> HIDE DEF top
  <2> QED
    BY <1>2, <2>1, <2>2
<1> QED
  BY <1>5, <1>6

\* Versions only grow: what is outdated, of what is affected, becomes less.
LEMMA OutdatedShrinks ==
    ASSUME FixTypeOK, version' \in [Binaries -> Nat], Grown, NEW i \in DOMAIN request.issues
    PROVE  /\ Affected(request.issues[i])' = Affected(request.issues[i])
           /\ Released(request.issues[i])' = Released(request.issues[i])
           /\ \A q \in Pockets :
                /\ PackagesIn(request.issues[i], q)' = PackagesIn(request.issues[i], q)
                /\ Outdated(request.issues[i], q)' \subseteq Outdated(request.issues[i], q)
<1> DEFINE issue == request.issues[i]
<1>0. issue' = issue
  BY DEF Grown
<1>1. \A s : Installed(s)' <=> Installed(s)
  BY DEF Installed, Grown
<1>2. \A s : Noticed(issue, s)' <=> Noticed(issue, s)
  BY <1>0 DEF Noticed, Fixing
<1>3. Affected(issue)' = Affected(issue)
  BY <1>0, <1>1, <1>2 DEF Affected, Grown
<1>4. Released(issue)' = Released(issue)
  BY <1>0, <1>2, <1>3 DEF Released
<1>5. \A q : PackagesIn(issue, q)' = PackagesIn(issue, q)
  BY <1>4 DEF PackagesIn, Grown
<1>6. ASSUME NEW q \in Pockets, NEW b \in Outdated(issue, q)' PROVE b \in Outdated(issue, q)
  <2>1. /\ b \in Binaries /\ SourceOf[b] \in PackagesIn(issue, q)
        /\ version'[b] > 0 /\ Fixing(issue, b) > version'[b]
    BY <1>0, <1>5, <1>6 DEF Outdated, Fixing
  <2>2. Fixing(issue, b) \in Nat
    BY <2>1, FixingIsVersion
  <2>3. version[b] \in Nat /\ version'[b] \in Nat /\ version[b] > 0 /\ version'[b] >= version[b]
    BY <2>1 DEF Grown, FixTypeOK
  <2> QED
    BY <2>1, <2>2, <2>3 DEF Outdated
<1> QED
  BY <1>3, <1>4, <1>5, <1>6

LEMMA PlanStillFits ==
    ASSUME FixTypeOK, version' \in [Binaries -> Nat], Grown, NEW i \in DOMAIN request.issues,
           NEW p, PlanFits(request.issues[i], p)
    PROVE  PlanFits(request.issues[i], p)'
<1> DEFINE issue == request.issues[i]
<1>0. issue' = issue /\ machine' = machine
  BY DEF Grown
<1>1. \A b : Fixing(issue, b)' = Fixing(issue, b)
  BY <1>0 DEF Fixing
<1>2. \A b, q : Highest(b, q)' = Highest(b, q)
  BY <1>0 DEF Highest
<1>3. ASSUME p.kind = "steps", NEW q \in Pockets PROVE PartFits(issue, p.part[q], q)'
  <2>1. PartFits(issue, p.part[q], q)
    BY <1>3 DEF PlanFits
  <2>2. PackagesIn(issue, q)' = PackagesIn(issue, q) /\ Outdated(issue, q)' \subseteq Outdated(issue, q)
    BY OutdatedShrinks
  <2>3. q \in Esm /\ (Served(q) \/ q \in withdrawn) => Served(q)' \/ q \in withdrawn'
    BY DEF Grown
  <2> QED
    BY <1>0, <1>1, <1>2, <2>1, <2>2, <2>3 DEF PartFits
<1>4. Affected(issue)' = Affected(issue) /\ Released(issue)' = Released(issue)
  BY OutdatedShrinks
<1> QED
  BY <1>3, <1>4 DEF PlanFits

LEMMA InitHolds == ASSUME FixInit PROVE FixInv
<1> USE DEF FixInit
<1>1. /\ request \in RequestType /\ request.issues # <<>> /\ machine \in MachineType
      /\ (machine.contract = "none" => machine.enabled = {})
      /\ request \in Requests /\ machine \in Machines
  BY RequestsAssumption, MachinesAssumption
<1>2. /\ request.issues \in Seq(IssueType) /\ machine.contract \in Contracts
      /\ machine.enabled \in SUBSET Esm /\ machine.version \in [Binaries -> Nat]
  BY <1>1 DEF RequestType, MachineType
<1>3. 1 \in 1..Len(request.issues)
  BY <1>1, <1>2
<1>4. FixTypeOK
  <2>1. contract \in Contracts /\ enabled \in SUBSET Esm /\ version \in [Binaries -> Nat]
    BY <1>2
  <2>2. /\ plans = <<>> /\ <<>> \in Seq(PlanType) /\ Len(<<>>) = 0
        /\ Len(request.issues) \in Nat /\ 0 <= Len(request.issues)
    BY <1>2
  <2>4. seen \in BOOLEAN /\ others \in 0..MaxOthers /\ withdrawn \in SUBSET Esm
    BY <1>1, OthersAssumption DEF MachineType
  <2>3. /\ current \in 1..Len(request.issues) /\ stage \in Stages /\ pocket \in Pockets
        /\ status \in Statuses /\ unfixed \in SUBSET Sources
        /\ needs \in BOOLEAN /\ failed \in BOOLEAN /\ overall \in Statuses
    BY <1>3 DEF Stages, Pockets, Statuses
  <2> QED
    BY <1>1, <2>1, <2>2, <2>3, <2>4 DEF FixTypeOK
<1>5. World
  BY <1>1, <1>2 DEF World
<1>6. Len(plans) < Len(request.issues)
  BY <1>2, <1>3
<1>7. Fits /\ Placed /\ Going /\ Told
  BY <1>6 DEF Fits, Placed, Going, Told, InSteps, InPart
<1> QED
  BY <1>4, <1>5, <1>7 DEF FixInv

-----------------------------------------------------------------------------
(* Making the plans. *)

LEMMA PlanMade ==
    ASSUME FixTypeOK, World, stage = "plan", NEW i \in DOMAIN request.issues,
           NEW shown, NEW warned \in BOOLEAN
    PROVE  LET p == PlanOf(i, shown, warned)
           IN  p \in PlanType /\ (~Raises(p) => PlanFits(request.issues[i], p))
<1> DEFINE issue == request.issues[i]
           p == PlanOf(i, shown, warned)
<1>0. machine \in MachineType /\ SourceOf \in [Binaries -> Sources]
  BY RequestTypes
<1>1. Released(issue) \subseteq Affected(issue) /\ Affected(issue) \subseteq Sources
  BY DEF Released, Affected
<1>2. p.kind \in {"patched", "error", "not-affected", "steps"} /\ p.notFixed = Affected(issue) \ Released(issue)
      /\ p.warned = warned
  BY DEF PlanOf, Kind
<1>3. p.part = [q \in Pockets |-> Part(issue, q, shown[q])]
  BY DEF PlanOf
<1>4. ASSUME NEW q \in Pockets
      PROVE  /\ PackagesIn(issue, q) \subseteq Sources /\ Outdated(issue, q) \subseteq Binaries
             /\ Upgradable(issue, q, shown[q]) \subseteq Outdated(issue, q)
  BY <1>1 DEF PackagesIn, Outdated, Upgradable
<1>5. ASSUME NEW q \in Pockets
      PROVE  p.part[q] \in [packages : SUBSET Sources, outdated : SUBSET Binaries,
                            upgrade : SUBSET Binaries, enable : BOOLEAN,
                            attach : {"no", "required", "expired"}]
  BY <1>3, <1>4 DEF Part
<1>6. p \in PlanType
  <2>1. p = [kind |-> p.kind, warned |-> p.warned, notFixed |-> p.notFixed, part |-> p.part]
    BY DEF PlanOf
  <2> HIDE DEF p
  <2>2. p.part \in [Pockets -> [packages : SUBSET Sources, outdated : SUBSET Binaries,
                            upgrade : SUBSET Binaries, enable : BOOLEAN,
                            attach : {"no", "required", "expired"}]]
    BY <1>3, <1>5
  <2> QED
    BY <1>1, <1>2, <2>1, <2>2 DEF PlanType
<1>7. ASSUME ~Raises(p), p.kind = "steps", NEW q \in Pockets PROVE PartFits(issue, p.part[q], q)
  <2>1. p.part[q] = Part(issue, q, shown[q])
    BY <1>3
  <2>2. /\ p.part[q].packages = PackagesIn(issue, q) /\ p.part[q].outdated = Outdated(issue, q)
        /\ p.part[q].upgrade = Upgradable(issue, q, shown[q])
        /\ p.part[q].attach = (IF q \notin Esm \/ contract = "active" THEN "no"
                               ELSE IF contract = "none" THEN "required" ELSE "expired")
        /\ p.part[q].enable = (q \in Esm /\ q \notin enabled)
    BY <2>1 DEF Part
  <2>3. enabled \subseteq Esm
    BY DEF FixTypeOK
  <2>4. q \in Esm /\ p.part[q].outdated # {} /\ ~p.part[q].enable => Served(q)
    <3> SUFFICES ASSUME q \in Esm, p.part[q].outdated # {}, ~p.part[q].enable PROVE Served(q)
      OBVIOUS
    <3>1. q \in enabled /\ p.part[q].attach # "expired"
      BY <1>7, <2>2 DEF Raises
    <3>2. contract \in {"none", "active"}
      BY <2>2, <3>1
    <3> QED
      BY <3>1, <3>2 DEF Served, World
  <2>5. \A b \in p.part[q].outdated : SourceOf[b] \in p.part[q].packages /\ machine.version[b] > 0
    BY <2>2 DEF Outdated, World
  <2>6. ASSUME NEW b \in p.part[q].upgrade PROVE Fixing(issue, b) <= Highest(b, q)
    <3>1. b \in Outdated(issue, q) /\ Fixing(issue, b) <= Candidate(b, q, shown[q])
      BY <2>2 DEF Upgradable
    <3>2. b \in Binaries /\ machine.pocket[SourceOf[b]] = q
      BY <3>1 DEF Outdated, PackagesIn
    <3>3. Fixing(issue, b) \in Nat /\ machine.standard[b] \in Nat /\ machine.esm[b] \in Nat
      BY <1>0, <3>2, FixingIsVersion DEF MachineType
    <3>4. Candidate(b, q, shown[q]) \in {Offered(b), Larger(Offered(b), machine.esm[b])}
          /\ (q \notin Esm => Candidate(b, q, shown[q]) = Offered(b))
      BY DEF Candidate
    <3>5. /\ Offered(b) \in {machine.standard[b], Larger(machine.standard[b], machine.esm[b])}
          /\ (q \notin Esm => Offered(b) = machine.standard[b])
      BY <2>3, <3>2 DEF Offered
    <3>6. CASE q \in Esm
      <4>1. Highest(b, q) = Larger(machine.standard[b], machine.esm[b])
        BY <3>6 DEF Highest
      <4> QED
        BY <3>1, <3>3, <3>4, <3>5, <4>1 DEF Larger
    <3>7. CASE q \notin Esm
      BY <3>1, <3>4, <3>5, <3>7 DEF Highest
    <3> QED
      BY <3>6, <3>7
  <2> HIDE DEF p
  <2> QED
    BY <1>4, <2>2, <2>3, <2>4, <2>5, <2>6 DEF PartFits
<1>8. p.kind = "not-affected" => Affected(issue) = {}
  BY DEF PlanOf, Kind
<1> HIDE DEF p
<1>9. ~Raises(p) => PlanFits(issue, p)
  BY <1>2, <1>7, <1>8 DEF PlanFits
<1> QED
  BY <1>6, <1>9 DEF p

LEMMA MakesPlans == ASSUME FixInv, MakePlan PROVE FixInv'
<1> DEFINE next == Len(plans) + 1
<1>0. FixTypeOK /\ World /\ Placed /\ Fits /\ stage = "plan"
  BY DEF FixInv, MakePlan
<1>1. PICK at \in Esm \cup {"never"}, fresh \in BOOLEAN :
        LET shown == [p \in Pockets |-> IF at \in {"esm-infra", p} THEN fresh ELSE seen]
            warned == \E p \in Pockets : Updates(next, p) /\ at \notin {"esm-infra", p}
            made == PlanOf(next, shown, warned)
        IN  /\ seen' = fresh /\ plans' = Append(plans, made)
            /\ stage' = IF Raises(made) \/ (request.by = "cli" /\ made.kind = "error")
                        THEN "raise"
                        ELSE IF \/ next = Len(request.issues)
                                \/ request.about = "usn" /\ made.kind = "error"
                        THEN "warnings" ELSE "plan"
  BY DEF MakePlan
<1> DEFINE shown == [p \in Pockets |-> IF at \in {"esm-infra", p} THEN fresh ELSE seen]
           warned == \E p \in Pockets : Updates(next, p) /\ at \notin {"esm-infra", p}
           made == PlanOf(next, shown, warned)
<1>2. /\ made = PlanOf(next, shown, warned) /\ seen' = fresh /\ plans' = Append(plans, made)
      /\ stage' \in {"raise", "warnings", "plan"} /\ (stage' # "raise" => ~Raises(made))
      /\ stage' = "plan" => next # Len(request.issues)
      /\ warned \in BOOLEAN
  BY <1>1
<1> HIDE DEF shown, warned, made
<1>3. /\ request' = request /\ machine' = machine /\ contract' = contract /\ enabled' = enabled
      /\ version' = version /\ current' = current /\ pocket' = pocket /\ status' = status
      /\ unfixed' = unfixed /\ needs' = needs /\ failed' = failed /\ overall' = overall
      /\ others' = others /\ withdrawn' = withdrawn
  BY DEF MakePlan, host, context, elsewhere
<1>4. /\ DOMAIN request.issues = 1..Len(request.issues) /\ Len(request.issues) \in Nat
      /\ plans \in Seq(PlanType) /\ Len(plans) \in Nat /\ DOMAIN plans = 1..Len(plans)
      /\ Len(plans) < Len(request.issues) /\ DOMAIN plans \subseteq DOMAIN request.issues
  BY <1>0, RequestTypes, PlanPlaces DEF Placed
<1>5. next \in DOMAIN request.issues /\ next \in Nat /\ next <= Len(request.issues)
  <2>1. PICK m \in Nat, n \in Nat : m = Len(plans) /\ n = Len(request.issues) /\ m < n
    BY <1>4
  <2>2. m + 1 \in 1..n /\ m + 1 <= n
    BY <2>1
  <2> QED
    BY <1>4, <2>1, <2>2
<1>6. made \in PlanType /\ (~Raises(made) => PlanFits(request.issues[next], made))
  BY <1>0, <1>2, <1>5, PlanMade
<1>7. /\ plans' \in Seq(PlanType) /\ Len(plans') = next /\ DOMAIN plans' = 1..next
      /\ plans'[next] = made /\ \A i \in 1..Len(plans) : plans'[i] = plans[i]
  BY <1>2, <1>4, <1>6
<1>8. FixTypeOK'
  BY <1>0, <1>1, <1>2, <1>3, <1>5, <1>7 DEF FixTypeOK, Stages
<1>9. World'
  BY <1>0, <1>3 DEF World
<1>10. Fits'
  <2>1. SUFFICES ASSUME stage' # "raise", NEW i \in 1..next
                 PROVE  PlanFits(request.issues[i], plans[i])'
    BY <1>7 DEF Fits
  <2>2. PICK p : p = plans'[i]
    OBVIOUS
  <2>3. PlanFits(request.issues[i], p)
    <3>1. CASE i = next
      BY <1>2, <1>6, <1>7, <2>1, <2>2, <3>1
    <3>2. CASE i # next
      <4>1. i \in 1..Len(plans)
        BY <1>4, <3>2
      <4> QED
        BY <1>0, <1>4, <1>7, <2>2, <4>1 DEF Fits
    <3> QED
      BY <3>1, <3>2
  <2>4. Grown /\ version' \in [Binaries -> Nat]
    BY <1>0, <1>3 DEF Grown, FixTypeOK, Served
  <2>5. i \in DOMAIN request.issues
    BY <1>4, <1>5
  <2>6. PlanFits(request.issues[i], p)'
    BY <1>0, <2>3, <2>4, <2>5, PlanStillFits
  <2> QED
    BY <2>2, <2>6
<1>11. Placed'
  <2>1. stage' = "plan" => Len(plans') < Len(request.issues)
    <3>1. PICK m \in Nat, n \in Nat : m = next /\ n = Len(request.issues) /\ m <= n
      BY <1>4, <1>5
    <3> QED
      BY <1>2, <1>7, <3>1
  <2>2. 1 \in DOMAIN plans'
    BY <1>4, <1>5, <1>7
  <2> QED
    BY <1>0, <1>2, <1>3, <2>1, <2>2 DEF Placed, InSteps, InPart
<1>12. Going'
  BY <1>2 DEF Going, InSteps
<1>13. Told'
  <2>1. current = 1 /\ overall = "not-affected" /\ stage' # "end"
    BY <1>0, <1>2 DEF Placed
  <2>2. \A i \in DOMAIN plans' : ~(i < 1)
    BY <1>4, <1>5, <1>7
  <2> QED
    BY <1>2, <1>3, <2>1, <2>2 DEF Told, Over
<1> QED
  BY <1>8, <1>9, <1>10, <1>11, <1>12, <1>13 DEF FixInv

-----------------------------------------------------------------------------
(* Carrying the plans out. *)

LEMMA FitsStays ==
    ASSUME FixInv, UNCHANGED ask, stage # "raise", Grown, version' \in [Binaries -> Nat]
    PROVE  Fits'
<1>1. FixTypeOK /\ Fits /\ request' = request /\ plans' = plans
  BY DEF FixInv, ask
<1>2. ASSUME NEW i \in DOMAIN plans PROVE PlanFits(request.issues[i], plans[i])'
  <2>1. PICK p : p = plans[i]
    OBVIOUS
  <2>2. PlanFits(request.issues[i], p) /\ i \in DOMAIN request.issues
    BY <1>1, <2>1, PlanPlaces DEF Fits
  <2>3. PlanFits(request.issues[i], p)'
    BY <1>1, <2>2, PlanStillFits
  <2> QED
    BY <1>1, <2>1, <2>3
<1> QED
  BY <1>1, <1>2 DEF Fits

LEMMA DealtStays ==
    ASSUME FixTypeOK, UNCHANGED ask, Grown, version' \in [Binaries -> Nat],
           NEW i \in DOMAIN request.issues, Dealt(i)
    PROVE  Dealt(i)'
<1>1. request' = request /\ plans' = plans
  BY DEF ask
<1>2. /\ Affected(request.issues[i])' = Affected(request.issues[i])
      /\ Released(request.issues[i])' = Released(request.issues[i])
      /\ \A q \in Pockets : Outdated(request.issues[i], q)' \subseteq Outdated(request.issues[i], q)
  BY OutdatedShrinks
<1>3. ~Vulnerable(request.issues[i]) => ~Vulnerable(request.issues[i])'
  BY <1>1, <1>2 DEF Vulnerable, Grown
<1> QED
  BY <1>1, <1>3 DEF Dealt

LEMMA ToldStays ==
    ASSUME FixInv, UNCHANGED ask, Grown, version' \in [Binaries -> Nat],
           UNCHANGED <<current, overall>>, stage \notin {"plan", "raise", "end"}, stage' # "end"
    PROVE  Told'
<1>1. FixTypeOK /\ Told /\ request' = request /\ plans' = plans
  BY DEF FixInv, ask
<1>2. \A i \in DOMAIN plans : Dealt(i) => Dealt(i)'
  BY <1>1, DealtStays, PlanPlaces
<1>3. \A i : (Over(i)' <=> Over(i)) /\ (Counts(i)' <=> Counts(i))
  BY <1>1 DEF Over, Counts
<1> QED
  BY <1>1, <1>2, <1>3 DEF Told

\* The part of the plan that is next.
LEMMA PartNow ==
    ASSUME FixInv, InSteps
    PROVE  /\ plan \in PlanType /\ plan.kind = "steps" /\ pocket \in Pockets
           /\ PartFits(request.issues[current], part, pocket)
           /\ part = plan.part[pocket] /\ part.packages \in SUBSET Sources
           /\ part.outdated \in SUBSET Binaries /\ part.upgrade \in SUBSET part.outdated
           /\ \A q \in Pockets : /\ StuckIn(q) \in SUBSET Sources
                                 /\ StuckIn(q) = {} <=> plan.part[q].outdated = plan.part[q].upgrade
           /\ part.outdated # {} => part.packages # {}
           /\ \A q \in Pockets : Outdated(request.issues[current], q) \subseteq plan.part[q].outdated
<1>1. FixTypeOK /\ Fits /\ Placed /\ stage \notin {"plan", "raise"}
  BY DEF FixInv, InSteps
<1>2. plan \in PlanType /\ plan.kind = "steps" /\ pocket \in Pockets /\ part = plan.part[pocket]
  BY <1>1, Standing DEF Placed, FixTypeOK, part
<1>3. PlanFits(request.issues[current], plan)
  BY <1>1, Standing DEF Fits, plan
<1>4. \A q \in Pockets : PartFits(request.issues[current], plan.part[q], q)
  BY <1>2, <1>3 DEF PlanFits
<1>5. ASSUME NEW q \in Pockets
      PROVE  /\ StuckIn(q) \in SUBSET Sources
             /\ StuckIn(q) = {} <=> plan.part[q].outdated = plan.part[q].upgrade
  <2>1. plan.part[q].outdated \in SUBSET Binaries /\ plan.part[q].upgrade \subseteq plan.part[q].outdated
    BY <1>2, <1>4, PlanIsTyped DEF PartFits
  <2>2. \A c \in Binaries : SourceOf[c] \in Sources
    BY SourceAssumption
  <2> QED
    BY <2>1, <2>2 DEF StuckIn
<1>6. /\ part.packages \in SUBSET Sources /\ part.outdated \in SUBSET Binaries
  BY <1>2, PlanIsTyped
<1>7. part.outdated # {} => part.packages # {}
  BY <1>2, <1>4 DEF PartFits
<1>8. /\ part.upgrade \subseteq part.outdated
      /\ \A q \in Pockets : Outdated(request.issues[current], q) \subseteq plan.part[q].outdated
  BY <1>2, <1>4 DEF PartFits
<1> QED
  BY <1>2, <1>4, <1>5, <1>6, <1>7, <1>8

LEMMA Advanced ==
    ASSUME pocket \in Pockets, InSteps, Advance
    PROVE  /\ pocket' \in Pockets /\ stage' \in {"stuck", "finish"}
           /\ \A q \in Pockets : Behind(q)' <=> (Behind(q) \/ q = pocket)
<1>1. stage' = IF pocket = "esm-apps" THEN "finish" ELSE "stuck"
  BY DEF Advance
<1>2. stage \notin {"finish", "end"}
  BY DEF InSteps
<1>3. CASE pocket = "standard-updates"
  <2>1. pocket' = "esm-infra" /\ stage' = "stuck"
    BY <1>1, <1>3 DEF Advance
  <2> QED
    BY <1>2, <1>3, <2>1 DEF Behind, Pockets, Esm
<1>4. CASE pocket = "esm-infra"
  <2>1. pocket' = "esm-apps" /\ stage' = "stuck"
    BY <1>1, <1>4 DEF Advance
  <2> QED
    BY <1>2, <1>4, <2>1 DEF Behind, Pockets, Esm
<1>5. CASE pocket = "esm-apps"
  <2>1. pocket' = "esm-apps" /\ stage' = "finish"
    BY <1>1, <1>5 DEF Advance
  <2> QED
    BY <1>2, <1>5, <2>1 DEF Behind, Pockets, Esm
<1> QED
  BY <1>3, <1>4, <1>5 DEF Pockets, Esm

LEMMA SameHost ==
    ASSUME FixInv, UNCHANGED <<ask, elsewhere>>, UNCHANGED host, stage # "plan", stage' # "plan"
    PROVE  Grown /\ World' /\ version' \in [Binaries -> Nat]
<1>1. /\ request' = request /\ machine' = machine /\ contract' = contract /\ enabled' = enabled
      /\ version' = version /\ version \in [Binaries -> Nat] /\ World /\ withdrawn' = withdrawn
  BY DEF ask, host, elsewhere, FixInv, FixTypeOK
<1> QED
  BY <1>1 DEF Grown, World, Served

\* A contract that the user brings, or one that somebody else brings or takes away.
LEMMA NewContract ==
    ASSUME FixInv, UNCHANGED <<request, machine>>, stage' = "plan" => stage = "plan",
           NEW to \in Contracts, NEW services \in SUBSET Esm, Attached(to, services),
           withdrawn \subseteq withdrawn',
           \A q \in Esm : Served(q) => q \in withdrawn' \/ (q \in services /\ to = "active"),
           to = "none" => services = {}
    PROVE  /\ Grown /\ World' /\ version' \in [Binaries -> Nat]
           /\ contract' \in Contracts /\ enabled' \in SUBSET Esm
<1>1. /\ contract' = to /\ enabled' = services
      /\ version' = version /\ version \in [Binaries -> Nat] /\ World
  BY DEF Attached, FixInv, FixTypeOK
<1>2. \A q \in Esm : Served(q) => Served(q)' \/ q \in withdrawn'
  BY <1>1 DEF Served
<1> QED
  BY <1>1, <1>2 DEF Grown, World

\* What Going asks for while the steps of a plan are carried out.
LEMMA GoingOn ==
    ASSUME UNCHANGED <<ask, current>>, plan.kind = "steps",
           status' # "not-affected",
           Clean' => /\ status' = "fixed" /\ plan.notFixed = {} /\ ~needs'
                     /\ \A q \in Pockets : request.by = "api" \/ Behind(q)' \/ (InPart' /\ q = pocket') =>
                             plan.part[q].outdated = plan.part[q].upgrade
                     /\ ~request.dryRun =>
                           \A q \in Pockets : Behind(q)' => q \in withdrawn' \/ Outdated(request.issues[current], q)' = {}
                     /\ stage' = "upgrade" /\ ~request.dryRun /\ pocket' \in Esm \ withdrawn' => pocket' \in enabled',
           ~failed' => status' \in {"fixed", "still-affected"} /\ (~Clean' => Short(plan))
    PROVE  Going'
<1>1. plan' = plan /\ request' = request /\ current' = current
  BY DEF ask, plan
<1>2. Short(plan)' <=> Short(plan)
  BY <1>1 DEF Short
<1> QED
  BY <1>1, <1>2 DEF Going

LEMMA GoingNow ==
    ASSUME FixInv, InSteps
    PROVE  /\ plan.kind = "steps" /\ status # "not-affected" /\ status \in Statuses
           /\ Clean =>
               /\ status = "fixed" /\ plan.notFixed = {} /\ ~needs
               /\ \A q \in Pockets : request.by = "api" \/ Behind(q) \/ (InPart /\ q = pocket) =>
                       plan.part[q].outdated = plan.part[q].upgrade
               /\ ~request.dryRun => \A q \in Pockets : Behind(q) => q \in withdrawn \/ Outdated(request.issues[current], q) = {}
               /\ stage = "upgrade" /\ ~request.dryRun /\ pocket \in Esm \ withdrawn => pocket \in enabled
           /\ ~failed => status \in {"fixed", "still-affected"} /\ (~Clean => Short(plan))
<1>1. Going /\ Placed /\ FixTypeOK
  BY DEF FixInv
<1> QED
  BY <1>1 DEF Going, Placed, FixTypeOK

LEMMA OutdatedNow ==
    ASSUME FixInv, InSteps, UNCHANGED <<ask, current>>, Grown, version' \in [Binaries -> Nat]
    PROVE  \A q \in Pockets :
             Outdated(request.issues[current], q)' \subseteq Outdated(request.issues[current], q)
<1>1. FixTypeOK /\ request' = request /\ current' = current /\ current \in DOMAIN request.issues
  BY Standing DEF FixInv, InSteps, ask
<1>2. PICK i \in DOMAIN request.issues : i = current
  BY <1>1
<1>3. \A q \in Pockets : Outdated(request.issues[i], q)' \subseteq Outdated(request.issues[i], q)
  BY <1>1, OutdatedShrinks
<1> QED
  BY <1>1, <1>2, <1>3

\* A step of a plan keeps the invariant if it does Going.
LEMMA Carried ==
    ASSUME FixInv, InSteps, Keep, Grown, World', version' \in [Binaries -> Nat],
           contract' \in Contracts, enabled' \in SUBSET Esm,
           stage' \in {"stuck", "attach", "enable", "upgrade", "finish"}, pocket' \in Pockets,
           InPart' => plan.part[pocket'].outdated # {},
           status' \in Statuses, unfixed' \in SUBSET Sources, needs' \in BOOLEAN, failed' \in BOOLEAN,
           Going'
    PROVE  FixInv'
<1>1. /\ request' = request /\ machine' = machine /\ plans' = plans /\ current' = current
      /\ overall' = overall /\ UNCHANGED ask /\ seen' = seen /\ others' = others /\ withdrawn' = withdrawn
  BY DEF Keep, ask, elsewhere
<1>2. FixTypeOK /\ Placed /\ stage \notin {"plan", "raise", "end"}
  BY DEF FixInv, InSteps
<1>3. FixTypeOK'
  BY <1>1, <1>2 DEF FixTypeOK, Stages
<1>4. Fits'
  BY <1>1, <1>2, FitsStays
<1>5. Told'
  BY <1>1, <1>2, ToldStays
<1>6. Placed'
  <2>1. plan' = plan /\ plan.kind = "steps"
    BY <1>1, PartNow DEF plan
  <2>2. part' = plan.part[pocket']
    BY <2>1 DEF part
  <2> QED
    BY <1>1, <1>2, <2>1, <2>2 DEF Placed, InSteps
<1> QED
  BY <1>3, <1>4, <1>5, <1>6 DEF FixInv

\* A step that leaves the packages of the pocket unfixed.
LEMMA Failed ==
    ASSUME FixInv, InPart, Keep, NEW word \in {"still-affected", "error"}, Fail(part.packages, word),
           Grown, World', version' \in [Binaries -> Nat], contract' \in Contracts, enabled' \in SUBSET Esm
    PROVE  FixInv'
<1>1. InSteps /\ FixTypeOK /\ part.outdated # {}
  BY DEF InPart, InSteps, FixInv, Placed
<1>2. part.packages # {} /\ part.packages \in SUBSET Sources /\ pocket \in Pockets
  BY <1>1, PartNow
<1>3. status' = word /\ unfixed' = unfixed \cup part.packages /\ failed' = TRUE /\ needs' = needs
  BY DEF Fail
<1>4. stage' \in {"stuck", "finish"} /\ pocket' \in Pockets
  BY <1>1, <1>2, Advanced DEF Fail, Goto
<1>5. UNCHANGED <<ask, current>> /\ request' = request
  BY DEF Keep, ask
<1>6. ~Clean'
  BY <1>2, <1>3, <1>5 DEF Clean
<1>7. Going'
  BY <1>1, <1>3, <1>5, <1>6, GoingNow, GoingOn
<1>8. ~InPart'
  BY <1>4 DEF InPart
<1>9. /\ status' \in Statuses /\ unfixed' \in SUBSET Sources /\ needs' \in BOOLEAN /\ failed' \in BOOLEAN
      /\ stage' \in {"stuck", "attach", "enable", "upgrade", "finish"}
  BY <1>1, <1>2, <1>3, <1>4 DEF FixTypeOK, Statuses
<1> QED
  BY <1>1, <1>4, <1>7, <1>8, <1>9, Carried

LEMMA StuckHolds == ASSUME FixInv, Stuck PROVE FixInv'
<1>1. stage = "stuck" /\ InSteps /\ ~InPart /\ FixTypeOK /\ Keep /\ UNCHANGED host
  BY DEF Stuck, InSteps, InPart, FixInv
<1>2. UNCHANGED <<ask, current>> /\ request' = request /\ plans' = plans /\ current' = current
      /\ UNCHANGED elsewhere /\ withdrawn' = withdrawn
  BY <1>1 DEF Keep, ask, elsewhere
<1>3. plan.kind = "steps" /\ pocket \in Pockets /\ part = plan.part[pocket]
  BY <1>1, PartNow
<1>4. CASE part.outdated = {}
  <2>1. Advance /\ UNCHANGED <<status, unfixed, needs, failed>>
    BY <1>4 DEF Stuck, context
  <2>2. /\ pocket' \in Pockets /\ stage' \in {"stuck", "finish"}
        /\ \A q \in Pockets : Behind(q)' <=> (Behind(q) \/ q = pocket)
    BY <1>1, <1>3, <2>1, Advanced
  <2>3. Grown /\ World' /\ version' \in [Binaries -> Nat]
    BY <1>1, <1>2, <2>2, SameHost DEF InSteps
  <2>4. Clean' <=> Clean
    BY <1>2, <2>1 DEF Clean
  <2>5. part.outdated = part.upgrade /\ Outdated(request.issues[current], pocket) = {}
    BY <1>1, <1>3, <1>4, PartNow
  <2>6. \A q \in Pockets : Outdated(request.issues[current], q)' \subseteq Outdated(request.issues[current], q)
    BY <1>1, <1>2, <2>3, OutdatedNow
  <2>7. ~InPart' /\ stage' # "upgrade"
    BY <2>2 DEF InPart
  <2>8. Clean' => /\ status' = "fixed" /\ plan.notFixed = {} /\ ~needs'
                  /\ \A q \in Pockets : request.by = "api" \/ Behind(q)' \/ (InPart' /\ q = pocket') =>
                          plan.part[q].outdated = plan.part[q].upgrade
                  /\ ~request.dryRun =>
                        \A q \in Pockets : Behind(q)' => q \in withdrawn' \/ Outdated(request.issues[current], q)' = {}
                  /\ stage' = "upgrade" /\ ~request.dryRun /\ pocket' \in Esm \ withdrawn' => pocket' \in enabled'
    BY <1>1, <1>2, <1>3, <2>1, <2>2, <2>4, <2>5, <2>6, <2>7, GoingNow
  <2>9. Going'
    BY <1>1, <1>2, <1>3, <2>1, <2>4, <2>8, GoingNow, GoingOn
  <2>10. /\ status' \in Statuses /\ unfixed' \in SUBSET Sources /\ needs' \in BOOLEAN /\ failed' \in BOOLEAN
         /\ contract' \in Contracts /\ enabled' \in SUBSET Esm
         /\ stage' \in {"stuck", "attach", "enable", "upgrade", "finish"}
    BY <1>1, <2>1, <2>2 DEF FixTypeOK, host
  <2> QED
    BY <1>1, <2>2, <2>3, <2>7, <2>9, <2>10, Carried
<1>5. CASE part.outdated # {}
  <2> DEFINE S == IF request.by = "cli" THEN StuckIn(pocket) ELSE {}
  <2>1. /\ stage' = "attach" /\ pocket' = pocket /\ unfixed' = unfixed \cup S
        /\ status' = (IF S = {} THEN status ELSE "still-affected") /\ needs' = needs /\ failed' = failed
    BY <1>5 DEF Stuck, Goto, Unfix
  <2>2. S \in SUBSET Sources /\ (S # {} => Short(plan))
    BY <1>1, <1>3, PartNow DEF Short
  <2>3. S = {} /\ request.by = "cli" => part.outdated = part.upgrade
    BY <1>1, <1>3, PartNow
  <2>4. /\ Clean' => Clean /\ S = {}
        /\ ~Clean' => ~Clean \/ Short(plan)
    <3>1. S # {} => request.by = "cli"
      OBVIOUS
    <3> HIDE DEF S
    <3> QED
      BY <1>2, <2>1, <2>2, <3>1 DEF Clean
  <2> HIDE DEF S
  <2>5. \A q \in Pockets : Behind(q)' <=> Behind(q)
    BY <1>1, <2>1 DEF Behind
  <2>6. Grown /\ World' /\ version' \in [Binaries -> Nat]
    BY <1>1, <1>2, <2>1, SameHost
  <2>7. \A q \in Pockets : Outdated(request.issues[current], q)' \subseteq Outdated(request.issues[current], q)
    BY <1>1, <1>2, <2>6, OutdatedNow
  <2>8. request.by \in {"cli", "api"}
    BY <1>1, RequestTypes
  <2>9. Clean' => /\ status' = "fixed" /\ plan.notFixed = {} /\ ~needs'
                  /\ \A q \in Pockets : request.by = "api" \/ Behind(q)' \/ (InPart' /\ q = pocket') =>
                          plan.part[q].outdated = plan.part[q].upgrade
                  /\ ~request.dryRun =>
                        \A q \in Pockets : Behind(q)' => q \in withdrawn' \/ Outdated(request.issues[current], q)' = {}
                  /\ stage' = "upgrade" /\ ~request.dryRun /\ pocket' \in Esm \ withdrawn' => pocket' \in enabled'
    BY <1>1, <1>2, <1>3, <2>1, <2>3, <2>4, <2>5, <2>7, <2>8, GoingNow
  <2>10. Going'
    BY <1>1, <1>2, <1>3, <2>1, <2>4, <2>9, GoingNow, GoingOn
  <2>11. /\ status' \in Statuses /\ unfixed' \in SUBSET Sources /\ needs' \in BOOLEAN /\ failed' \in BOOLEAN
         /\ contract' \in Contracts /\ enabled' \in SUBSET Esm
    BY <1>1, <2>1, <2>2 DEF FixTypeOK, host, Statuses
  <2> QED
    BY <1>1, <1>3, <1>5, <2>1, <2>6, <2>10, <2>11, Carried
<1> QED
  BY <1>4, <1>5

LEMMA WarningsHold == ASSUME FixInv, Warnings PROVE FixInv'
<1>1. /\ stage = "warnings" /\ FixTypeOK /\ Placed /\ World /\ Fits /\ Keep /\ UNCHANGED host
      /\ status = "fixed" /\ unfixed = {} /\ ~needs /\ pocket = "standard-updates"
  BY DEF Warnings, FixInv, Placed
<1>2. UNCHANGED ask /\ UNCHANGED <<ask, current>> /\ UNCHANGED <<current, overall>> /\ UNCHANGED elsewhere
      /\ request' = request /\ machine' = machine /\ plans' = plans /\ current' = current /\ overall' = overall
      /\ contract' = contract /\ enabled' = enabled /\ version' = version
      /\ seen' = seen /\ others' = others /\ withdrawn' = withdrawn
  BY <1>1 DEF Keep, ask, host, elsewhere
<1>3. plan \in PlanType /\ current \in DOMAIN request.issues /\ plan' = plan
      /\ PlanFits(request.issues[current], plan)
  BY <1>1, <1>2, Standing DEF Fits, plan
<1>4. plan.kind \in {"patched", "error", "not-affected", "steps"} /\ plan.notFixed \in SUBSET Sources
  BY <1>3, PlanIsTyped DEF Pockets
<1>5. \A q \in Pockets : plan.kind = "steps" => PartFits(request.issues[current], plan.part[q], q)
  BY <1>3 DEF PlanFits
<1>6. ASSUME stage' \in {"stuck", "finish"}, pocket' = pocket, status' \in Statuses,
             unfixed' \in SUBSET Sources, needs' = needs, failed' = failed, Going',
             stage' = "stuck" => plan.kind = "steps"
      PROVE  FixInv'
  <2>1. Grown /\ World' /\ version' \in [Binaries -> Nat]
    BY <1>1, <1>2, <1>6, SameHost
  <2>2. FixTypeOK'
    BY <1>1, <1>2, <1>6 DEF FixTypeOK, Stages
  <2>3. Fits'
    BY <1>1, <1>2, <2>1, FitsStays
  <2>4. Told'
    BY <1>1, <1>2, <1>6, <2>1, ToldStays
  <2>5. Placed'
    BY <1>1, <1>2, <1>3, <1>6 DEF Placed, InSteps, InPart
  <2> QED
    BY <1>6, <2>1, <2>2, <2>3, <2>4, <2>5 DEF FixInv
<1>7. CASE plan.kind = "error"
  <2>1. status' = "error" /\ unfixed' = unfixed /\ needs' = needs /\ failed' = failed
        /\ stage' = "finish" /\ pocket' = pocket
    BY <1>7 DEF Warnings, Settle, Goto
  <2>2. Going'
    BY <1>1, <1>3, <1>7, <2>1 DEF Going
  <2> QED
    BY <1>1, <1>6, <2>1, <2>2 DEF Statuses, FixTypeOK
<1>8. CASE plan.kind = "not-affected"
  <2>1. status' = "not-affected" /\ unfixed' = unfixed /\ needs' = needs /\ failed' = failed
        /\ stage' = "finish" /\ pocket' = pocket
    BY <1>8 DEF Warnings, Settle, Goto
  <2>2. Going'
    BY <1>1, <1>3, <1>8, <2>1 DEF Going
  <2> QED
    BY <1>1, <1>6, <2>1, <2>2 DEF Statuses, FixTypeOK
<1>9. CASE plan.kind = "patched"
  <2>1. status' = status /\ unfixed' = unfixed /\ needs' = needs /\ failed' = failed
        /\ stage' = "finish" /\ pocket' = pocket
    BY <1>9 DEF Warnings, context, Goto
  <2>2. Going'
    BY <1>1, <1>3, <1>9, <2>1 DEF Going
  <2> QED
    BY <1>1, <1>6, <2>1, <2>2 DEF FixTypeOK
<1>10. CASE plan.kind = "steps"
  <2> DEFINE S == plan.notFixed \cup IF request.by = "cli" THEN {} ELSE UNION {StuckIn(p) : p \in Pockets}
  <2>1. /\ stage' = "stuck" /\ pocket' = pocket /\ unfixed' = unfixed \cup S
        /\ status' = (IF S = {} THEN status ELSE "still-affected") /\ needs' = needs /\ failed' = failed
    BY <1>10 DEF Warnings, Goto, Unfix
  <2>2. ASSUME NEW q \in Pockets
        PROVE  StuckIn(q) \in SUBSET Sources
               /\ (StuckIn(q) = {} <=> plan.part[q].outdated = plan.part[q].upgrade)
    <3>1. plan.part[q].outdated \in SUBSET Binaries /\ plan.part[q].upgrade \subseteq plan.part[q].outdated
      BY <1>3, <1>5, <1>10, PlanIsTyped DEF PartFits
    <3>2. \A c \in Binaries : SourceOf[c] \in Sources
      BY SourceAssumption
    <3> QED
      BY <3>1, <3>2 DEF StuckIn
  <2>3. S \in SUBSET Sources /\ (S # {} => Short(plan)) /\ plan.notFixed \subseteq S
    BY <1>4, <2>2 DEF Short
  <2>4. S = {} /\ request.by = "api" => \A q \in Pockets : plan.part[q].outdated = plan.part[q].upgrade
    BY <2>2
  <2>5. Clean' <=> S = {}
    <3> HIDE DEF S
    <3> QED
      BY <1>1, <1>2, <2>1 DEF Clean
  <2> HIDE DEF S
  <2>6. request.by \in {"cli", "api"}
    BY <1>1, RequestTypes
  <2>7. \A q \in Pockets : ~Behind(q)'
    BY <1>1, <2>1 DEF Behind
  <2>8. ~InPart'
    BY <2>1 DEF InPart
  <2>9. Clean' => /\ status' = "fixed" /\ plan.notFixed = {} /\ ~needs'
                  /\ \A q \in Pockets : request.by = "api" \/ Behind(q)' \/ (InPart' /\ q = pocket') =>
                          plan.part[q].outdated = plan.part[q].upgrade
                  /\ ~request.dryRun =>
                        \A q \in Pockets : Behind(q)' => q \in withdrawn' \/ Outdated(request.issues[current], q)' = {}
                  /\ stage' = "upgrade" /\ ~request.dryRun /\ pocket' \in Esm \ withdrawn' => pocket' \in enabled'
    BY <1>1, <2>1, <2>3, <2>4, <2>5, <2>6, <2>7, <2>8
  <2>10. Going'
    BY <1>1, <1>2, <1>10, <2>1, <2>3, <2>5, <2>9, GoingOn
  <2> QED
    BY <1>1, <1>6, <1>10, <2>1, <2>3, <2>10 DEF FixTypeOK, Statuses
<1> QED
  BY <1>4, <1>7, <1>8, <1>9, <1>10

\* A service that needs no enabling is on, unless it was taken away.
LEMMA OnAlready ==
    ASSUME FixInv, InPart, pocket \in Esm \ withdrawn, ~part.enable
    PROVE  pocket \in enabled
<1>1. FixTypeOK /\ InSteps /\ part.outdated # {}
  BY DEF FixInv, Placed, InPart, InSteps
<1>2. PartFits(request.issues[current], part, pocket)
  BY <1>1, PartNow
<1> QED
  BY <1>1, <1>2 DEF PartFits, Served

\* A step within a pocket's part that leaves nothing more unfixed.
LEMMA NextStep ==
    ASSUME FixInv, InPart, Keep, stage' \in {"enable", "upgrade"}, pocket' = pocket,
           unfixed' = unfixed, failed' = failed, needs' = needs, Grown, World',
           version' \in [Binaries -> Nat], contract' \in Contracts, enabled' \in SUBSET Esm,
           status' = status \/ (request.by = "cli" /\ status' = "fixed"),
           stage' = "upgrade" /\ pocket \in Esm \ withdrawn /\ ~request.dryRun => pocket \in enabled'
    PROVE  FixInv'
<1>1. InSteps /\ FixTypeOK /\ InPart' /\ Placed
  BY DEF InPart, InSteps, FixInv
<1>2. UNCHANGED <<ask, current>> /\ request' = request /\ withdrawn' = withdrawn
  BY DEF Keep, ask, elsewhere
<1>3. plan.kind = "steps" /\ pocket \in Pockets /\ part = plan.part[pocket]
  BY <1>1, PartNow
<1>4. request.by \in {"cli", "api"}
  BY <1>1, RequestTypes
<1>5. Clean' <=> Clean
  BY <1>2, <1>4 DEF Clean
<1>6. \A q \in Pockets : Behind(q)' <=> Behind(q)
  BY <1>1 DEF Behind, InSteps
<1>7. \A q \in Pockets : Outdated(request.issues[current], q)' \subseteq Outdated(request.issues[current], q)
  BY <1>1, <1>2, OutdatedNow
<1>8. Clean' => /\ status' = "fixed" /\ plan.notFixed = {} /\ ~needs'
                /\ \A q \in Pockets : request.by = "api" \/ Behind(q)' \/ (InPart' /\ q = pocket') =>
                        plan.part[q].outdated = plan.part[q].upgrade
                /\ ~request.dryRun =>
                      \A q \in Pockets : Behind(q)' => q \in withdrawn' \/ Outdated(request.issues[current], q)' = {}
                /\ stage' = "upgrade" /\ ~request.dryRun /\ pocket' \in Esm \ withdrawn' => pocket' \in enabled'
  BY <1>1, <1>2, <1>5, <1>6, <1>7, GoingNow
<1>9. Going'
  BY <1>1, <1>2, <1>3, <1>5, <1>8, GoingNow, GoingOn
<1>10. status' \in Statuses /\ unfixed' \in SUBSET Sources /\ needs' \in BOOLEAN /\ failed' \in BOOLEAN
       /\ stage' \in {"stuck", "attach", "enable", "upgrade", "finish"}
  BY <1>1 DEF FixTypeOK, Statuses
<1>11. InPart' => plan.part[pocket'].outdated # {}
  BY <1>1, <1>3 DEF Placed
<1> QED
  BY <1>1, <1>3, <1>9, <1>10, <1>11, Carried

\* A step after which the plan, of which something stays unfixed, goes on or ends.
LEMMA Unclean ==
    ASSUME FixInv, InPart, Keep, stage' \in {"enable", "upgrade", "finish"}, pocket' = pocket,
           status' \in Statuses \ {"not-affected"}, unfixed' \in SUBSET Sources, needs' \in BOOLEAN,
           failed' = failed \/ failed' = TRUE, ~Clean', ~failed' => ~Clean /\ status' = status,
           Grown, World', version' \in [Binaries -> Nat], contract' \in Contracts, enabled' \in SUBSET Esm
    PROVE  FixInv'
<1>1. InSteps /\ FixTypeOK /\ Placed
  BY DEF InPart, InSteps, FixInv
<1>2. UNCHANGED <<ask, current>>
  BY DEF Keep, ask
<1>3. plan.kind = "steps" /\ pocket \in Pockets /\ part = plan.part[pocket]
  BY <1>1, PartNow
<1>4. Going'
  BY <1>1, <1>2, <1>3, GoingNow, GoingOn
<1>5. status' \in Statuses /\ failed' \in BOOLEAN
      /\ stage' \in {"stuck", "attach", "enable", "upgrade", "finish"}
  BY <1>1 DEF FixTypeOK
<1>6. InPart' => plan.part[pocket'].outdated # {}
  BY <1>1, <1>3 DEF Placed
<1> QED
  BY <1>1, <1>3, <1>4, <1>5, <1>6, Carried

LEMMA CliAttachHolds == ASSUME FixInv, CliAttach PROVE FixInv'
<1>1. stage = "attach" /\ request.by = "cli" /\ InPart /\ FixTypeOK /\ Keep
  BY DEF CliAttach, InPart, FixInv
<1>2. /\ request' = request /\ machine' = machine /\ plans' = plans /\ current' = current
      /\ overall' = overall /\ UNCHANGED ask /\ UNCHANGED elsewhere
      /\ seen' = seen /\ others' = others /\ withdrawn' = withdrawn
  BY <1>1 DEF Keep, ask, elsewhere
<1>3. contract \in Contracts /\ enabled \in SUBSET Esm /\ version \in [Binaries -> Nat]
  BY <1>1 DEF FixTypeOK
<1>4. UNCHANGED host /\ stage' # "plan" => Grown /\ World' /\ version' \in [Binaries -> Nat]
                                           /\ contract' \in Contracts /\ enabled' \in SUBSET Esm
  <2> SUFFICES ASSUME UNCHANGED host, stage' # "plan"
               PROVE  /\ Grown /\ World' /\ version' \in [Binaries -> Nat]
                      /\ contract' \in Contracts /\ enabled' \in SUBSET Esm
    OBVIOUS
  <2>1. Grown /\ World' /\ version' \in [Binaries -> Nat]
    BY <1>1, <1>2, SameHost
  <2> QED
    BY <1>3, <2>1 DEF host
<1>5. CASE part.attach = "no"
  <2>1. stage' = "enable" /\ pocket' = pocket /\ UNCHANGED host /\ UNCHANGED <<status, unfixed, needs, failed>>
    BY <1>5 DEF CliAttach, Goto, context
  <2> QED
    BY <1>1, <1>4, <2>1, NextStep
<1>6. CASE part.attach # "no" /\ (request.dryRun \/ contract \notin {"none", "expired"})
  <2>1. stage' = "enable" /\ pocket' = pocket /\ UNCHANGED host /\ status' = "fixed"
        /\ UNCHANGED <<unfixed, needs, failed>>
    BY <1>6 DEF CliAttach, Goto, Settle
  <2> QED
    BY <1>1, <1>4, <2>1, NextStep
<1>7. CASE part.attach # "no" /\ ~request.dryRun /\ contract \in {"none", "expired"}
  <2>1. \/ UNCHANGED host /\ Fail(part.packages, "still-affected")
        \/ UNCHANGED <<host, context>> /\ Goto("raise")
        \/ TryAttach
    BY <1>7 DEF CliAttach
  <2>2. ASSUME UNCHANGED host, Fail(part.packages, "still-affected") PROVE FixInv'
    <3>1. stage' # "plan"
      BY <2>2 DEF Fail, Goto, Advance
    <3> QED
      BY <1>1, <1>4, <2>2, <3>1, Failed
  <2>3. ASSUME UNCHANGED <<host, context>>, Goto("raise") PROVE FixInv'
    <3>1. /\ stage' = "raise" /\ pocket' = pocket /\ contract' = contract /\ enabled' = enabled
          /\ version' = version /\ UNCHANGED <<status, unfixed, needs, failed>>
      BY <2>3 DEF Goto, host, context
    <3>2. FixTypeOK'
      BY <1>1, <1>2, <3>1 DEF FixTypeOK, Stages
    <3>3. World'
      BY <1>1, <1>2, <2>3, <3>1, SameHost
    <3>4. Fits' /\ Going' /\ Told'
      BY <3>1 DEF Fits, Going, Told, InSteps
    <3>5. Placed'
      BY <1>1, <1>2, <3>1 DEF Placed, InSteps, InPart, FixInv
    <3> QED
      BY <3>2, <3>3, <3>4, <3>5 DEF FixInv
  <2>4. ASSUME NEW services \in SUBSET Esm, Attached("active", services), Settle("fixed"),
  Goto("enable")
        PROVE  FixInv'
    <3>1. stage' = "enable" /\ pocket' = pocket /\ status' = "fixed" /\ UNCHANGED <<unfixed, needs, failed>>
      BY <2>4 DEF Goto, Settle
    <3>2. "active" \in Contracts
      BY DEF Contracts
    <3>3. /\ Grown /\ World' /\ version' \in [Binaries -> Nat]
          /\ contract' \in Contracts /\ enabled' \in SUBSET Esm
      BY <1>1, <1>2, <1>7, <2>4, <3>1, <3>2, NewContract DEF Served
    <3> QED
      BY <1>1, <3>1, <3>3, NextStep
  <2>5. ASSUME Attached("none", {}) \/ Attached("active", {}), Fail(part.packages, "still-affected")
        PROVE  FixInv'
    <3>1. stage' # "plan"
      BY <2>5 DEF Fail, Goto, Advance
    <3>2. "active" \in Contracts /\ "none" \in Contracts /\ {} \in SUBSET Esm
      BY DEF Contracts
    <3>3. /\ Grown /\ World' /\ version' \in [Binaries -> Nat]
          /\ contract' \in Contracts /\ enabled' \in SUBSET Esm
      BY <1>1, <1>2, <1>7, <2>5, <3>1, <3>2, NewContract DEF Served
    <3> QED
      BY <1>1, <2>5, <3>3, Failed
  <2> QED
    BY <2>1, <2>2, <2>3, <2>4, <2>5 DEF TryAttach
<1> QED
  BY <1>5, <1>6, <1>7

LEMMA CliEnableHolds == ASSUME FixInv, CliEnable PROVE FixInv'
<1>1. stage = "enable" /\ request.by = "cli" /\ InPart /\ FixTypeOK /\ Keep /\ World
  BY DEF CliEnable, InPart, FixInv
<1>2. request' = request /\ machine' = machine /\ UNCHANGED ask /\ UNCHANGED elsewhere
      /\ withdrawn' = withdrawn
  BY <1>1 DEF Keep, ask, elsewhere
<1>3. contract \in Contracts /\ enabled \in SUBSET Esm /\ version \in [Binaries -> Nat]
  BY <1>1 DEF FixTypeOK
<1>4. UNCHANGED host /\ stage' # "plan" => Grown /\ World' /\ version' \in [Binaries -> Nat]
                                           /\ contract' \in Contracts /\ enabled' \in SUBSET Esm
                                           /\ enabled' = enabled
  <2> SUFFICES ASSUME UNCHANGED host, stage' # "plan"
               PROVE  /\ Grown /\ World' /\ version' \in [Binaries -> Nat]
                      /\ contract' \in Contracts /\ enabled' \in SUBSET Esm /\ enabled' = enabled
    OBVIOUS
  <2>1. Grown /\ World' /\ version' \in [Binaries -> Nat]
    BY <1>1, <1>2, SameHost
  <2> QED
    BY <1>3, <2>1 DEF host
<1>5. CASE ~part.enable
  <2>1. stage' = "upgrade" /\ pocket' = pocket /\ UNCHANGED host /\ UNCHANGED <<status, unfixed, needs, failed>>
    BY <1>5 DEF CliEnable, Goto, context
  <2>2. pocket \in Esm \ withdrawn => pocket \in enabled
    BY <1>1, <1>5, OnAlready
  <2> QED
    BY <1>1, <1>4, <2>1, <2>2, NextStep
<1>6. ASSUME part.enable, stage' = (IF status = "fixed" THEN "upgrade" ELSE "finish"), pocket' = pocket,
             UNCHANGED <<status, unfixed, needs, failed>>,
             Grown, World', version' \in [Binaries -> Nat], contract' \in Contracts, enabled' \in SUBSET Esm,
             pocket \in enabled' \/ request.dryRun
      PROVE  FixInv'
  <2>1. CASE status = "fixed"
    BY <1>1, <1>6, <2>1, NextStep
  <2>2. CASE status # "fixed"
    <3>1. ~Clean /\ status \in Statuses /\ status # "not-affected"
      BY <1>1, <2>2, GoingNow DEF InPart, InSteps
    <3>2. ~Clean'
      BY <1>2, <1>6, <3>1 DEF Clean
    <3>3. unfixed \in SUBSET Sources /\ needs \in BOOLEAN
      BY <1>1 DEF FixTypeOK
    <3> QED
      BY <1>1, <1>6, <2>2, <3>1, <3>2, <3>3, Unclean
  <2> QED
    BY <2>1, <2>2
<1>7. ASSUME part.enable, pocket \in enabled \/ request.dryRun, UNCHANGED host,
             Goto(IF status = "fixed" THEN "upgrade" ELSE "finish"), UNCHANGED context
      PROVE  FixInv'
  <2>1. stage' = (IF status = "fixed" THEN "upgrade" ELSE "finish") /\ pocket' = pocket
        /\ UNCHANGED <<status, unfixed, needs, failed>>
    BY <1>7 DEF Goto, context
  <2>2. stage' # "plan"
    BY <2>1
  <2> QED
    BY <1>4, <1>6, <1>7, <2>1, <2>2
<1>8. ASSUME part.enable, contract # "none", enabled' = enabled \cup {pocket}, UNCHANGED <<contract, version>>,
             Goto(IF status = "fixed" THEN "upgrade" ELSE "finish"), UNCHANGED context
      PROVE  FixInv'
  <2>1. stage' = (IF status = "fixed" THEN "upgrade" ELSE "finish") /\ pocket' = pocket
        /\ UNCHANGED <<status, unfixed, needs, failed>>
    BY <1>8 DEF Goto, context
  <2>2. PartFits(request.issues[current], part, pocket) /\ pocket \in Pockets
    BY <1>1, PartNow DEF InPart, InSteps
  <2>3. pocket \in Esm
    BY <1>8, <2>2 DEF PartFits
  <2>4. enabled' \in SUBSET Esm /\ contract' \in Contracts /\ version' \in [Binaries -> Nat]
    BY <1>3, <1>8, <2>3
  <2>5. Grown
    BY <1>2, <1>3, <1>8 DEF Grown, Served
  <2>6. World'
    BY <1>1, <1>2, <1>8, <2>1 DEF World
  <2> QED
    BY <1>6, <1>8, <2>1, <2>4, <2>5, <2>6
<1>9. ASSUME Fail(part.packages, "still-affected"), UNCHANGED host PROVE FixInv'
  <2>1. stage' # "plan"
    BY <1>9 DEF Fail, Goto, Advance
  <2> QED
    BY <1>1, <1>4, <1>9, <2>1, Failed
<1> QED
  BY <1>5, <1>7, <1>8, <1>9 DEF CliEnable

LEMMA ApiNeedsHolds == ASSUME FixInv, ApiNeeds PROVE FixInv'
<1>1. /\ stage \in {"attach", "enable"} /\ request.by = "api" /\ InPart /\ FixTypeOK /\ Keep
      /\ UNCHANGED host /\ stage' = (IF stage = "attach" THEN "enable" ELSE "upgrade") /\ pocket' = pocket
  BY DEF ApiNeeds, InPart, FixInv, Goto
<1>2. request' = request /\ UNCHANGED ask /\ stage' # "plan" /\ UNCHANGED elsewhere
  BY <1>1 DEF Keep, ask
<1>3. Grown /\ World' /\ version' \in [Binaries -> Nat] /\ enabled' = enabled
      /\ contract' \in Contracts /\ enabled' \in SUBSET Esm
  BY <1>1, <1>2, SameHost DEF host, FixTypeOK
<1>4. CASE IF stage = "attach" THEN part.attach # "no" ELSE part.enable
  <2>1. /\ unfixed' = unfixed \cup part.packages /\ status' = "still-affected"
        /\ needs' = TRUE /\ failed' = TRUE
    BY <1>4 DEF ApiNeeds
  <2>2. ~Clean'
    BY <1>1, <1>2, <2>1 DEF Clean
  <2>3. part.packages \in SUBSET Sources /\ unfixed \in SUBSET Sources
    BY <1>1, PartNow DEF InPart, InSteps, FixTypeOK
  <2>4. unfixed' \in SUBSET Sources /\ status' \in Statuses \ {"not-affected"}
        /\ stage' \in {"enable", "upgrade", "finish"}
    BY <1>1, <2>1, <2>3 DEF Statuses
  <2> QED
    BY <1>1, <1>3, <2>1, <2>2, <2>4, Unclean
<1>5. CASE ~(IF stage = "attach" THEN part.attach # "no" ELSE part.enable)
  <2>1. UNCHANGED <<status, unfixed, needs, failed>>
    BY <1>5 DEF ApiNeeds, context
  <2>2. stage' = "upgrade" /\ pocket \in Esm \ withdrawn => pocket \in enabled
    BY <1>1, <1>5, OnAlready
  <2> QED
    BY <1>1, <1>3, <2>1, <2>2, NextStep
<1> QED
  BY <1>4, <1>5

\* apt-get install brings what was offered.
LEMMA Brings ==
    ASSUME FixInv, InPart, UNCHANGED <<ask, elsewhere>>, stage' # "plan", NEW some \in SUBSET part.upgrade, Upgraded(some)
    PROVE  /\ Grown /\ World' /\ version' \in [Binaries -> Nat]
           /\ contract' \in Contracts /\ enabled' \in SUBSET Esm /\ enabled' = enabled
           /\ \A b \in some : version'[b] >= Offered(b)
<1>1. FixTypeOK /\ World /\ InSteps /\ request' = request /\ machine' = machine
      /\ withdrawn' = withdrawn
  BY DEF FixInv, InPart, InSteps, ask, elsewhere
<1>2. /\ PartFits(request.issues[current], part, pocket) /\ part.outdated \in SUBSET Binaries
      /\ part.upgrade \in SUBSET part.outdated
  BY <1>1, PartNow
<1>3. /\ version' = [b \in Binaries |-> IF b \in some THEN Larger(version[b], Offered(b)) ELSE version[b]]
      /\ contract' = contract /\ enabled' = enabled
  BY DEF Upgraded
<1>4. version \in [Binaries -> Nat] /\ contract \in Contracts /\ enabled \in SUBSET Esm
  BY <1>1 DEF FixTypeOK
<1>5. ASSUME NEW b \in Binaries
      PROVE  /\ version'[b] \in Nat /\ version'[b] >= version[b] /\ (version'[b] > 0 <=> version[b] > 0)
             /\ b \in some => version'[b] >= Offered(b)
  <2>1. Offered(b) \in Nat
    <3>1. machine.standard[b] \in Nat /\ machine.esm[b] \in Nat
      BY <1>1, RequestTypes DEF MachineType
    <3> QED
      BY <3>1 DEF Offered, Larger
  <2>2. version[b] \in Nat
    BY <1>4
  <2>3. CASE b \in some
    <3>1. machine.version[b] > 0
      BY <1>2, <2>3 DEF PartFits
    <3>2. version[b] > 0
      BY <1>1, <3>1 DEF World
    <3>3. version'[b] = Larger(version[b], Offered(b))
      BY <1>3, <2>3
    <3> QED
      BY <2>1, <2>2, <3>2, <3>3 DEF Larger
  <2>4. CASE b \notin some
    BY <1>3, <2>2, <2>4
  <2> QED
    BY <2>3, <2>4
<1>6. version' \in [Binaries -> Nat]
  <2>1. version' = [b \in Binaries |-> version'[b]]
    BY <1>3
  <2> QED
    BY <1>5, <2>1
<1>7. Grown
  BY <1>1, <1>3, <1>5 DEF Grown, Served
<1>8. World'
  <2>1. \A b \in Binaries : machine.version[b] \in Nat
    BY <1>1, RequestTypes DEF MachineType
  <2>2. ASSUME NEW b \in Binaries
        PROVE  version'[b] >= machine.version[b] /\ (version'[b] > 0 <=> machine.version[b] > 0)
    <3>1. version[b] >= machine.version[b] /\ (version[b] > 0 <=> machine.version[b] > 0)
      BY <1>1 DEF World
    <3> QED
      BY <1>4, <1>5, <2>1, <3>1
  <2> QED
    BY <1>1, <1>3, <2>2 DEF World
<1>9. \A b \in some : version'[b] >= Offered(b)
  BY <1>2, <1>5
<1> QED
  BY <1>3, <1>4, <1>6, <1>7, <1>8, <1>9

\* A pocket's part of the plan is over, and nothing of it stays outdated.
LEMMA PartOver ==
    ASSUME FixInv, stage = "upgrade", Keep, Advance, Grown, World', version' \in [Binaries -> Nat],
           contract' \in Contracts, enabled' \in SUBSET Esm,
           unfixed' = unfixed, failed' = failed, needs' = needs,
           status' = status \/ (request.by = "cli" /\ status' = "fixed"),
           \A q \in Pockets \ withdrawn : q = pocket /\ Clean /\ ~request.dryRun =>
               Outdated(request.issues[current], q)' = {}
    PROVE  FixInv'
<1>1. InSteps /\ InPart /\ FixTypeOK /\ Placed
  BY DEF InPart, InSteps, FixInv
<1>2. UNCHANGED <<ask, current>> /\ request' = request /\ withdrawn' = withdrawn
  BY DEF Keep, ask, elsewhere
<1>3. plan.kind = "steps" /\ pocket \in Pockets /\ part = plan.part[pocket]
  BY <1>1, PartNow
<1>4. request.by \in {"cli", "api"}
  BY <1>1, RequestTypes
<1>5. Clean' <=> Clean
  BY <1>2, <1>4 DEF Clean
<1>6. /\ pocket' \in Pockets /\ stage' \in {"stuck", "finish"}
      /\ \A q \in Pockets : Behind(q)' <=> (Behind(q) \/ q = pocket)
  BY <1>1, <1>3, Advanced
<1>7. \A q \in Pockets : Outdated(request.issues[current], q)' \subseteq Outdated(request.issues[current], q)
  BY <1>1, <1>2, OutdatedNow
<1>8. ~InPart'
  BY <1>6 DEF InPart
<1>9. Clean' => /\ status' = "fixed" /\ plan.notFixed = {} /\ ~needs'
                /\ \A q \in Pockets : request.by = "api" \/ Behind(q)' \/ (InPart' /\ q = pocket') =>
                        plan.part[q].outdated = plan.part[q].upgrade
                /\ ~request.dryRun =>
                      \A q \in Pockets : Behind(q)' => q \in withdrawn' \/ Outdated(request.issues[current], q)' = {}
                /\ stage' = "upgrade" /\ ~request.dryRun /\ pocket' \in Esm \ withdrawn' => pocket' \in enabled'
  <2> SUFFICES ASSUME Clean' PROVE
        /\ status' = "fixed" /\ plan.notFixed = {} /\ ~needs'
        /\ \A q \in Pockets : request.by = "api" \/ Behind(q)' \/ (InPart' /\ q = pocket') =>
                plan.part[q].outdated = plan.part[q].upgrade
        /\ ~request.dryRun => \A q \in Pockets : Behind(q)' => q \in withdrawn' \/ Outdated(request.issues[current], q)' = {}
        /\ stage' = "upgrade" /\ ~request.dryRun /\ pocket' \in Esm \ withdrawn' => pocket' \in enabled'
    OBVIOUS
  <2>1. /\ status = "fixed" /\ plan.notFixed = {} /\ ~needs
        /\ \A q \in Pockets : request.by = "api" \/ Behind(q) \/ q = pocket =>
                plan.part[q].outdated = plan.part[q].upgrade
        /\ ~request.dryRun => \A q \in Pockets : Behind(q) => q \in withdrawn \/ Outdated(request.issues[current], q) = {}
    BY <1>1, <1>5, GoingNow
  <2>2. stage' # "upgrade"
    BY <1>6
  <2>3. status' = "fixed" /\ ~needs'
    BY <2>1
  <2>4. ASSUME NEW q \in Pockets, request.by = "api" \/ Behind(q)' \/ (InPart' /\ q = pocket')
        PROVE  plan.part[q].outdated = plan.part[q].upgrade
    BY <1>6, <1>8, <2>1, <2>4
  <2>5. ASSUME ~request.dryRun, NEW q \in Pockets \ withdrawn, Behind(q)'
        PROVE  Outdated(request.issues[current], q)' = {}
    <3>1. Behind(q) \/ q = pocket
      BY <1>6, <2>5
    <3>2. CASE Behind(q)
      BY <1>7, <2>1, <2>5, <3>2
    <3>3. CASE q = pocket
      BY <1>5, <2>5, <3>3
    <3> QED
      BY <3>1, <3>2, <3>3
  <2> QED
    BY <1>2, <2>1, <2>2, <2>3, <2>4, <2>5
<1>10. Going'
  BY <1>1, <1>2, <1>3, <1>5, <1>9, GoingNow, GoingOn
<1>11. status' \in Statuses /\ unfixed' \in SUBSET Sources /\ needs' \in BOOLEAN /\ failed' \in BOOLEAN
       /\ stage' \in {"stuck", "attach", "enable", "upgrade", "finish"}
  BY <1>1, <1>6 DEF FixTypeOK, Statuses
<1> QED
  BY <1>1, <1>6, <1>8, <1>10, <1>11, Carried

LEMMA UpgradeHolds == ASSUME FixInv, Upgrade PROVE FixInv'
<1>1. stage = "upgrade" /\ InPart /\ InSteps /\ FixTypeOK /\ Keep
  BY DEF Upgrade, InPart, InSteps, FixInv
<1>2. request' = request /\ machine' = machine /\ UNCHANGED ask /\ UNCHANGED <<ask, current>>
      /\ UNCHANGED elsewhere
  BY <1>1 DEF Keep, ask
<1>3. contract \in Contracts /\ enabled \in SUBSET Esm /\ version \in [Binaries -> Nat]
      /\ request.by \in {"cli", "api"}
  BY <1>1, RequestTypes DEF FixTypeOK
<1>4. /\ PartFits(request.issues[current], part, pocket) /\ part = plan.part[pocket] /\ pocket \in Pockets
      /\ Outdated(request.issues[current], pocket) \subseteq part.outdated
      /\ part.outdated \in SUBSET Binaries /\ part.upgrade \in SUBSET part.outdated
  BY <1>1, PartNow
<1>5. Clean => part.outdated = part.upgrade /\ ~needs
               /\ (~request.dryRun /\ pocket \in Esm \ withdrawn => pocket \in enabled)
  BY <1>1, <1>4, GoingNow
<1>6. stage' # "plan" \/ ~(Advance \/ \E word : Fail(part.packages, word))
  BY DEF Advance, Fail, Goto
<1>7. ASSUME UNCHANGED host, Advance, unfixed' = unfixed, failed' = failed, needs' = needs,
             status' = status \/ (request.by = "cli" /\ status' = "fixed"),
             Clean /\ ~request.dryRun => part.upgrade = {}
      PROVE  FixInv'
  <2>1. Grown /\ World' /\ version' \in [Binaries -> Nat]
    BY <1>1, <1>2, <1>6, <1>7, SameHost
  <2>2. contract' \in Contracts /\ enabled' \in SUBSET Esm
    BY <1>3, <1>7 DEF host
  <2>3. \A q \in Pockets : Outdated(request.issues[current], q)' \subseteq Outdated(request.issues[current], q)
    BY <1>1, <1>2, <2>1, OutdatedNow
  <2>4. Clean /\ ~request.dryRun => Outdated(request.issues[current], pocket) = {}
    BY <1>4, <1>5, <1>7
  <2>6. \A q \in Pockets \ withdrawn : q = pocket /\ Clean /\ ~request.dryRun =>
          Outdated(request.issues[current], q)' = {}
    BY <2>3, <2>4
  <2> QED
    BY <1>1, <1>7, <2>1, <2>2, <2>6, PartOver
<1>8. ASSUME ~request.root, UNCHANGED host, NEW word \in {"error", "still-affected"}, Fail(part.packages, word)
      PROVE  FixInv'
  <2>1. Grown /\ World' /\ version' \in [Binaries -> Nat]
    BY <1>1, <1>2, <1>6, <1>8, SameHost
  <2>2. contract' \in Contracts /\ enabled' \in SUBSET Esm
    BY <1>3, <1>8 DEF host
  <2> QED
    BY <1>1, <1>8, <2>1, <2>2, Failed
<1>9. ASSUME NEW some \in SUBSET part.upgrade, Upgraded(some), Fail(part.packages, "still-affected")
      PROVE  FixInv'
  <2>1. /\ Grown /\ World' /\ version' \in [Binaries -> Nat]
        /\ contract' \in Contracts /\ enabled' \in SUBSET Esm
    BY <1>1, <1>2, <1>6, <1>9, Brings
  <2> QED
    BY <1>1, <1>9, <2>1, Failed
<1>10. ASSUME Upgraded(part.upgrade), Advance, unfixed' = unfixed, failed' = failed, needs' = needs,
              status' = status \/ (request.by = "cli" /\ status' = "fixed"), ~request.dryRun
       PROVE  FixInv'
  <2>1. /\ Grown /\ World' /\ version' \in [Binaries -> Nat]
        /\ contract' \in Contracts /\ enabled' \in SUBSET Esm
        /\ \A b \in part.upgrade : version'[b] >= Offered(b)
    BY <1>1, <1>2, <1>6, <1>10, Brings
  <2>2. ASSUME Clean, NEW q \in Pockets \ withdrawn, q = pocket, NEW b \in Outdated(request.issues[current], q)'
        PROVE  FALSE
    <3>1. b \in Outdated(request.issues[current], pocket)
      <4>1. Outdated(request.issues[current], q)' \subseteq Outdated(request.issues[current], q)
        BY <1>1, <1>2, <2>1, OutdatedNow
      <4> QED
        BY <2>2, <4>1
    <3>2. /\ b \in Binaries /\ machine.pocket[SourceOf[b]] = pocket
          /\ b \in part.upgrade
      BY <1>4, <1>5, <2>2, <3>1 DEF Outdated, PackagesIn
    <3>3. Fixing(request.issues[current], b) <= Highest(b, pocket)
      BY <1>4, <3>2 DEF PartFits
    <3>4. Offered(b) = Highest(b, pocket)
      <4>1. CASE pocket \in Esm
        BY <1>5, <1>10, <2>2, <3>2, <4>1 DEF Offered, Highest
      <4>2. CASE pocket \notin Esm
        BY <1>3, <3>2, <4>2 DEF Offered, Highest
      <4> QED
        BY <4>1, <4>2
    <3>5. current \in DOMAIN request.issues /\ Fixing(request.issues[current], b) \in Nat
      BY <1>1, <3>2, Standing, FixingIsVersion DEF FixInv
    <3>6. /\ version'[b] \in Nat /\ Offered(b) \in Nat
      <4>1. machine.standard[b] \in Nat /\ machine.esm[b] \in Nat
        BY <1>1, <3>2, RequestTypes DEF MachineType
      <4> QED
        BY <2>1, <3>2, <4>1 DEF Offered, Larger
    <3>7. Fixing(request.issues[current], b) > version'[b]
      <4>1. (Fixing(request.issues[current], b))' > version'[b]
        BY <2>2 DEF Outdated
      <4>2. (Fixing(request.issues[current], b))' = Fixing(request.issues[current], b)
        BY <1>1, <1>2 DEF Fixing, Keep, ask
      <4> QED
        BY <4>1, <4>2
    <3> QED
      BY <2>1, <3>2, <3>3, <3>4, <3>5, <3>6, <3>7
  <2> QED
    BY <1>1, <1>10, <2>1, <2>2, PartOver
<1>11. CASE request.by = "api" /\ (needs \/ part.upgrade = {})
  <2>1. Advance /\ UNCHANGED host /\ UNCHANGED <<status, unfixed, needs, failed>>
    BY <1>11 DEF Upgrade, context
  <2> QED
    BY <1>5, <1>7, <1>11, <2>1
<1>12. CASE request.by = "cli" /\ (request.dryRun \/ part.upgrade = {})
  <2>1. Advance /\ UNCHANGED host /\ status' = "fixed" /\ UNCHANGED <<unfixed, needs, failed>>
    BY <1>12 DEF Upgrade, Settle
  <2> QED
    BY <1>7, <1>12, <2>1
<1>13. CASE /\ ~(request.by = "api" /\ (needs \/ part.upgrade = {}))
            /\ ~(request.by = "cli" /\ (request.dryRun \/ part.upgrade = {}))
  <2>1. ~request.dryRun
    BY <1>1, <1>3, <1>13, RequestTypes
  <2>2. CASE ~request.root
    <3>1. Fail(part.packages, IF request.by = "api" THEN "error" ELSE "still-affected") /\ UNCHANGED host
      BY <1>13, <2>2 DEF Upgrade
    <3>2. CASE request.by = "api"
      BY <1>8, <2>2, <3>1, <3>2
    <3>3. CASE request.by # "api"
      BY <1>8, <2>2, <3>1, <3>3
    <3> QED
      BY <3>2, <3>3
  <2>3. CASE request.root
    <3>1. \/ /\ Upgraded(part.upgrade) /\ Advance
             /\ Settle(IF request.by = "cli" THEN "fixed" ELSE status)
          \/ /\ \E some \in SUBSET part.upgrade : Upgraded(some)
             /\ Fail(part.packages, "still-affected")
      BY <1>13, <2>3 DEF Upgrade
    <3>2. CASE /\ Upgraded(part.upgrade) /\ Advance
               /\ Settle(IF request.by = "cli" THEN "fixed" ELSE status)
      <4>1. status' = (IF request.by = "cli" THEN "fixed" ELSE status) /\ UNCHANGED <<unfixed, needs, failed>>
        BY <3>2 DEF Settle
      <4> QED
        BY <1>10, <2>1, <3>2, <4>1
    <3> QED
      BY <1>9, <3>1, <3>2
  <2> QED
    BY <2>2, <2>3
<1> QED
  BY <1>11, <1>12, <1>13

-----------------------------------------------------------------------------
(* What is reported. *)

\* A good word about the issue is true.
LEMMA WordIsTrue ==
    ASSUME FixInv, stage = "finish", NEW word \in Good, Final(word), ~request.dryRun
    PROVE  Dealt(current)
<1>1. FixTypeOK /\ Placed /\ Going /\ Fits
  BY DEF FixInv
<1>2. plan \in PlanType /\ current \in DOMAIN request.issues /\ request.by \in {"cli", "api"}
  BY <1>1, Standing, RequestTypes
<1>3. PlanFits(request.issues[current], plan)
  BY <1>1, Standing DEF Fits, plan
<1>4. plan.kind \in {"patched", "error", "not-affected", "steps"}
  BY <1>2, PlanIsTyped DEF Pockets
<1>5. CASE plan.kind = "patched"
  BY <1>5 DEF Dealt, plan
<1>6. CASE plan.kind = "error"
  <2>1. status = "error" /\ unfixed = {}
    BY <1>1, <1>6 DEF Going
  <2> QED
    BY <1>2, <2>1 DEF Final, Good
<1>7. CASE plan.kind = "not-affected"
  <2>1. Affected(request.issues[current]) = {}
    BY <1>3, <1>7 DEF PlanFits
  <2>2. Released(request.issues[current]) = {}
    BY <2>1 DEF Released
  <2>3. \A q \in Pockets : Outdated(request.issues[current], q) = {}
    BY <2>2 DEF Outdated, PackagesIn
  <2> QED
    BY <2>1, <2>2, <2>3 DEF Dealt, Vulnerable
<1>8. CASE plan.kind = "steps"
  <2>1. status # "not-affected"
    BY <1>1, <1>8 DEF Going
  <2>2. Clean
    BY <1>2, <2>1 DEF Clean, Final, Good
  <2>3. plan.notFixed = {} /\ \A q \in Pockets : Behind(q) => q \in withdrawn \/ Outdated(request.issues[current], q) = {}
    BY <1>1, <1>8, <2>2 DEF Going
  <2>4. \A q \in Pockets : Behind(q)
    BY DEF Behind
  <2>5. plan.notFixed = Affected(request.issues[current]) \ Released(request.issues[current])
    BY <1>3, <1>8 DEF PlanFits
  <2>6. Released(request.issues[current]) \subseteq Affected(request.issues[current])
    BY DEF Released
  <2>7. Affected(request.issues[current]) = Released(request.issues[current])
    BY <2>3, <2>5, <2>6
  <2> QED
    BY <2>3, <2>4, <2>7 DEF Dealt, Vulnerable
<1> QED
  BY <1>4, <1>5, <1>6, <1>7, <1>8

\* If no step failed the word is one the plan made the user expect.
LEMMA WordAsExpected ==
    ASSUME FixInv, stage = "finish", NEW word \in Statuses, Final(word), ~failed
    PROVE  Foreseen(plan, word)
<1>1. FixTypeOK /\ Placed /\ Going
  BY DEF FixInv
<1>2. plan \in PlanType /\ request.by \in {"cli", "api"}
  BY <1>1, Standing, RequestTypes
<1>3. plan.kind \in {"patched", "error", "not-affected", "steps"} /\ plan.warned \in BOOLEAN
  BY <1>2, PlanIsTyped DEF Pockets
<1>4. CASE plan.kind # "steps"
  <2>1. unfixed = {} /\ (plan.kind \in {"not-affected", "error"} => status = plan.kind)
        /\ (plan.kind = "patched" => status = "fixed")
    BY <1>1, <1>4 DEF Going
  <2>2. Expected(plan) = IF plan.kind = "patched" THEN "fixed" ELSE plan.kind
    BY <1>3, <1>4 DEF Expected
  <2> QED
    BY <1>3, <1>4, <2>1, <2>2 DEF Final, Foreseen
<1>5. CASE plan.kind = "steps"
  <2>1. CASE Clean
    <3>1. status = "fixed" /\ plan.notFixed = {}
      BY <1>1, <1>5, <2>1 DEF Going
    <3>2. \A q \in Pockets : plan.part[q].outdated = plan.part[q].upgrade
      BY <1>1, <1>5, <2>1 DEF Going, Behind
    <3>3. ~plan.warned => Expected(plan) = "fixed"
      BY <1>5, <3>1, <3>2 DEF Expected
    <3>4. plan.warned => Expected([plan EXCEPT !.warned = FALSE]) = "fixed"
      <4> DEFINE calm == [plan EXCEPT !.warned = FALSE]
      <4>1. calm.kind = plan.kind /\ calm.notFixed = plan.notFixed /\ calm.part = plan.part /\ ~calm.warned
        BY <1>2 DEF PlanType
      <4> HIDE DEF calm
      <4>2. Expected(calm) = "fixed"
        BY <1>5, <3>1, <3>2, <4>1 DEF Expected
      <4> QED
        BY <4>2 DEF calm
    <3>5. word \in {"fixed", "affected-until-reboot"}
      BY <1>2, <2>1, <3>1 DEF Final, Clean
    <3> QED
      BY <3>3, <3>4, <3>5 DEF Foreseen
  <2>2. CASE ~Clean
    <3>1. Short(plan) /\ status \in {"fixed", "still-affected"}
      BY <1>1, <1>5, <2>2 DEF Going
    <3>2. Expected(plan) = "still-affected"
      BY <1>5, <3>1 DEF Expected, Short
    <3>3. word = "still-affected"
      BY <1>1, <1>2, <2>2, <3>1 DEF Final, Clean
    <3> QED
      BY <3>2, <3>3 DEF Foreseen
  <2> QED
    BY <2>1, <2>2
<1> QED
  BY <1>4, <1>5

LEMMA CombinedGood ==
    ASSUME NEW soFar, NEW word
    PROVE  /\ Combined(soFar, word) \in Good => soFar \in Good /\ word \in Good
           /\ Combined(soFar, word) \in {soFar, word}
           /\ Combined("not-affected", word) = word
BY DEF Combined, Good

LEMMA FinishHolds == ASSUME FixInv, Finish PROVE FixInv'
<1>1. /\ stage = "finish" /\ FixTypeOK /\ Placed /\ Told /\ Fits /\ World /\ UNCHANGED ask /\ UNCHANGED host
      /\ Going /\ UNCHANGED elsewhere
  BY DEF Finish, FixInv, ask, host, elsewhere
<1>2. /\ request' = request /\ machine' = machine /\ plans' = plans
      /\ contract' = contract /\ enabled' = enabled /\ version' = version
      /\ seen' = seen /\ others' = others /\ withdrawn' = withdrawn
  BY <1>1 DEF ask, host, elsewhere
<1>3. PICK word \in Statuses :
        /\ Final(word)
        /\ overall' = IF request.about = "cve" \/ current = 1 THEN Combined(overall, word) ELSE overall
        /\ IF Continues(word)
           THEN /\ current' = current + 1 /\ stage' = "warnings" /\ pocket' = "standard-updates"
                /\ status' = "fixed" /\ unfixed' = {} /\ needs' = FALSE /\ failed' = failed
           ELSE Goto("end") /\ UNCHANGED <<current, context>>
  BY DEF Finish
<1>4. /\ plans \in Seq(PlanType) /\ DOMAIN plans \subseteq DOMAIN request.issues
      /\ DOMAIN request.issues = 1..Len(request.issues) /\ Len(request.issues) \in Nat
      /\ DOMAIN plans = 1..Len(plans) /\ Len(plans) \in Nat
      /\ current \in 1..Len(plans) /\ request.about \in {"cve", "usn"}
  BY <1>1, Standing, PlanPlaces, RequestTypes
<1>5. CASE Continues(word)
  <2>1. /\ current' = current + 1 /\ stage' = "warnings" /\ pocket' = "standard-updates"
        /\ status' = "fixed" /\ unfixed' = {} /\ needs' = FALSE /\ failed' = failed
        /\ current < Len(plans)
    BY <1>3, <1>5 DEF Continues
  <2>2. overall' \in Statuses
    BY <1>1, <1>3, CombinedGood DEF FixTypeOK
  <2>3. FixTypeOK'
    <3>1. current' \in 1..Len(request.issues)
      <4>0. Len(plans) \in Nat /\ current \in Nat
        BY <1>4
      <4>1. PICK m \in Nat, n \in Nat : m = Len(plans) /\ n = current
        BY <4>0
      <4>2. n + 1 \in 1..m
        BY <1>4, <2>1, <4>1
      <4> QED
        BY <1>4, <2>1, <4>1, <4>2
    <3>2. stage' \in Stages /\ pocket' \in Pockets /\ status' \in Statuses
          /\ unfixed' \in SUBSET Sources /\ needs' \in BOOLEAN /\ failed' \in BOOLEAN
      BY <1>1, <2>1 DEF FixTypeOK, Stages, Statuses, Pockets
    <3> QED
      BY <1>1, <1>2, <2>2, <3>1, <3>2 DEF FixTypeOK
  <2>4. Grown /\ World' /\ version' \in [Binaries -> Nat]
    BY <1>1, <2>1, SameHost
  <2>5. Fits'
    BY <1>1, <2>4, FitsStays
  <2>6. Placed'
    <3>1. current' \in DOMAIN plans
      <4>0. Len(plans) \in Nat /\ current \in Nat
        BY <1>4
      <4>1. PICK m \in Nat, n \in Nat : m = Len(plans) /\ n = current
        BY <4>0
      <4> QED
        BY <1>4, <2>1, <4>1
    <3> QED
      BY <1>1, <1>2, <2>1, <3>1 DEF Placed, InSteps, InPart
  <2>7. Going'
    BY <2>1 DEF Going, InSteps
  <2>8. Told'
    <3>1. ASSUME overall' \in Good, ~request.dryRun, NEW i \in DOMAIN plans, Counts(i),
                 i < current + 1
          PROVE  Dealt(i)'
      <4>1. Dealt(i)
        <5>1. CASE i < current
          <6>1. overall \in Good
            BY <1>3, <3>1, CombinedGood
          <6> QED
            BY <1>1, <3>1, <5>1, <6>1 DEF Told, Over
        <5>2. CASE i = current
          <6>1. word \in Good
            BY <1>3, <3>1, <5>2, CombinedGood DEF Counts
          <6> QED
            BY <1>1, <1>3, <3>1, <5>2, <6>1, WordIsTrue
        <5> QED
          BY <1>4, <3>1, <5>1, <5>2
      <4> QED
        BY <1>1, <1>4, <2>4, <3>1, <4>1, DealtStays
    <3>2. \A i : Counts(i)' <=> Counts(i)
      BY <1>2 DEF Counts
    <3>3. Len(plans) # 1
      <4>1. Len(plans) \in Nat /\ current \in Nat /\ current >= 1 /\ current < Len(plans)
        BY <1>4, <2>1
      <4>2. PICK n \in Nat, m \in Nat : n = Len(plans) /\ m = current
        BY <4>1
      <4>3. m >= 1 /\ m < n
        BY <4>1, <4>2
      <4>4. n # 1
        BY <4>3
      <4> QED
        BY <4>1, <4>2, <4>4
    <3> QED
      BY <1>2, <2>1, <3>1, <3>2, <3>3 DEF Told, Over
  <2> QED
    BY <2>3, <2>4, <2>5, <2>6, <2>7, <2>8 DEF FixInv
<1>6. CASE ~Continues(word)
  <2>1. /\ current' = current /\ stage' = "end" /\ pocket' = pocket
        /\ status' = status /\ unfixed' = unfixed /\ needs' = needs /\ failed' = failed
    BY <1>3, <1>6 DEF Goto, context
  <2>2. overall' \in Statuses
    BY <1>1, <1>3, CombinedGood DEF FixTypeOK
  <2>3. FixTypeOK'
    BY <1>1, <1>2, <2>1, <2>2 DEF FixTypeOK, Stages
  <2>4. Grown /\ World' /\ version' \in [Binaries -> Nat]
    BY <1>1, <2>1, SameHost
  <2>5. Fits'
    BY <1>1, <2>4, FitsStays
  <2>6. Placed'
    BY <1>1, <1>2, <2>1 DEF Placed, InSteps, InPart
  <2>7. plan' = plan /\ (Clean' <=> Clean) /\ request.issues' = request.issues
    BY <1>2, <2>1 DEF plan, Clean
  <2>8. \A q \in Pockets : Behind(q)' /\ Behind(q)
    BY <1>1, <2>1 DEF Behind
  <2>9. \A q \in Pockets : Outdated(request.issues[current], q)' \subseteq Outdated(request.issues[current], q)
    <3>1. PICK i \in DOMAIN request.issues : i = current
      BY <1>4
    <3>2. \A q \in Pockets : Outdated(request.issues[i], q)' \subseteq Outdated(request.issues[i], q)
      BY <1>1, <2>4, OutdatedShrinks
    <3> QED
      BY <1>2, <2>1, <3>1, <3>2
  <2>10. Going'
    <3>1. Short(plan)' <=> Short(plan)
      BY <2>7 DEF Short
    <3>2. /\ plan.kind \in {"not-affected", "error"} => status = plan.kind
          /\ plan.kind = "patched" => status = "fixed"
          /\ plan.kind # "steps" => unfixed = {}
          /\ plan.kind = "steps" => status # "not-affected"
          /\ plan.kind = "steps" /\ Clean =>
              /\ status = "fixed" /\ plan.notFixed = {} /\ ~needs
              /\ \A q \in Pockets : plan.part[q].outdated = plan.part[q].upgrade
              /\ ~request.dryRun =>
                    \A q \in Pockets : q \in withdrawn \/ Outdated(request.issues[current], q) = {}
          /\ plan.kind = "steps" /\ ~failed =>
              status \in {"fixed", "still-affected"} /\ (~Clean => Short(plan))
      BY <1>1, <2>8 DEF Going
    <3>3. stage' # "upgrade"
      BY <2>1
    <3>4. plan.kind = "steps" /\ Clean' /\ ~request.dryRun =>
             \A q \in Pockets : q \in withdrawn \/ Outdated(request.issues[current], q)' = {}
      BY <2>7, <2>9, <3>2
    <3> QED
      BY <1>2, <2>1, <2>7, <2>8, <3>1, <3>2, <3>3, <3>4 DEF Going
  <2>11. Told'
    <3>1. ASSUME overall' \in Good, ~request.dryRun, NEW i \in DOMAIN plans, Counts(i), Over(i)'
          PROVE  Dealt(i)'
      <4>1. Dealt(i)
        <5>1. CASE i < current
          <6>1. overall \in Good
            BY <1>3, <3>1, CombinedGood
          <6> QED
            BY <1>1, <3>1, <5>1, <6>1 DEF Told, Over
        <5>2. CASE i = current
          <6>1. word \in Good
            BY <1>3, <3>1, <5>2, CombinedGood DEF Counts
          <6> QED
            BY <1>1, <1>3, <3>1, <5>2, <6>1, WordIsTrue
        <5> QED
          BY <2>1, <3>1, <5>1, <5>2 DEF Over
      <4> QED
        BY <1>1, <1>4, <2>4, <3>1, <4>1, DealtStays
    <3>2. \A i : Counts(i)' <=> Counts(i)
      BY <1>2 DEF Counts
    <3>3. request.about = "cve" => current = Len(plans)
      <4>1. Len(plans) \in Nat /\ current \in Nat /\ current <= Len(plans)
        BY <1>4
      <4>2. request.about = "cve" => ~(current < Len(plans))
        BY <1>6 DEF Continues
      <4> QED
        BY <4>1, <4>2
    <3>4. ASSUME Len(plans) = 1, ~failed
          PROVE  Foreseen(plans[1], overall')
      <4>1. current = 1 /\ overall = "not-affected" /\ plan = plans[1]
        BY <1>1, <1>4, <3>4 DEF Told, plan
      <4>2. overall' = word
        BY <1>3, <4>1, CombinedGood
      <4> QED
        BY <1>1, <1>3, <3>4, <4>1, <4>2, WordAsExpected
    <3>5. Foreseen(plans[1], overall)' <=> Foreseen(plans[1], overall')
      BY <1>2 DEF Foreseen, Expected
    <3> QED
      BY <1>2, <2>1, <3>1, <3>2, <3>3, <3>4, <3>5 DEF Told
  <2> QED
    BY <2>3, <2>4, <2>5, <2>6, <2>10, <2>11 DEF FixInv
<1> QED
  BY <1>5, <1>6

LEMMA ElsewhereHolds == ASSUME FixInv, SubscribeElsewhere PROVE FixInv'
<1>1. /\ stage \notin {"end", "raise"} /\ UNCHANGED ask
      /\ current' = current /\ stage' = stage /\ pocket' = pocket /\ overall' = overall
      /\ status' = status /\ unfixed' = unfixed /\ needs' = needs /\ failed' = failed
      /\ FixTypeOK /\ Placed /\ World /\ Going /\ Fits /\ Told
  BY DEF SubscribeElsewhere, FixInv, context, ask
<1>2. request' = request /\ machine' = machine /\ plans' = plans /\ seen' = seen
  BY <1>1 DEF ask
<1>3. PICK to \in Contracts, services \in SUBSET Esm :
        /\ IF to = "none" THEN contract # "none" /\ services = {}
           ELSE to = contract \/ (contract = "none" /\ to \in {"active", "expired"})
        /\ Attached(to, services)
        /\ withdrawn' = withdrawn \cup (enabled \ services)
  BY DEF SubscribeElsewhere
<1>4. /\ others' \in 0..MaxOthers /\ withdrawn' \in SUBSET Esm /\ withdrawn \subseteq withdrawn'
  BY <1>1, <1>3, OthersAssumption DEF SubscribeElsewhere, FixTypeOK
<1>5. \A q \in Esm : Served(q) => q \in withdrawn' \/ (q \in services /\ to = "active")
  BY <1>3 DEF Served
<1>6. /\ Grown /\ World' /\ version' \in [Binaries -> Nat]
      /\ contract' \in Contracts /\ enabled' \in SUBSET Esm
  BY <1>1, <1>2, <1>3, <1>4, <1>5, NewContract
<1>7. FixTypeOK'
  BY <1>1, <1>2, <1>4, <1>6 DEF FixTypeOK
<1>8. Fits'
  BY <1>1, <1>6, FitsStays
<1>9. Told'
  <2>1. CASE stage = "plan"
    BY <1>1, <2>1 DEF Told
  <2>2. CASE stage # "plan"
    BY <1>1, <1>6, <2>2, ToldStays
  <2> QED
    BY <2>1, <2>2
<1>10. plan' = plan /\ part' = part
  BY <1>1, <1>2 DEF plan, part
<1>11. Placed'
  BY <1>1, <1>2, <1>10 DEF Placed, InSteps, InPart
<1>12. Going'
  <2>1. CASE stage \in {"plan", "warnings"}
    BY <1>1, <2>1 DEF Going, InSteps
  <2>2. CASE stage \notin {"plan", "warnings"}
    <3>1. (Clean' <=> Clean) /\ (Short(plan)' <=> Short(plan)) /\ (InPart' <=> InPart)
          /\ \A q \in Pockets : Behind(q)' <=> Behind(q)
      BY <1>1, <1>2, <1>10 DEF Clean, Short, InPart, Behind
    <3>2. \A q \in Pockets : Outdated(request.issues[current], q)' = Outdated(request.issues[current], q)
      <4>1. version' = version
        BY <1>3 DEF Attached
      <4> QED
        BY <1>1, <1>2, <4>1 DEF Outdated, PackagesIn, Released, Affected, Installed, Noticed, Fixing
    <3>3. \A q \in Esm : q \in enabled => q \in enabled' \/ q \in withdrawn'
      BY <1>3 DEF Attached
    <3>4. InSteps \/ stage \in {"finish", "end"}
      BY <1>1, <2>2 DEF FixTypeOK, Stages, InSteps
    <3>5. /\ plan.kind \in {"not-affected", "error"} => status = plan.kind
          /\ plan.kind = "patched" => status = "fixed"
          /\ plan.kind # "steps" => unfixed = {}
          /\ plan.kind = "steps" => status # "not-affected"
          /\ plan.kind = "steps" /\ ~failed =>
              status \in {"fixed", "still-affected"} /\ (~Clean => Short(plan))
      BY <1>1, <3>4 DEF Going
    <3>6. plan.kind = "steps" /\ Clean =>
              /\ status = "fixed" /\ plan.notFixed = {} /\ ~needs
              /\ \A q \in Pockets : request.by = "api" \/ Behind(q) \/ (InPart /\ q = pocket) =>
                      plan.part[q].outdated = plan.part[q].upgrade
              /\ ~request.dryRun =>
                   \A q \in Pockets : Behind(q) => q \in withdrawn \/ Outdated(request.issues[current], q) = {}
              /\ stage = "upgrade" /\ ~request.dryRun /\ pocket \in Esm \ withdrawn => pocket \in enabled
      BY <1>1, <3>4 DEF Going
    <3>7. plan.kind = "steps" /\ Clean' =>
              /\ status' = "fixed" /\ plan.notFixed = {} /\ ~needs'
              /\ \A q \in Pockets : request.by = "api" \/ Behind(q)' \/ (InPart' /\ q = pocket') =>
                      plan.part[q].outdated = plan.part[q].upgrade
              /\ ~request.dryRun =>
                   \A q \in Pockets : Behind(q)' => q \in withdrawn' \/ Outdated(request.issues[current], q)' = {}
              /\ stage' = "upgrade" /\ ~request.dryRun /\ pocket' \in Esm \ withdrawn' => pocket' \in enabled'
      BY <1>1, <1>4, <3>1, <3>2, <3>3, <3>6
    <3> QED
      BY <1>1, <1>2, <1>10, <3>1, <3>5, <3>7 DEF Going
  <2> QED
    BY <2>1, <2>2
<1> QED
  BY <1>6, <1>7, <1>8, <1>9, <1>11, <1>12 DEF FixInv

LEMMA StutterHolds == ASSUME FixInv, UNCHANGED fixVars PROVE FixInv'
<1>1. /\ request' = request /\ machine' = machine /\ plans' = plans /\ contract' = contract
      /\ enabled' = enabled /\ version' = version /\ current' = current /\ stage' = stage
      /\ pocket' = pocket /\ status' = status /\ unfixed' = unfixed /\ needs' = needs
      /\ failed' = failed /\ overall' = overall /\ seen' = seen /\ others' = others
      /\ withdrawn' = withdrawn
  BY DEF fixVars, ask, host, elsewhere, context
<1>2. FixTypeOK' /\ World'
  BY <1>1 DEF FixInv, FixTypeOK, World
<1>3. Placed'
  BY <1>1 DEF FixInv, Placed, InSteps, InPart, plan, part
<1>4. /\ Clean' <=> Clean
      /\ \A q \in Pockets : Behind(q)' <=> Behind(q)
      /\ \A i : (Counts(i)' <=> Counts(i)) /\ (Over(i)' <=> Over(i))
  BY <1>1 DEF Clean, Behind, Counts, Over
<1>5. /\ \A issue : Affected(issue)' = Affected(issue) /\ Released(issue)' = Released(issue)
      /\ \A issue, q : PackagesIn(issue, q)' = PackagesIn(issue, q) /\ Outdated(issue, q)' = Outdated(issue, q)
  BY <1>1 DEF Outdated, PackagesIn, Released, Affected, Installed, Noticed, Fixing
<1>6. \A i : Dealt(i)' <=> Dealt(i)
  BY <1>1, <1>5 DEF Dealt, Vulnerable
<1>7. Told'
  <2>1. Foreseen(plans[1], overall)' <=> Foreseen(plans[1], overall)
    BY <1>1 DEF Foreseen, Expected
  <2> QED
    BY <1>1, <1>4, <1>6, <2>1 DEF FixInv, Told
<1>8. Going'
  <2>1. plan' = plan /\ (Short(plan)' <=> Short(plan)) /\ (InSteps' <=> InSteps) /\ (InPart' <=> InPart)
    BY <1>1 DEF plan, Short, InSteps, InPart
  <2> QED
    BY <1>1, <1>4, <1>5, <2>1 DEF FixInv, Going
<1>9. Fits'
  <2>1. \A issue, p : PlanFits(issue, p)' <=> PlanFits(issue, p)
    <3>1. \A issue, t, q : PartFits(issue, t, q)' <=> PartFits(issue, t, q)
      <4>1. /\ \A issue, b : Fixing(issue, b)' = Fixing(issue, b)
            /\ \A b, q : Highest(b, q)' = Highest(b, q)
        BY <1>1 DEF Highest, Fixing
      <4> QED
        BY <1>1, <1>5, <4>1 DEF PartFits, Served
    <3> QED
      BY <1>5, <3>1 DEF PlanFits
  <2> QED
    BY <1>1, <2>1 DEF FixInv, Fits
<1> QED
  BY <1>2, <1>3, <1>7, <1>8, <1>9 DEF FixInv

LEMMA FixInductive == FixSpec => []FixInv
<1>1. FixInit => FixInv
  BY InitHolds
<1>2. FixInv /\ [FixNext]_fixVars => FixInv'
  BY MakesPlans, WarningsHold, StuckHolds, CliAttachHolds, CliEnableHolds, ApiNeedsHolds,
     UpgradeHolds, FinishHolds, ElsewhereHolds, StutterHolds DEF FixNext
<1> QED
  BY <1>1, <1>2, PTL DEF FixSpec

\* The plans fit the issues and the machine, and neither planning, the steps nor what other
\* processes do in between leave the types.
THEOREM FixTypeCorrect == FixSpec => []FixTypeOK
<1>1. FixInv => FixTypeOK
  BY DEF FixInv
<1> QED
  BY <1>1, FixInductive, PTL

\* What is reported fixed is fixed, but for the packages of a service that somebody else took
\* away meanwhile, and a plan of which no step fails comes to what it said, for every request,
\* machine and order of failures, refusals and what other processes attach, detach, enable and
\* disable.
THEOREM ReportsAreTrue == FixSpec => []ReportIsTrue
<1>1. FixInv => ReportIsTrue
  <2>1. SUFFICES ASSUME FixInv, stage = "end" PROVE ReportIsTrue
    BY DEF ReportIsTrue
  <2>2. Told /\ FixTypeOK
    BY <2>1 DEF FixInv
  <2>3. ASSUME overall \in Good, ~request.dryRun, NEW i \in DOMAIN plans,
               i = 1 \/ (request.about = "cve" /\ request.by = "api")
        PROVE  plans[i].kind = "patched" \/ ~Vulnerable(request.issues[i])
    <3>1. Counts(i)
      BY <2>3 DEF Counts
    <3>2. /\ i \in 1..Len(plans) /\ Len(plans) \in Nat /\ current \in 1..Len(request.issues)
          /\ Len(request.issues) \in Nat
      BY <2>2, <2>3, PlanPlaces, RequestTypes DEF FixTypeOK
    <3>3. Over(i)
      BY <2>1, <2>2, <2>3, <3>2 DEF Over, Told
    <3> QED
      BY <2>1, <2>2, <2>3, <3>1, <3>3 DEF Told, Dealt
  <2> QED
    BY <2>1, <2>2, <2>3 DEF ReportIsTrue, Told, Foreseen
<1> QED
  BY <1>1, FixInductive, PTL

\* A dry run changes nothing; the API attaches nothing and enables nothing.
THEOREM NothingIsUnasked == FixSpec => NothingUnasked
<1>1. ASSUME FixTypeOK, [FixNext]_fixVars, <<stage, pocket>>' # <<stage, pocket>>
      PROVE  /\ request.dryRun => UNCHANGED host
             /\ request.by = "api" => UNCHANGED <<contract, enabled>>
  <2>1. request.by \in {"cli", "api"} /\ (request.by = "api" => ~request.dryRun)
    BY <1>1, RequestTypes
  <2>2. UNCHANGED host => UNCHANGED <<contract, enabled>>
    BY DEF host
  <2>3. ~UNCHANGED fixVars
    BY <1>1 DEF fixVars
  <2>4. CASE MakePlan \/ Warnings \/ Stuck \/ ApiNeeds \/ Finish
    BY <2>2, <2>4 DEF MakePlan, Warnings, Stuck, ApiNeeds, Finish
  <2>5. CASE CliAttach
    BY <2>5, <2>1 DEF CliAttach
  <2>6. CASE CliEnable
    BY <2>6, <2>1, <2>2 DEF CliEnable
  <2>7. CASE Upgrade
    BY <2>1, <2>2, <2>7 DEF Upgrade, Upgraded
  <2>8. CASE SubscribeElsewhere
    BY <1>1, <2>8 DEF SubscribeElsewhere
  <2> QED
    BY <1>1, <2>3, <2>4, <2>5, <2>6, <2>7, <2>8 DEF FixNext
<1>2. FixTypeOK /\ [FixNext]_fixVars =>
        [<<stage, pocket>>' # <<stage, pocket>> =>
            /\ request.dryRun => UNCHANGED host
            /\ request.by = "api" => UNCHANGED <<contract, enabled>>]_fixVars
  BY <1>1
<1> QED
  BY <1>2, FixTypeCorrect, PTL DEF FixSpec, NothingUnasked

-------------------------------------------------------------------------------
(* ServiceCommands, for every set of services. *)

\* The elements of a sequence.
Members(q) == {q[i] : i \in DOMAIN q}

Off(s) == [do |-> "off", svc |-> s]
On(s) == [do |-> "on", svc |-> s]

\* A turn ends with what it is for.
Aimed(s) ==
    IF agenda = <<>> THEN s \in on <=> cmd.verb = "enable"
    ELSE /\ agenda[Len(agenda)].svc = s
         /\ agenda[Len(agenda)].do \in (IF cmd.verb = "enable" THEN {"enable", "on"}
                                                             ELSE {"disable", "off"})

\* The operations that are left to a turn of enable, for s alone.
EnableAllowed(s, op) ==
    /\ op.do \in {"on", "off"} => op \in cmd.agreed
    /\ op.do = "enable" =>
        /\ cmd.seen \subseteq on
        /\ \A other \in Members(agenda) : other.do \in {"enable", "on"}
        /\ \/ op.svc = s /\ Len(agenda) = 1 /\ on \cap fit \subseteq cmd.seen
           \/ op.svc \in Requires[s] /\ On(op.svc) \in cmd.agreed
    /\ op.do = "disable" => op.svc \in Clashes[s] /\ (op.svc \in fit => Off(op.svc) \in cmd.agreed)

\* The same for disable.
DisableAllowed(s, op) ==
    /\ on \cap fit \subseteq cmd.seen
    /\ op.do \in {"disable", "off"}
    /\ op.do = "off" => op \in cmd.agreed
    /\ op.do = "disable" => /\ op.svc = s \/ s \in Requires[op.svc]
                            /\ op.svc \in fit => Off(op.svc) \in cmd.agreed

\* Only services of the contract are on, or about to be.
Known == on \subseteq entitled /\ \A op \in Members(agenda) : op.do = "on" => op.svc \in entitled

\* The cache is true until something moves.
Cached ==
    /\ cmd.at # "act" => cmd.moved = {} /\ agenda = <<>>
    /\ ~stale /\ cmd.moved = {} => cached = StatusNow

\* A turn has a service.
Turn == cmd.at = "act" => cmd.todo # <<>> /\ Aimed(Head(cmd.todo))

\* A command on one service has one turn.
Once ==
    cmd.at # "idle" /\ cmd.single =>
        /\ Len(cmd.todo) <= 1
        /\ cmd.todo # <<>> => cmd.processed = {} /\ cmd.undone = {}
        /\ cmd.apart => \A s \in cmd.processed : s \in on <=> cmd.verb = "enable"

\* What it did, and what is left of it to do, was agreed to.
Agreed ==
    cmd.at # "idle" /\ cmd.single /\ cmd.apart =>
        /\ cmd.moved \cup cmd.undone \subseteq cmd.agreed
        /\ cmd.at = "choose" /\ cmd.todo # <<>> => cmd.seen = on \cap fit
        /\ cmd.at = "act" =>
            LET s == Head(cmd.todo) IN
            /\ Named(s) \cup Questions(s) \subseteq cmd.agreed
            /\ \A op \in Members(agenda) :
                IF cmd.verb = "enable" THEN EnableAllowed(s, op) ELSE DisableAllowed(s, op)

\* The inductive invariant.
CmdInv == CmdTypeOK /\ Known /\ Cached /\ Turn /\ Once /\ Agreed


-----------------------------------------------------------------------------
(* Sequences of services and of operations. *)

\* A set of numbers has a least one: what induction over a file rests on.
LEMMA LeastNumber == ASSUME NEW T, T \subseteq Nat, T # {} PROVE \E x \in T : \A y \in T : x <= y
<1> DEFINE R == OpToRel(<, Nat)
<1>1. IsWellFoundedOn(R, Nat)
  BY NatLessThanWellFounded
<1>2. \A x, y \in Nat : y < x => <<y, x>> \in R
  BY DEF OpToRel
<1> HIDE DEF R
<1>3. \E x \in T : \A y \in T : ~ (<<y, x>> \in R)
  BY <1>1, WFMin
<1>4. PICK x \in T : \A y \in T : ~ (<<y, x>> \in R)
  BY <1>3
<1>5. ASSUME NEW y \in T PROVE x <= y
  <2>1. x \in Nat /\ y \in Nat
    BY <1>4, <1>5
  <2>2. ~(y < x)
    BY <1>2, <1>4, <2>1
  <2> QED
    BY <2>1, <2>2
<1> QED
  BY <1>4, <1>5

\* order_entitlements_for_enabling lists services of those it is given, each once.
LEMMA InOrderMembers ==
    ASSUME NEW S
    PROVE  /\ InOrder(S) \in Seq(Offers) /\ Members(InOrder(S)) \subseteq S
           /\ \A s : S = {s} => Len(InOrder(S)) <= 1
<1> DEFINE L == Len(EnableOrder)
           Step(f, n) == IF n = 0 THEN <<>>
                         ELSE IF EnableOrder[n] \in S THEN Append(f[n - 1], EnableOrder[n]) ELSE f[n - 1]
           kept == CHOOSE f : f = [n \in 0..L |-> Step(f, n)]
<1>1. InOrder(S) = kept[L]
  BY DEF InOrder
<1>2. L \in Nat /\ DOMAIN EnableOrder = 1..L /\ \A i \in 1..L : EnableOrder[i] \in Offers
  BY OffersAssumption
<1> HIDE DEF L
\* Line by line the function is defined, ...
<1>3. \A n \in 0..L : \E f : f = [m \in 0..n |-> Step(f, m)]
  <2> DEFINE Defined(n) == \E f : f = [m \in 0..n |-> Step(f, m)]
             Undefined == {n \in 0..L : ~Defined(n)}
  <2>3. Defined(0)
    <3> DEFINE f == [m \in 0..0 |-> <<>>]
    <3>1. f = [m \in 0..0 |-> Step(f, m)]
      OBVIOUS
    <3> QED
      BY <3>1
  <2> HIDE DEF Defined
  <2>1. SUFFICES ASSUME Undefined # {} PROVE FALSE
    BY <2>1 DEF Defined
  <2>2. PICK n \in Undefined : \A m \in Undefined : n <= m
    <3>1. Undefined \subseteq Nat
      BY <1>2
    <3> HIDE DEF Undefined
    <3> QED
      BY <2>1, <3>1, LeastNumber
  <2>4. n \in 1..L /\ n - 1 \in 0..L /\ Defined(n - 1)
    <3>1. n \in 0..L /\ n # 0
      BY <2>2, <2>3
    <3>2. n \in 1..L /\ n - 1 \in 0..L /\ ~(n <= n - 1)
      BY <1>2, <3>1
    <3>3. n - 1 \notin Undefined
      BY <2>2, <3>2
    <3> QED
      BY <3>2, <3>3
  <2>5. PICK f : f = [m \in 0..(n - 1) |-> Step(f, m)]
    BY <2>4 DEF Defined
  <2>8. \A m \in 0..(n - 1) : f[m] = Step(f, m)
    <3> HIDE DEF Step
    <3> QED
      BY <2>5
  <2> DEFINE g == [m \in 0..n |-> IF m = n THEN Step(f, n) ELSE f[m]]
  <2>6. ASSUME NEW m \in 0..n PROVE g[m] = Step(g, m)
    <3>1. CASE m = 0
      <4>1. 0 \in 0..(n - 1) /\ 0 # n
        BY <1>2, <2>4
      <4> QED
        BY <2>8, <3>1, <4>1
    <3>2. CASE m # 0
      <4>1. m - 1 \in 0..(n - 1) /\ g[m - 1] = f[m - 1]
        BY <1>2, <2>4, <3>2
      <4>2. Step(g, m) = Step(f, m)
        BY <4>1
      <4>3. m # n => m \in 0..(n - 1) /\ g[m] = f[m] /\ f[m] = Step(f, m)
        <5>1. m # n => m \in 0..(n - 1)
          BY <1>2, <2>4
        <5>2. m # n => g[m] = f[m]
          OBVIOUS
        <5> HIDE DEF g, Step
        <5> QED
          BY <2>8, <5>1, <5>2
      <4> QED
        BY <4>2, <4>3
    <3> QED
      BY <3>1, <3>2
  <2>7. g = [m \in 0..n |-> Step(g, m)]
    <3> HIDE DEF Step
    <3>1. [m \in 0..n |-> Step(g, m)] = [m \in 0..n |-> g[m]]
      BY <2>6
    <3> QED
      BY <3>1
  <2> HIDE DEF g
  <2>9. Defined(n)
    BY <2>7 DEF Defined
  <2> QED
    BY <2>2, <2>9
<1>4. /\ kept[0] = <<>>
      /\ \A n \in 1..L : kept[n] = IF EnableOrder[n] \in S THEN Append(kept[n - 1], EnableOrder[n]) ELSE kept[n - 1]
  <2> HIDE DEF Step
  <2>1. kept = [n \in 0..L |-> Step(kept, n)]
    <3>1. L \in 0..L
      BY <1>2
    <3>2. \E f : f = [n \in 0..L |-> Step(f, n)]
      BY <1>3, <3>1
    <3> QED
      BY <3>2
  <2> HIDE DEF kept
  <2>2. \A n \in 0..L : kept[n] = Step(kept, n)
    BY <2>1
  <2>3. kept[0] = Step(kept, 0) /\ \A n \in 1..L : kept[n] = Step(kept, n) /\ n # 0
    BY <1>2, <2>2
  <2> QED
    BY <2>3 DEF Step
<1> HIDE DEF kept
\* ... and holds the services of S so far, each once.
<1> DEFINE Fine(n) ==
      /\ kept[n] \in Seq(Offers)
      /\ \A i \in DOMAIN kept[n] : kept[n][i] \in S
      /\ \A s : S = {s} => /\ Len(kept[n]) <= 1
                           /\ kept[n] # <<>> => \E a \in 1..n : EnableOrder[a] = s
<1>5. \A n \in 0..L : Fine(n)
  <2> HIDE DEF Fine
  <2> DEFINE Wrong == {n \in 0..L : ~Fine(n)}
  <2>1. SUFFICES ASSUME Wrong # {} PROVE FALSE
    BY <2>1
  <2>2. PICK n \in Wrong : \A m \in Wrong : n <= m
    <3>1. Wrong \subseteq Nat
      BY <1>2
    <3> HIDE DEF Wrong
    <3> QED
      BY <2>1, <3>1, LeastNumber
  <2>3. n # 0
    <3>1. Fine(0)
      BY <1>4 DEF Fine
    <3> QED
      BY <2>2, <3>1
  <2>4. n \in 1..L /\ n \in Nat /\ n - 1 \in 0..L /\ Fine(n - 1)
    <3>1. n \in 0..L
      BY <2>2
    <3>2. n \in 1..L /\ n \in Nat /\ n - 1 \in 0..L /\ ~(n <= n - 1)
      BY <1>2, <2>3, <3>1
    <3>3. n - 1 \notin Wrong
      BY <2>2, <3>2
    <3> QED
      BY <3>2, <3>3
  <2> DEFINE old == kept[n - 1]
             new == kept[n]
             here == EnableOrder[n]
  <2>5. /\ old \in Seq(Offers) /\ \A i \in DOMAIN old : old[i] \in S
        /\ \A s : S = {s} => /\ Len(old) <= 1
                             /\ old # <<>> => \E a \in 1..(n - 1) : EnableOrder[a] = s
    BY <2>4 DEF Fine
  <2>6. new = (IF here \in S THEN Append(old, here) ELSE old) /\ here \in Offers
    BY <1>2, <1>4, <2>4
  <2>7. \A a \in 1..(n - 1) : a \in 1..n /\ a # n /\ a \in DOMAIN EnableOrder
    BY <1>2, <2>4
  <2>8. n \in DOMAIN EnableOrder /\ n \in 1..n
    BY <1>2, <2>4
  <2>9. (new \in Seq(Offers) /\ (\A i \in DOMAIN new : new[i] \in S)
        /\ \A s : S = {s} => /\ Len(new) <= 1
                             /\ new # <<>> => \E a \in 1..n : EnableOrder[a] = s) => Fine(n)
    BY DEF Fine
  <2> HIDE DEF old, new
  <2>10. CASE here \notin S
    BY <2>2, <2>5, <2>6, <2>7, <2>9, <2>10
  <2>11. CASE here \in S
    <3>1. new = Append(old, here)
      BY <2>6, <2>11
    <3>2. new \in Seq(Offers) /\ Len(new) = Len(old) + 1 /\ Len(old) \in Nat
      BY <2>5, <2>6, <3>1
    <3>3. \A i \in DOMAIN new : new[i] \in S
      BY <2>5, <2>11, <3>1, <3>2
    <3>4. ASSUME NEW s, S = {s}
          PROVE  Len(new) <= 1 /\ (new # <<>> => \E a \in 1..n : EnableOrder[a] = s)
      <4>1. here = s
        BY <2>11, <3>4
      <4>2. old = <<>>
        <5>1. SUFFICES ASSUME old # <<>> PROVE FALSE
          BY <5>1
        <5>2. PICK a \in 1..(n - 1) : EnableOrder[a] = s
          BY <2>5, <3>4, <5>1
        <5>3. EnableOrder[a] = EnableOrder[n] /\ a \in DOMAIN EnableOrder /\ a # n
          BY <2>7, <4>1, <5>2
        <5> QED
          BY <2>8, <5>3, DependencyAssumption
      <4> QED
        BY <2>8, <3>2, <4>1, <4>2
    <3> QED
      BY <2>2, <2>9, <3>2, <3>3, <3>4
  <2> QED
    BY <2>10, <2>11
<1> HIDE DEF Fine
<1>6. L \in 0..L /\ Fine(L)
  BY <1>2, <1>5
<1>7. /\ kept[L] \in Seq(Offers) /\ \A i \in DOMAIN kept[L] : kept[L][i] \in S
      /\ \A s : S = {s} => Len(kept[L]) <= 1
  BY <1>6 DEF Fine
<1> QED
  BY <1>1, <1>7 DEF Members

\* Of no service, it lists none.
LEMMA NoneInOrder == InOrder({}) = <<>>
<1>1. InOrder({}) \in Seq(Offers) /\ Members(InOrder({})) \subseteq {}
  BY InOrderMembers
<1>2. DOMAIN InOrder({}) = {}
  BY <1>1 DEF Members
<1> QED
  BY <1>1, <1>2

\* The same operation, for each service of a list.
LEMMA EachOf ==
    ASSUME NEW q \in Seq(Offers), NEW do \in {"enable", "disable", "on", "off"}
    PROVE  /\ Each(do, q) \in Seq(Operations) /\ Len(Each(do, q)) = Len(q)
           /\ \A op \in Members(Each(do, q)) : op.do = do /\ op.svc \in Members(q)
<1>1. Len(q) \in Nat /\ DOMAIN q = 1..Len(q) /\ \A i \in 1..Len(q) : q[i] \in Offers
  OBVIOUS
<1>2. Each(do, q) = [i \in 1..Len(q) |-> [do |-> do, svc |-> q[i]]]
  BY <1>1 DEF Each
<1>3. \A i \in 1..Len(q) : [do |-> do, svc |-> q[i]] \in Operations
  BY <1>1 DEF Operations, Verbs
<1>4. Each(do, q) \in [1..Len(q) -> Operations]
  BY <1>2, <1>3
<1>5. Each(do, q) \in Seq(Operations) /\ Len(Each(do, q)) = Len(q)
  BY <1>1, <1>4
<1> QED
  BY <1>1, <1>2, <1>5 DEF Members

\* A list from its end has the services of the list.
LEMMA BackwardsOf ==
    ASSUME NEW q \in Seq(Offers)
    PROVE  Backwards(q) \in Seq(Offers) /\ Members(Backwards(q)) \subseteq Members(q)
<1>1. PICK n \in Nat : n = Len(q) /\ DOMAIN q = 1..n /\ \A i \in 1..n : q[i] \in Offers
  OBVIOUS
<1>2. Backwards(q) = [i \in 1..n |-> q[n + 1 - i]]
  BY <1>1 DEF Backwards
<1>3. \A i \in 1..n : n + 1 - i \in 1..n
  BY <1>1
<1>4. Backwards(q) \in [1..n -> Offers]
  BY <1>1, <1>2, <1>3
<1> QED
  BY <1>1, <1>2, <1>3, <1>4 DEF Members

\* The members and the last of two lists joined.
LEMMA Joined ==
    ASSUME NEW q \in Seq(Operations), NEW r \in Seq(Operations)
    PROVE  /\ q \o r \in Seq(Operations) /\ Members(q \o r) = Members(q) \cup Members(r)
           /\ r # <<>> => q \o r # <<>> /\ (q \o r)[Len(q \o r)] = r[Len(r)]
           /\ r = <<>> => q \o r = q
<1>1. PICK m \in Nat, n \in Nat : m = Len(q) /\ n = Len(r) /\ DOMAIN q = 1..m /\ DOMAIN r = 1..n
  OBVIOUS
<1>2. /\ q \o r \in Seq(Operations) /\ Len(q \o r) = m + n /\ DOMAIN (q \o r) = 1..(m + n)
      /\ \A i \in 1..(m + n) : (q \o r)[i] = IF i <= m THEN q[i] ELSE r[i - m]
  BY <1>1
<1>3. Members(q \o r) \subseteq Members(q) \cup Members(r)
  <2>1. ASSUME NEW i \in 1..(m + n)
        PROVE  (q \o r)[i] \in Members(q) \cup Members(r)
    <3>1. i <= m => i \in 1..m
      BY <1>1
    <3>2. ~(i <= m) => i - m \in 1..n
      BY <1>1
    <3> QED
      BY <1>1, <1>2, <3>1, <3>2 DEF Members
  <2> QED
    BY <1>2, <2>1 DEF Members
<1>4. Members(q) \subseteq Members(q \o r)
  <2>1. \A i \in 1..m : i \in 1..(m + n) /\ (q \o r)[i] = q[i]
    BY <1>1, <1>2
  <2> QED
    BY <1>1, <1>2, <2>1 DEF Members
<1>5. Members(r) \subseteq Members(q \o r)
  <2>1. ASSUME NEW i \in 1..n PROVE r[i] \in Members(q \o r)
    <3>1. m + i \in 1..(m + n) /\ (q \o r)[m + i] = r[i]
      BY <1>1, <1>2
    <3> QED
      BY <1>2, <3>1 DEF Members
  <2> QED
    BY <1>1, <2>1 DEF Members
<1>6. r # <<>> => q \o r # <<>> /\ (q \o r)[Len(q \o r)] = r[Len(r)]
  <2>1. SUFFICES ASSUME r # <<>> PROVE q \o r # <<>> /\ (q \o r)[Len(q \o r)] = r[Len(r)]
    OBVIOUS
  <2>2. n # 0
    BY <1>1, <2>1
  <2>3. m + n \in 1..(m + n) /\ ~(m + n <= m) /\ (m + n) - m = n
    BY <1>1, <2>2
  <2> QED
    BY <1>1, <1>2, <2>3
<1> QED
  BY <1>2, <1>3, <1>4, <1>5, <1>6

\* What is left after the first operation, and which of the two is the last.
LEMMA Dropped ==
    ASSUME NEW q \in Seq(Operations), q # <<>>
    PROVE  /\ Tail(q) \in Seq(Operations) /\ Head(q) \in Operations
           /\ Head(q) \in Members(q) /\ Members(Tail(q)) \subseteq Members(q)
           /\ Members(q) \subseteq Members(Tail(q)) \cup {Head(q)}
           /\ q[Len(q)] \in Members(q)
           /\ Tail(q) = <<>> => q[Len(q)] = Head(q) /\ Len(q) = 1
           /\ Tail(q) # <<>> => Tail(q)[Len(Tail(q))] = q[Len(q)] /\ Len(q) # 1
<1>1. PICK n \in Nat : n = Len(q) /\ DOMAIN q = 1..n /\ n # 0
  OBVIOUS
<1>2. /\ Tail(q) \in Seq(Operations) /\ Head(q) \in Operations /\ Head(q) = q[1]
      /\ Len(Tail(q)) = n - 1 /\ DOMAIN Tail(q) = 1..(n - 1)
      /\ \A i \in 1..(n - 1) : Tail(q)[i] = q[i + 1]
  BY <1>1
<1>3. \A i \in 1..(n - 1) : i + 1 \in 1..n
  BY <1>1
<1>4. \A i \in 1..n : i = 1 \/ (i - 1 \in 1..(n - 1) /\ i = (i - 1) + 1)
  BY <1>1
<1>5. Members(Tail(q)) \subseteq Members(q) /\ Head(q) \in Members(q) /\ q[Len(q)] \in Members(q)
  BY <1>1, <1>2, <1>3 DEF Members
<1>6. ASSUME NEW i \in 1..n PROVE q[i] \in Members(Tail(q)) \cup {Head(q)}
  <2>1. CASE i = 1
    BY <1>2, <2>1
  <2>2. CASE i # 1
    <3>1. i - 1 \in 1..(n - 1) /\ q[i] = Tail(q)[i - 1]
      BY <1>2, <1>4, <2>2
    <3> QED
      BY <1>2, <3>1 DEF Members
  <2> QED
    BY <2>1, <2>2
<1>7. Tail(q) = <<>> => n = 1
  <2>1. Tail(q) = <<>> => n - 1 = 0
    BY <1>2
  <2> QED
    BY <1>1, <2>1
<1>8. Tail(q) # <<>> => n # 1 /\ n - 1 \in 1..(n - 1) /\ (n - 1) + 1 = n
  BY <1>1, <1>2
<1> QED
  BY <1>1, <1>2, <1>5, <1>6, <1>7, <1>8 DEF Members

\* A list of one.
LEMMA OneMember ==
    ASSUME NEW op
    PROVE  Members(<<op>>) = {op} /\ Len(<<op>>) = 1 /\ <<op>>[1] = op /\ <<op>> # <<>>
<1>1. DOMAIN <<op>> = {1}
  OBVIOUS
<1> QED
  BY <1>1 DEF Members

-----------------------------------------------------------------------------
(* The invariant. *)

\* The types, one by one.
LEMMA CmdTypes ==
    ASSUME CmdTypeOK
    PROVE  /\ cmd.at \in {"idle", "choose", "act"} /\ cmd.verb \in {"enable", "disable"}
           /\ cmd.todo \in Seq(Offers) /\ cmd.seen \in SUBSET Offers
           /\ cmd.agreed \in SUBSET Operations /\ cmd.moved \in SUBSET Operations
           /\ cmd.undone \in SUBSET Operations /\ cmd.processed \in SUBSET Offers
           /\ cmd.single \in BOOLEAN /\ cmd.apart \in BOOLEAN /\ cmd.yes \in BOOLEAN
           /\ on \in SUBSET Offers /\ fit \in SUBSET Offers /\ entitled \in SUBSET Offers
           /\ listed \in SUBSET Offers /\ agenda \in Seq(Operations)
           /\ cached \in [Offers -> Faces] /\ stale \in BOOLEAN /\ blocked \in BOOLEAN
           /\ upsets \in 0..MaxUpsets
BY DEF CmdTypeOK, Verbs

\* What a command leaves alone.
Same == /\ cmd'.verb = cmd.verb /\ cmd'.seen = cmd.seen /\ cmd'.yes = cmd.yes
        /\ cmd'.single = cmd.single /\ cmd'.apart = cmd.apart

\* What pro status shows is of its type.
LEMMA StatusTyped == CmdTypeOK => StatusNow \in [Offers -> Faces]
BY DEF StatusNow, Shown, Facing, Faces

\* It changes with the services, the contract and the machine only.
LEMMA StatusKept == UNCHANGED <<on, fit, entitled, listed>> => StatusNow' = StatusNow
BY DEF StatusNow, Shown, Facing

\* The services a command still has to see to.
LEMMA TodoFacts ==
    ASSUME NEW q \in Seq(Offers), q # <<>>
    PROVE  /\ Head(q) \in Offers /\ Tail(q) \in Seq(Offers)
           /\ Len(q) <= 1 => Tail(q) = <<>> /\ Len(Tail(q)) <= 1
<1>1. Len(Tail(q)) = Len(q) - 1 /\ Len(q) \in Nat /\ Len(q) # 0
  OBVIOUS
<1>2. Tail(q) \in Seq(Offers) /\ Head(q) \in Offers
  OBVIOUS
<1> QED
  BY <1>1, <1>2

\* A command under way.
CmdRecord == [at : {"idle", "choose", "act"}, verb : Verbs, todo : Seq(Offers),
              seen : SUBSET Offers, yes : BOOLEAN, agreed : SUBSET Operations,
              moved : SUBSET Operations, processed : SUBSET Offers, undone : SUBSET Operations,
              single : BOOLEAN, apart : BOOLEAN]

\* A turn that fails ends without a mark, and what it did is remembered.
LEMMA FailTurnHolds ==
    ASSUME CmdInv, cmd.at # "idle", cmd.todo # <<>>, NEW why \in {"raised", "returned"}, FailTurn(why)
    PROVE  CmdInv'
<1>1. CmdTypeOK /\ Known /\ Cached /\ Once /\ Agreed
  BY DEF CmdInv
<1>2. /\ cmd'.at = "choose" /\ cmd'.todo = Tail(cmd.todo) /\ cmd'.moved = {}
      /\ cmd'.undone = cmd.undone \cup cmd.moved /\ cmd'.agreed = cmd.agreed
      /\ cmd'.processed = cmd.processed /\ Same /\ agenda' = <<>>
      /\ UNCHANGED <<on, fit, entitled, listed, blocked, upsets>>
  BY <1>1 DEF FailTurn, CmdTypeOK, Same
<1>3. Tail(cmd.todo) \in Seq(Offers) /\ (Len(cmd.todo) <= 1 => Tail(cmd.todo) = <<>> /\ Len(Tail(cmd.todo)) <= 1)
  BY <1>1, CmdTypes, TodoFacts
<1>4. StatusNow' = StatusNow /\ StatusNow \in [Offers -> Faces]
  BY <1>1, <1>2, StatusKept, StatusTyped
<1>5. CmdTypeOK'
  <2>1. cached' \in [Offers -> Faces] /\ stale' \in BOOLEAN
    BY <1>1, <1>4, CmdTypes DEF FailTurn
  <2>2. cmd' \in CmdRecord
    BY <1>1, <1>3 DEF FailTurn, CmdTypeOK, CmdRecord
  <2> QED
    BY <1>1, <1>2, <2>1, <2>2 DEF CmdTypeOK, CmdRecord
<1>6. Known'
  BY <1>1, <1>2 DEF Known, Members
<1>7. Cached'
  BY <1>1, <1>2, <1>4 DEF Cached, FailTurn
<1>8. Turn'
  BY <1>2 DEF Turn
<1>9. Once'
  BY <1>1, <1>2, <1>3 DEF Once, Same
<1>10. Agreed'
  BY <1>1, <1>2, <1>3 DEF Agreed, Once, Same
<1> QED
  BY <1>5, <1>6, <1>7, <1>8, <1>9, <1>10 DEF CmdInv

\* A turn that ends well leaves its service as asked, and the cache true.
LEMMA EndTurnHolds == ASSUME CmdInv, EndTurn PROVE CmdInv'
<1>1. CmdTypeOK /\ Known /\ Cached /\ Once /\ Agreed /\ Turn
  BY DEF CmdInv
<1>2. /\ cmd.at = "act" /\ agenda = <<>> /\ cmd'.at = "choose" /\ cmd'.todo = Tail(cmd.todo)
      /\ cmd'.moved = {} /\ cmd'.undone = cmd.undone /\ cmd'.agreed = cmd.agreed
      /\ cmd'.processed = cmd.processed \cup {Head(cmd.todo)} /\ Same /\ agenda' = <<>>
      /\ UNCHANGED <<on, fit, entitled, listed, blocked, upsets>>
      /\ cached' = StatusNow /\ stale' = FALSE
  BY <1>1 DEF EndTurn, CmdTypeOK, Same
<1>3. /\ cmd.todo # <<>> /\ Head(cmd.todo) \in Offers /\ Tail(cmd.todo) \in Seq(Offers)
      /\ Len(cmd.todo) <= 1 => Tail(cmd.todo) = <<>> /\ Len(Tail(cmd.todo)) <= 1
  BY <1>1, <1>2, CmdTypes, TodoFacts DEF Turn
<1>4. StatusNow' = StatusNow /\ StatusNow \in [Offers -> Faces]
  BY <1>1, <1>2, StatusKept, StatusTyped
<1>5. CmdTypeOK'
  <2>1. cmd' \in CmdRecord
    BY <1>1, <1>3 DEF EndTurn, CmdTypeOK, CmdRecord
  <2> QED
    BY <1>1, <1>2, <1>4, <2>1 DEF CmdTypeOK, CmdRecord
<1>6. Known'
  BY <1>1, <1>2 DEF Known, Members
<1>7. Cached'
  BY <1>2, <1>4 DEF Cached
<1>8. Turn'
  BY <1>2 DEF Turn
<1>9. Head(cmd.todo) \in on <=> cmd.verb = "enable"
  BY <1>1, <1>2 DEF Turn, Aimed
<1>10. Once'
  BY <1>1, <1>2, <1>3, <1>9 DEF Once, Same
<1>11. Agreed'
  BY <1>1, <1>2, <1>3 DEF Agreed, Once, Same
<1> QED
  BY <1>5, <1>6, <1>7, <1>8, <1>10, <1>11 DEF CmdInv

\* At the start nothing is under way.
LEMMA CmdInitHolds == CmdInit => CmdInv
<1> SUFFICES ASSUME CmdInit PROVE CmdInv
  OBVIOUS
<1>1. PICK c \in Subscriptions : entitled = c.entitled /\ listed = c.listed
  BY DEF CmdInit
<1>2. entitled \in SUBSET Offers /\ listed \in SUBSET Offers /\ fit \in SUBSET Offers
      /\ on \in SUBSET Offers /\ on \subseteq entitled /\ blocked \in BOOLEAN
  BY <1>1, OffersAssumption DEF CmdInit
<1>3. cached \in [Offers -> Faces]
  BY <1>2 DEF CmdInit, StatusNow, Shown, Facing, Faces
<1>4. cmd = NoCommand /\ agenda = <<>> /\ upsets = 0 /\ stale = FALSE /\ cached = StatusNow
  BY DEF CmdInit
<1>5. CmdTypeOK
  <2>1. NoCommand \in CmdRecord
    BY DEF NoCommand, Verbs, CmdRecord
  <2>2. 0 \in 0..MaxUpsets
    BY OffersAssumption
  <2>3. agenda \in Seq(Operations)
    BY <1>4
  <2> QED
    BY <1>2, <1>3, <1>4, <2>1, <2>2, <2>3 DEF CmdTypeOK, CmdRecord
<1>6. Known /\ Cached /\ Turn /\ Once /\ Agreed
  BY <1>2, <1>4 DEF Known, Cached, Turn, Once, Agreed, NoCommand, Members
<1> QED
  BY <1>5, <1>6 DEF CmdInv

\* A command that is over, or killed, leaves no claim but the cache's.
LEMMA NoCommandHolds ==
    ASSUME CmdInv, cmd' = NoCommand, agenda' = <<>>, UNCHANGED <<on, fit, entitled, listed, blocked, cached>>,
           upsets' \in 0..MaxUpsets, stale' = (stale \/ cmd.moved # {})
    PROVE  CmdInv'
<1>1. CmdTypeOK /\ Known /\ Cached
  BY DEF CmdInv
<1>2. NoCommand \in CmdRecord
  BY DEF NoCommand, Verbs, CmdRecord
<1>3. StatusNow' = StatusNow
  BY StatusKept
<1>4. CmdTypeOK'
  BY <1>1, <1>2 DEF CmdTypeOK, CmdRecord
<1>5. Known' /\ Turn' /\ Once' /\ Agreed'
  BY <1>1 DEF Known, Turn, Once, Agreed, NoCommand, Members
<1>6. Cached'
  BY <1>1, <1>3 DEF Cached, NoCommand
<1> QED
  BY <1>4, <1>5, <1>6 DEF CmdInv

LEMMA EndCommandHolds == ASSUME CmdInv, EndCommand PROVE CmdInv'
<1>1. cmd.moved = {} /\ stale \in BOOLEAN /\ upsets \in 0..MaxUpsets /\ agenda = <<>>
  BY DEF CmdInv, Cached, CmdTypeOK, EndCommand
<1> QED
  BY <1>1, NoCommandHolds DEF EndCommand

LEMMA KillHolds == ASSUME CmdInv, KillCommand PROVE CmdInv'
<1>1. upsets + 1 \in 0..MaxUpsets
  BY OffersAssumption DEF CmdInv, CmdTypeOK, KillCommand
<1> QED
  BY <1>1, NoCommandHolds DEF KillCommand

\* Begin: the list of enabled services is as it is now.
LEMMA BeginHolds ==
    ASSUME CmdInv, NEW verb \in Verbs, NEW yes \in BOOLEAN, NEW s \in Offers, NEW t \in Offers,
           BeginCommand(verb, IF s = t THEN <<s>> ELSE <<s, t>>, yes)
    PROVE  CmdInv'
<1> DEFINE names == IF s = t THEN <<s>> ELSE <<s, t>>
           all == {names[i] : i \in DOMAIN names}
           todo == IF verb = "enable" THEN InOrder(all) ELSE names
<1>1. CmdTypeOK /\ Known /\ Cached
  BY DEF CmdInv
<1>2. names \in Seq(Offers) /\ (Len(names) = 1 => names = <<s>>)
  BY DEF Verbs
<1>3. names = <<s>> => all = {s}
  BY OneMember DEF Members
<1>4. todo \in Seq(Offers) /\ (Len(names) = 1 => Len(todo) <= 1)
  <2> HIDE DEF all
  <2>1. InOrder(all) \in Seq(Offers) /\ (all = {s} => Len(InOrder(all)) <= 1)
    BY InOrderMembers
  <2>2. Len(names) = 1 => all = {s}
    BY <1>2, <1>3
  <2> HIDE DEF names
  <2> QED
    BY <1>2, <2>1, <2>2
<1>5. cmd' = [NoCommand EXCEPT !.at = "choose", !.verb = verb, !.yes = yes, !.todo = todo,
                               !.seen = EnabledServices, !.single = Len(names) = 1]
      /\ UNCHANGED <<on, fit, entitled, listed, blocked, cached, stale, agenda, upsets>>
      /\ cmd.at = "idle"
  BY DEF BeginCommand
<1> HIDE DEF todo, names
<1>6. /\ cmd'.at = "choose" /\ cmd'.todo = todo /\ cmd'.seen = EnabledServices
      /\ cmd'.single = (Len(names) = 1) /\ cmd'.moved = {} /\ cmd'.undone = {} /\ cmd'.agreed = {}
      /\ cmd'.processed = {} /\ cmd'.verb = verb /\ cmd' \in CmdRecord
  <2>1. EnabledServices \in SUBSET Offers
    BY DEF EnabledServices
  <2> QED
    BY <1>4, <1>5, <2>1 DEF NoCommand, CmdRecord
<1>7. EnabledServices = on \cap fit
  BY <1>1, CmdTypes DEF EnabledServices, Facing, Known
<1>8. CmdTypeOK'
  BY <1>1, <1>5, <1>6 DEF CmdTypeOK, CmdRecord
<1>9. cmd.moved = {} /\ agenda = <<>> /\ StatusNow' = StatusNow
  BY <1>1, <1>5, StatusKept DEF Cached
<1>10. Known' /\ Turn' /\ Cached'
  BY <1>1, <1>5, <1>6, <1>9 DEF Known, Turn, Cached
<1>11. Once'
  BY <1>4, <1>6 DEF Once
<1>12. Agreed'
  BY <1>5, <1>6, <1>7 DEF Agreed
<1> QED
  BY <1>8, <1>10, <1>11, <1>12 DEF CmdInv

\* Another process, pro status and a reboot change what is known of the machine, not the turn.
LEMMA OthersHold == ASSUME CmdInv, Elsewhere PROVE CmdInv'
<1>1. CmdTypeOK /\ Known /\ Cached /\ Once
  BY DEF CmdInv
<1>2. /\ cmd.at # "act" /\ cmd.moved = {} /\ agenda = <<>> /\ agenda' = <<>>
      /\ on' \subseteq entitled \cap fit /\ UNCHANGED <<fit, entitled, listed, blocked>>
      /\ stale' = FALSE /\ upsets' \in 0..MaxUpsets
  BY <1>1, OffersAssumption DEF Elsewhere, Cached, CmdTypeOK
<1>3. /\ cmd'.at = cmd.at /\ cmd'.apart = FALSE /\ cmd'.single = cmd.single /\ cmd'.todo = cmd.todo
      /\ cmd'.processed = cmd.processed /\ cmd'.undone = cmd.undone /\ cmd'.moved = {}
      /\ cmd' \in CmdRecord
  BY <1>1, <1>2 DEF Elsewhere, CmdTypeOK, CmdRecord
<1>4. cached' = StatusNow'
  <2>1. ASSUME NEW s \in Offers
        PROVE  (IF Shown(s) \in {"enabled", "disabled"}
                THEN IF s \in on' THEN "enabled" ELSE "disabled" ELSE Shown(s)) = Shown(s)'
    <3>1. CASE s \in entitled /\ s \in listed /\ s \in fit
      <4>1. Shown(s) \in {"enabled", "disabled"}
        BY <3>1 DEF Shown, Facing
      <4>2. Shown(s)' = IF s \in on' THEN "enabled" ELSE "disabled"
        BY <1>2, <3>1 DEF Shown, Facing
      <4> QED
        BY <4>1, <4>2
    <3>2. CASE ~(s \in entitled /\ s \in listed /\ s \in fit)
      <4>1. Shown(s) \in {"none", "n/a"} /\ Shown(s)' = Shown(s)
        BY <1>2, <3>2 DEF Shown, Facing
      <4> QED
        BY <4>1
    <3> QED
      BY <3>1, <3>2
  <2> QED
    BY <2>1 DEF Elsewhere, StatusNow
<1>5. CmdTypeOK'
  <2>1. on' \in SUBSET Offers
    BY <1>1, <1>2, CmdTypes
  <2>2. StatusNow' \in [Offers -> Faces]
    BY DEF StatusNow, Shown, Facing, Faces
  <2>3. agenda' \in Seq(Operations)
    BY <1>2
  <2> QED
    BY <1>1, <1>2, <1>3, <1>4, <2>1, <2>2, <2>3 DEF CmdTypeOK, CmdRecord
<1>6. Known' /\ Turn'
  BY <1>2, <1>3 DEF Known, Turn, Members
<1>7. Cached'
  BY <1>2, <1>3, <1>4 DEF Cached
<1>8. Once' /\ Agreed'
  BY <1>1, <1>3 DEF Once, Agreed
<1> QED
  BY <1>5, <1>6, <1>7, <1>8 DEF CmdInv

LEMMA WriteStatusHolds == ASSUME CmdInv, WriteStatus PROVE CmdInv'
<1>1. CmdTypeOK /\ Known /\ Cached
  BY DEF CmdInv
<1>2. /\ cmd.at = "idle" /\ cached' = StatusNow /\ stale' = FALSE
      /\ UNCHANGED <<on, fit, entitled, listed, blocked, cmd, agenda, upsets>>
  BY DEF WriteStatus
<1>3. StatusNow' = StatusNow /\ StatusNow \in [Offers -> Faces]
  BY <1>1, <1>2, StatusKept, StatusTyped
<1>4. CmdTypeOK'
  BY <1>1, <1>2, <1>3 DEF CmdTypeOK
<1>5. Known' /\ Turn' /\ Cached' /\ Once' /\ Agreed'
  BY <1>1, <1>2, <1>3 DEF Known, Turn, Cached, Once, Agreed, Members
<1> QED
  BY <1>4, <1>5 DEF CmdInv

LEMMA BootHolds == ASSUME CmdInv, BootOther PROVE CmdInv'
<1>1. CmdTypeOK /\ Known /\ Cached
  BY DEF CmdInv
<1>2. /\ cmd.at = "idle" /\ fit' \in SUBSET Offers /\ stale' = TRUE
      /\ UNCHANGED <<on, entitled, listed, blocked, cached, cmd, agenda, upsets>>
  BY OffersAssumption DEF BootOther
<1>3. CmdTypeOK'
  BY <1>1, <1>2 DEF CmdTypeOK
<1>4. Known' /\ Turn' /\ Cached' /\ Once' /\ Agreed'
  BY <1>1, <1>2 DEF Known, Turn, Cached, Once, Agreed, Members
<1> QED
  BY <1>3, <1>4 DEF CmdInv

-----------------------------------------------------------------------------
(* The turns. *)

\* A turn begins: what it asks about, and the one thing it has to do.
LEMMA AgreeHolds == ASSUME CmdInv, Agree PROVE CmdInv'
<1> DEFINE s == Head(cmd.todo)
           idle == cmd.verb = "enable" /\ s \in EnabledServices
           first == [do |-> cmd.verb, svc |-> s]
<1>1. CmdTypeOK /\ Known /\ Cached /\ Once /\ Agreed
  BY DEF CmdInv
<1>2. /\ cmd.at = "choose" /\ cmd.todo # <<>> /\ (cmd.verb = "enable" => s \notin cmd.seen)
      /\ cmd' = [cmd EXCEPT !.at = "act", !.agreed = @ \cup Named(s) \cup Questions(s)]
      /\ agenda' = IF idle THEN <<>> ELSE Each(cmd.verb, <<s>>)
      /\ UNCHANGED <<on, fit, entitled, listed, blocked, cached, stale, upsets>>
  BY DEF Agree
<1>3. s \in Offers /\ cmd.verb \in {"enable", "disable"} /\ cmd.seen \in SUBSET Offers
  BY <1>1, <1>2, CmdTypes, TodoFacts
<1> HIDE DEF s
<1>4. Named(s) \subseteq Operations /\ Questions(s) \subseteq Operations
  <2>1. Clashes[s] \subseteq Offers /\ Requires[s] \subseteq Offers
    BY <1>3, OffersAssumption
  <2> QED
    BY <1>3, <2>1 DEF Named, Questions, All, Operations, Verbs
<1>5. /\ cmd'.at = "act" /\ cmd'.agreed = cmd.agreed \cup Named(s) \cup Questions(s)
      /\ cmd'.todo = cmd.todo /\ cmd'.moved = cmd.moved /\ cmd'.undone = cmd.undone
      /\ cmd'.processed = cmd.processed /\ Same /\ cmd' \in CmdRecord
  BY <1>1, <1>2, <1>4 DEF CmdTypeOK, CmdRecord, Same
<1>6. /\ Each(cmd.verb, <<s>>) = <<first>> /\ first \in Operations
      /\ agenda' = IF idle THEN <<>> ELSE <<first>>
  BY <1>2, <1>3 DEF Each, Operations, Verbs
<1>7. first.do = cmd.verb /\ first.svc = s
  OBVIOUS
<1> HIDE DEF first
<1>8. CmdTypeOK'
  <2>1. agenda' \in Seq(Operations)
    BY <1>6
  <2> QED
    BY <1>1, <1>2, <1>5, <2>1 DEF CmdTypeOK, CmdRecord
<1>9. Members(agenda') \subseteq {first} /\ (agenda' # <<>> => agenda' = <<first>> /\ Len(agenda') = 1)
  <2>1. Members(<<>>) = {}
    BY DEF Members
  <2> QED
    BY <1>6, <2>1, OneMember
<1>10. Known'
  BY <1>1, <1>2, <1>3, <1>7, <1>9 DEF Known, Members
<1>11. Cached'
  BY <1>1, <1>2, <1>5, StatusKept DEF Cached
<1>12. Turn'
  <2>1. CASE idle
    <3>1. s \in on /\ agenda' = <<>> /\ cmd.verb = "enable"
      BY <1>2, <2>1 DEF EnabledServices, Facing
    <3> QED
      BY <1>2, <1>5, <3>1 DEF Turn, Aimed, Same, s
  <2>2. CASE ~idle
    <3>1. agenda' = <<first>> /\ agenda' # <<>> /\ agenda'[Len(agenda')] = first
      BY <1>6, <2>2
    <3> QED
      BY <1>2, <1>3, <1>5, <1>7, <3>1 DEF Turn, Aimed, Same, s
  <2> QED
    BY <2>1, <2>2
<1>13. Once'
  BY <1>1, <1>2, <1>5 DEF Once, Same
<1>0. s' = s
  BY <1>5 DEF s
<1>14. Agreed'
  <2>1. SUFFICES ASSUME cmd.single, cmd.apart PROVE Agreed'
    BY <1>5 DEF Agreed, Same
  <2>2. cmd.seen = on \cap fit /\ cmd.moved = {} /\ cmd.undone = {}
    BY <1>1, <1>2, <2>1 DEF Agreed, Once, Cached
  <2>3. Named(s)' = Named(s) /\ Questions(s)' = Questions(s)
    BY <1>2, <1>5 DEF Named, Questions, Same, s
  <2>4. ASSUME NEW op \in Members(agenda')
        PROVE  IF cmd'.verb = "enable" THEN EnableAllowed(s, op)' ELSE DisableAllowed(s, op)'
    <3>1. op = first /\ op.do = cmd.verb /\ op.svc = s
      BY <1>7, <1>9
    <3>2. agenda' # <<>> /\ Len(agenda') = 1
      BY <1>9, <2>4 DEF Members
    <3>3. CASE cmd.verb = "enable"
      BY <1>0, <1>2, <1>5, <1>7, <1>9, <2>2, <3>1, <3>2, <3>3 DEF EnableAllowed, Same
    <3>4. CASE cmd.verb = "disable"
      <4>1. Off(s) \in cmd'.agreed
        BY <1>5, <3>4 DEF Named, All, Off
      <4> QED
        BY <1>0, <1>2, <1>5, <1>7, <2>2, <3>1, <3>4, <4>1 DEF DisableAllowed, Same
    <3> QED
      BY <1>3, <1>5, <3>3, <3>4 DEF Same
  <2> QED
    BY <1>5, <2>2, <2>3, <2>4 DEF Agreed, Same, s
<1> QED
  BY <1>8, <1>10, <1>11, <1>12, <1>13, <1>14 DEF CmdInv

\* One service goes on or off, as its turn was allowed to.
LEMMA PerformHolds == ASSUME CmdInv, Perform PROVE CmdInv'
<1> DEFINE op == Head(agenda)
           s == Head(cmd.todo)
<1>1. CmdTypeOK /\ Known /\ Cached /\ Once /\ Agreed /\ Turn
  BY DEF CmdInv
<1>2. /\ cmd.at = "act" /\ agenda # <<>> /\ op.do \in {"on", "off"}
      /\ on' = (IF op.do = "on" THEN on \cup {op.svc} ELSE on \ {op.svc})
      /\ cmd' = [cmd EXCEPT !.moved = @ \cup {op}] /\ agenda' = Tail(agenda)
      /\ UNCHANGED <<fit, entitled, listed, blocked, cached, stale, upsets>>
  BY DEF Perform
<1>3. /\ agenda' \in Seq(Operations) /\ op \in Operations
      /\ op \in Members(agenda) /\ Members(agenda') \subseteq Members(agenda)
      /\ agenda' = <<>> => agenda[Len(agenda)] = op /\ Len(agenda) = 1
      /\ agenda' # <<>> => agenda'[Len(agenda')] = agenda[Len(agenda)] /\ Len(agenda) # 1
  BY <1>1, <1>2, CmdTypes, Dropped
<1>4. op.svc \in Offers /\ cmd.verb \in {"enable", "disable"} /\ cmd.todo # <<>> /\ Aimed(s)
      /\ on \in SUBSET Offers
  BY <1>1, <1>2, <1>3, CmdTypes DEF Operations, Turn
<1> HIDE DEF op
<1>5. /\ cmd'.at = "act" /\ cmd'.agreed = cmd.agreed /\ cmd'.moved = cmd.moved \cup {op}
      /\ cmd'.todo = cmd.todo /\ cmd'.undone = cmd.undone
      /\ cmd'.processed = cmd.processed /\ Same /\ cmd' \in CmdRecord
  BY <1>1, <1>2, <1>3 DEF CmdTypeOK, CmdRecord, Same
<1>6. CmdTypeOK'
  BY <1>1, <1>2, <1>3, <1>4, <1>5 DEF CmdTypeOK, CmdRecord
<1>7. Known'
  BY <1>1, <1>2, <1>3 DEF Known
<1>8. Cached'
  BY <1>5 DEF Cached
<1>9. Turn'
  <2>1. Aimed(s)'
    <3>1. CASE agenda' = <<>>
      BY <1>2, <1>3, <1>4, <1>5, <3>1 DEF Aimed, Same, s
    <3>2. CASE agenda' # <<>>
      BY <1>2, <1>3, <1>4, <1>5, <3>2 DEF Aimed, Same, s
    <3> QED
      BY <3>1, <3>2
  <2> QED
    BY <1>4, <1>5, <2>1 DEF Turn, s
<1>10. Once'
  BY <1>1, <1>2, <1>4, <1>5 DEF Once, Same
<1>0. s' = s
  BY <1>5 DEF s
<1> HIDE DEF s
<1>11. Agreed'
  <2>1. SUFFICES ASSUME cmd.single, cmd.apart PROVE Agreed'
    BY <1>5 DEF Agreed, Same
  <2>2. /\ cmd.moved \cup cmd.undone \subseteq cmd.agreed
        /\ Named(s) \cup Questions(s) \subseteq cmd.agreed
        /\ \A o \in Members(agenda) :
             IF cmd.verb = "enable" THEN EnableAllowed(s, o) ELSE DisableAllowed(s, o)
    BY <1>1, <1>2, <2>1 DEF Agreed, s
  <2>3. Named(s)' = Named(s) /\ Questions(s)' = Questions(s)
    BY <1>2, <1>5 DEF Named, Questions, Same, s
  <2>4. op \in cmd.agreed
    BY <1>2, <1>3, <2>2 DEF EnableAllowed, DisableAllowed
  <2>5. ASSUME NEW o \in Members(agenda')
        PROVE  IF cmd'.verb = "enable" THEN EnableAllowed(s, o)' ELSE DisableAllowed(s, o)'
    <3>1. o \in Members(agenda) /\ agenda' # <<>> /\ Len(agenda) # 1
      BY <1>3, <2>5 DEF Members
    <3>2. CASE cmd.verb = "enable"
      <4>1. EnableAllowed(s, o)
        BY <2>2, <3>1, <3>2
      <4>2. o.do = "enable" => on \subseteq on'
        BY <1>2, <1>3, <4>1 DEF EnableAllowed
      <4> QED
        BY <1>0, <1>2, <1>3, <1>5, <3>1, <3>2, <4>1, <4>2 DEF EnableAllowed, Same
    <3>3. CASE cmd.verb = "disable"
      <4>1. DisableAllowed(s, o) /\ DisableAllowed(s, op)
        BY <1>3, <2>2, <3>1, <3>3
      <4>2. on' \subseteq on
        BY <1>2, <4>1 DEF DisableAllowed
      <4> QED
        BY <1>0, <1>2, <1>5, <3>3, <4>1, <4>2 DEF DisableAllowed, Same
    <3> QED
      BY <1>4, <1>5, <3>2, <3>3 DEF Same
  <2> QED
    BY <1>5, <2>2, <2>3, <2>4, <2>5 DEF Agreed, Same, s
<1> QED
  BY <1>6, <1>7, <1>8, <1>9, <1>10, <1>11 DEF CmdInv

\* What enable() and disable() of one service come to.
LEMMA Expanded ==
    ASSUME CmdTypeOK, NEW op \in Operations, op.do \in {"enable", "disable"}
    PROVE  /\ Expand(op) \in Seq(Operations) /\ Expand(op) # <<>>
           /\ LET last == IF op.do = "enable" THEN On(op.svc) ELSE Off(op.svc) IN
              /\ Expand(op)[Len(Expand(op))] = last
              /\ op.do = "disable" =>
                   \A o \in Members(Expand(op)) :
                     o = last \/ (o.do = "disable" /\ o.svc \in on /\ op.svc \in Requires[o.svc])
              /\ op.do = "enable" =>
                   \/ \A o \in Members(Expand(op)) :
                        o = last \/ (o.do = "disable" /\ o.svc \in Clashes[op.svc] \cap on)
                   \/ \A o \in Members(Expand(op)) :
                        o = last \/ (o.do = "enable" /\ o.svc \in Requires[op.svc] \ on)
              /\ op.do = "enable" /\ Clashes[op.svc] = {} =>
                   \A o \in Members(Expand(op)) :
                     o = last \/ (o.do = "enable" /\ o.svc \in Requires[op.svc] \ on)
<1> DEFINE s == op.svc
           clash == InOrder(Clashes[s] \cap on)
           lacking == InOrder(Requires[s] \ on)
           users == InOrder({d \in on : s \in Requires[d]})
           uses == Backwards(users)
           last == IF op.do = "enable" THEN On(s) ELSE Off(s)
           before == IF op.do = "disable" THEN Each("disable", uses)
                     ELSE IF clash # <<>> THEN Each("disable", clash) ELSE Each("enable", lacking)
<1>1. s \in Offers /\ last \in Operations /\ <<last>> \in Seq(Operations)
  BY DEF Operations, On, Off, Verbs
<1>2. Expand(op) = before \o <<last>>
  <2>1. Each("on", <<s>>) = <<On(s)>> /\ Each("off", <<s>>) = <<Off(s)>>
    BY DEF Each, On, Off
  <2>2. CASE op.do = "disable"
    <3>1. Expand(op) = Each("disable", uses) \o Each("off", <<s>>)
      BY <2>2 DEF Expand
    <3> QED
      BY <2>1, <2>2, <3>1
  <2>3. CASE op.do = "enable"
    <3>1. Expand(op) = (IF clash # <<>> THEN Each("disable", clash) ELSE Each("enable", lacking))
                       \o Each("on", <<s>>)
      BY <2>3 DEF Expand
    <3> QED
      BY <2>1, <2>3, <3>1
  <2> QED
    BY <2>2, <2>3
<1>3. /\ clash \in Seq(Offers) /\ Members(clash) \subseteq Clashes[s] \cap on
      /\ lacking \in Seq(Offers) /\ Members(lacking) \subseteq Requires[s] \ on
      /\ users \in Seq(Offers) /\ Members(users) \subseteq {d \in on : s \in Requires[d]}
  <2> HIDE DEF s
  <2> QED
    BY InOrderMembers
<1> HIDE DEF clash, lacking, users
<1>4. uses \in Seq(Offers) /\ Members(uses) \subseteq Members(users)
  BY <1>3, BackwardsOf
<1> HIDE DEF uses, last
<1>5. /\ before \in Seq(Operations)
      /\ op.do = "disable" =>
           \A o \in Members(before) : o.do = "disable" /\ o.svc \in Members(uses)
      /\ op.do = "enable" /\ clash # <<>> =>
           \A o \in Members(before) : o.do = "disable" /\ o.svc \in Members(clash)
      /\ op.do = "enable" /\ clash = <<>> =>
           \A o \in Members(before) : o.do = "enable" /\ o.svc \in Members(lacking)
  BY <1>3, <1>4, EachOf
<1> HIDE DEF before
<1>6. /\ Expand(op) \in Seq(Operations) /\ Expand(op) # <<>>
      /\ Members(Expand(op)) = Members(before) \cup {last} /\ Expand(op)[Len(Expand(op))] = last
  <2>1. <<last>> # <<>> /\ Members(<<last>>) = {last} /\ <<last>>[Len(<<last>>)] = last
    BY OneMember
  <2>2. /\ before \o <<last>> \in Seq(Operations) /\ before \o <<last>> # <<>>
        /\ Members(before \o <<last>>) = Members(before) \cup Members(<<last>>)
        /\ (before \o <<last>>)[Len(before \o <<last>>)] = <<last>>[Len(<<last>>)]
    BY <1>1, <1>5, <2>1, Joined
  <2> QED
    BY <1>2, <2>1, <2>2
<1>7. Clashes[s] = {} => clash = <<>>
  <2>1. Clashes[s] = {} => Clashes[s] \cap on = {}
    OBVIOUS
  <2> HIDE DEF s
  <2> QED
    BY <2>1, NoneInOrder DEF clash
<1>8. op.do = "disable" =>
        \A o \in Members(Expand(op)) :
          o = last \/ (o.do = "disable" /\ o.svc \in on /\ s \in Requires[o.svc])
  BY <1>3, <1>4, <1>5, <1>6
<1>9. op.do = "enable" /\ clash # <<>> =>
        \A o \in Members(Expand(op)) :
          o = last \/ (o.do = "disable" /\ o.svc \in Clashes[s] \cap on)
  BY <1>3, <1>5, <1>6
<1>10. op.do = "enable" /\ clash = <<>> =>
        \A o \in Members(Expand(op)) :
          o = last \/ (o.do = "enable" /\ o.svc \in Requires[s] \ on)
  BY <1>3, <1>5, <1>6
<1>11. op.do = "enable" =>
        \/ \A o \in Members(Expand(op)) :
             o = last \/ (o.do = "disable" /\ o.svc \in Clashes[s] \cap on)
        \/ \A o \in Members(Expand(op)) :
             o = last \/ (o.do = "enable" /\ o.svc \in Requires[s] \ on)
  BY <1>9, <1>10
<1>12. op.do = "enable" /\ Clashes[s] = {} =>
        \A o \in Members(Expand(op)) :
          o = last \/ (o.do = "enable" /\ o.svc \in Requires[s] \ on)
  BY <1>7, <1>10
<1> QED
  BY <1>6, <1>8, <1>11, <1>12 DEF last

\* What an operation comes to is allowed as well: a required service that is off was off when the
\* list was read, and one in the way that can be turned off was on.
LEMMA PlanHolds == ASSUME CmdInv, Plan PROVE CmdInv'
<1> DEFINE op == Head(agenda)
           s == Head(cmd.todo)
           x == op.svc
<1>1. CmdTypeOK /\ Known /\ Cached /\ Once /\ Agreed /\ Turn
  BY DEF CmdInv
<1>2. /\ cmd.at = "act" /\ agenda # <<>> /\ op.do \in {"enable", "disable"} /\ ~Refused(op)
      /\ agenda' = Expand(op) \o Tail(agenda)
      /\ UNCHANGED <<on, fit, entitled, listed, blocked, cached, stale, cmd, upsets>>
  BY DEF Plan, Verbs
<1>3. /\ Tail(agenda) \in Seq(Operations) /\ op \in Operations
      /\ op \in Members(agenda) /\ Members(Tail(agenda)) \subseteq Members(agenda)
      /\ Tail(agenda) = <<>> => agenda[Len(agenda)] = op
      /\ Tail(agenda) # <<>> => Tail(agenda)[Len(Tail(agenda))] = agenda[Len(agenda)]
                                /\ Len(agenda) # 1
  BY <1>1, <1>2, CmdTypes, Dropped
<1>4. x \in Offers /\ cmd.verb \in {"enable", "disable"} /\ cmd.todo # <<>> /\ Aimed(s)
      /\ on \in SUBSET Offers /\ s \in Offers
  BY <1>1, <1>2, <1>3, CmdTypes, TodoFacts DEF Operations, Turn
<1>5. IF op.do = "disable" THEN x \in on /\ x \in fit ELSE x \in entitled
  BY <1>2 DEF Refused, MayDisable, MayEnable
<1> DEFINE new == Expand(op)
           last == IF op.do = "enable" THEN On(x) ELSE Off(x)
<1>6. /\ new \in Seq(Operations) /\ new # <<>> /\ new[Len(new)] = last
      /\ op.do = "disable" =>
           \A o \in Members(new) :
             o = last \/ (o.do = "disable" /\ o.svc \in on /\ x \in Requires[o.svc])
      /\ op.do = "enable" =>
           \/ \A o \in Members(new) :
                o = last \/ (o.do = "disable" /\ o.svc \in Clashes[x] \cap on)
           \/ \A o \in Members(new) :
                o = last \/ (o.do = "enable" /\ o.svc \in Requires[x] \ on)
      /\ op.do = "enable" /\ Clashes[x] = {} =>
           \A o \in Members(new) :
             o = last \/ (o.do = "enable" /\ o.svc \in Requires[x] \ on)
  <2> HIDE DEF op
  <2> QED
    BY <1>1, <1>2, <1>3, Expanded
<1> HIDE DEF op, x, new
<1>7. last.do = (IF op.do = "enable" THEN "on" ELSE "off") /\ last.svc = x
  BY DEF On, Off
<1>8. /\ agenda' \in Seq(Operations) /\ Members(agenda') = Members(new) \cup Members(Tail(agenda))
      /\ agenda' # <<>>
      /\ agenda'[Len(agenda')] = IF Tail(agenda) = <<>> THEN last ELSE agenda[Len(agenda)]
  <2>1. agenda' = new \o Tail(agenda)
    BY <1>2 DEF new
  <2>2. CASE Tail(agenda) = <<>>
    BY <1>3, <1>6, <2>1, <2>2, Joined
  <2>3. CASE Tail(agenda) # <<>>
    BY <1>3, <1>6, <2>1, <2>3, Joined
  <2> QED
    BY <2>2, <2>3
<1> HIDE DEF last
<1>9. CmdTypeOK'
  BY <1>1, <1>2, <1>8 DEF CmdTypeOK
<1>10. Known'
  <2>1. \A o \in Members(new) : o.do = "on" => o.svc \in entitled
    BY <1>2, <1>5, <1>6, <1>7
  <2> QED
    BY <1>1, <1>2, <1>3, <1>8, <2>1 DEF Known
<1>11. Cached'
  BY <1>1, <1>2, StatusKept DEF Cached
<1>12. Turn'
  <2>1. Aimed(s)'
    BY <1>2, <1>3, <1>4, <1>7, <1>8 DEF Aimed, s, x
  <2> QED
    BY <1>2, <1>4, <2>1 DEF Turn, s
<1>13. Once'
  BY <1>1, <1>2 DEF Once
<1>14. Agreed'
  <2>0. s' = s
    BY <1>2 DEF s
  <2>1. SUFFICES ASSUME cmd.single, cmd.apart PROVE Agreed'
    BY <1>2 DEF Agreed
  <2>2. /\ cmd.moved \cup cmd.undone \subseteq cmd.agreed
        /\ Named(s) \cup Questions(s) \subseteq cmd.agreed
        /\ \A o \in Members(agenda) :
             IF cmd.verb = "enable" THEN EnableAllowed(s, o) ELSE DisableAllowed(s, o)
    BY <1>1, <1>2, <2>1 DEF Agreed, s
  <2>3. Named(s)' = Named(s) /\ Questions(s)' = Questions(s)
    BY <1>2 DEF Named, Questions, s
  <2> HIDE DEF s
  <2>4. CASE cmd.verb = "disable"
    <3>1. DisableAllowed(s, op) /\ op.do = "disable" /\ x \in fit
      BY <1>2, <1>3, <1>5, <2>2, <2>4 DEF DisableAllowed
    <3>2. last = Off(x) /\ last \in cmd.agreed
      BY <3>1 DEF DisableAllowed, last, x
    <3>3. ASSUME NEW o \in Members(agenda') PROVE DisableAllowed(s, o)'
      <4>1. CASE o \in Members(Tail(agenda))
        <5>1. DisableAllowed(s, o)
          BY <1>3, <2>2, <2>4, <4>1
        <5> QED
          BY <1>2, <2>0, <5>1 DEF DisableAllowed
      <4>2. CASE o = last
        BY <1>2, <2>0, <3>1, <3>2, <4>2 DEF DisableAllowed, Off
      <4>3. CASE o \in Members(new) /\ o # last
        <5>1. o.do = "disable" /\ o.svc \in on /\ x \in Requires[o.svc]
          BY <1>6, <3>1, <4>3
        <5>2. s \in Requires[o.svc] /\ o.svc # s
          <6>1. x = s \/ s \in Requires[x]
            BY <3>1 DEF DisableAllowed, x
          <6> QED
            BY <1>4, <5>1, <6>1, DependencyAssumption
        <5>3. o.svc \in fit => Off(o.svc) \in cmd.agreed
          <6>1. o.svc \in fit => o.svc \in cmd.seen
            BY <3>1, <5>1 DEF DisableAllowed
          <6> QED
            BY <2>2, <2>4, <5>2, <6>1 DEF Questions, All, Off
        <5> QED
          BY <1>2, <2>0, <3>1, <5>1, <5>2, <5>3 DEF DisableAllowed
      <4> QED
        BY <1>8, <4>1, <4>2, <4>3
    <3> QED
      BY <1>2, <2>0, <2>2, <2>3, <2>4, <3>3 DEF Agreed, s
  <2>5. CASE cmd.verb = "enable" /\ op.do = "disable"
    <3>1. /\ x \in Clashes[s] /\ x \in fit /\ EnableAllowed(s, op)
          /\ \A o \in Members(agenda) : EnableAllowed(s, o)
      BY <1>3, <1>5, <2>2, <2>5 DEF EnableAllowed, x
    <3>2. last = Off(x) /\ last \in cmd.agreed /\ last.do = "off"
      BY <1>7, <2>5, <3>1 DEF EnableAllowed, last, x
    <3>3. \A o \in Members(new) : o = last
      BY <1>4, <1>6, <2>5, <3>1, DependencyAssumption
    <3>4. \A o \in Members(agenda) : o.do # "enable"
      BY <1>3, <2>5, <3>1 DEF EnableAllowed
    <3>5. ASSUME NEW o \in Members(agenda') PROVE EnableAllowed(s, o)'
      <4>1. CASE o \in Members(Tail(agenda))
        <5>1. EnableAllowed(s, o) /\ o.do # "enable"
          BY <1>3, <3>1, <3>4, <4>1
        <5> QED
          BY <1>2, <2>0, <5>1 DEF EnableAllowed
      <4>2. CASE o = last
        BY <1>2, <2>0, <3>2, <4>2 DEF EnableAllowed
      <4> QED
        BY <1>8, <3>3, <4>1, <4>2
    <3> QED
      BY <1>2, <2>0, <2>2, <2>3, <2>5, <3>5 DEF Agreed, s
  <2>6. CASE cmd.verb = "enable" /\ op.do = "enable"
    <3>1. /\ EnableAllowed(s, op) /\ cmd.seen \subseteq on
          /\ \A o \in Members(agenda) : EnableAllowed(s, o) /\ o.do \in {"enable", "on"}
      BY <1>3, <2>2, <2>6 DEF EnableAllowed
    <3>2. last = On(x) /\ last \in cmd.agreed /\ last.do = "on"
      <4>1. On(s) \in cmd.agreed
        BY <2>2, <2>6 DEF Named, All, On
      <4> QED
        BY <1>7, <2>6, <3>1, <4>1 DEF EnableAllowed, last, x
    <3>3. CASE x = s /\ Len(agenda) = 1
      <4>1. Tail(agenda) = <<>> /\ Members(agenda') = Members(new)
        <5>1. Tail(agenda) = <<>> /\ Members(<<>>) = {}
          BY <1>3, <3>3 DEF Members
        <5> QED
          BY <1>8, <5>1
      <4>2. on \cap fit \subseteq cmd.seen
        <5>1. s \notin Requires[s]
          BY <1>4, DependencyAssumption
        <5> QED
          BY <2>6, <3>1, <3>3, <5>1 DEF EnableAllowed, x
      <4>3. CASE \A o \in Members(new) :
                   o = last \/ (o.do = "disable" /\ o.svc \in Clashes[x] \cap on)
        <5>1. ASSUME NEW o \in Members(agenda') PROVE EnableAllowed(s, o)'
          <6>1. CASE o = last
            BY <1>2, <2>0, <3>2, <6>1 DEF EnableAllowed
          <6>2. CASE o # last
            <7>1. o.do = "disable" /\ o.svc \in Clashes[s] \cap on
              BY <3>3, <4>1, <4>3, <6>2
            <7>2. o.svc \in fit => Off(o.svc) \in cmd.agreed
              BY <2>2, <2>6, <4>2, <7>1 DEF Questions, All, Off
            <7> QED
              BY <1>2, <2>0, <7>1, <7>2 DEF EnableAllowed
          <6> QED
            BY <6>1, <6>2
        <5> QED
          BY <1>2, <2>0, <2>2, <2>3, <2>6, <5>1 DEF Agreed, s
      <4>4. CASE \A o \in Members(new) :
                   o = last \/ (o.do = "enable" /\ o.svc \in Requires[x] \ on)
        <5>1. \A o \in Members(agenda') : o.do \in {"enable", "on"}
          BY <3>2, <4>1, <4>4
        <5>2. ASSUME NEW o \in Members(agenda') PROVE EnableAllowed(s, o)'
          <6>1. CASE o = last
            BY <1>2, <2>0, <3>2, <6>1 DEF EnableAllowed
          <6>2. CASE o # last
            <7>1. o.do = "enable" /\ o.svc \in Requires[s] /\ o.svc \notin cmd.seen
              BY <3>1, <3>3, <4>1, <4>4, <6>2
            <7>2. On(o.svc) \in cmd.agreed
              BY <2>2, <2>6, <7>1 DEF Questions, All, On
            <7> QED
              BY <1>2, <2>0, <3>1, <5>1, <7>1, <7>2 DEF EnableAllowed
          <6> QED
            BY <6>1, <6>2
        <5> QED
          BY <1>2, <2>0, <2>2, <2>3, <2>6, <5>2 DEF Agreed, s
      <4> QED
        BY <1>6, <2>6, <4>3, <4>4
    <3>4. CASE x \in Requires[s]
      <4>1. Clashes[x] = {} /\ Requires[x] \subseteq Requires[s] /\ s # x
        BY <1>4, <3>4, DependencyAssumption
      <4>2. \A o \in Members(new) : o = last \/ (o.do = "enable" /\ o.svc \in Requires[x] \ on)
        BY <1>6, <2>6, <4>1
      <4>3. \A o \in Members(agenda') : o.do \in {"enable", "on"}
        BY <1>3, <1>8, <3>1, <3>2, <4>2
      <4>4. \A o \in Members(Tail(agenda)) : o.do = "enable" => o.svc \in Requires[s] /\ On(o.svc) \in cmd.agreed
        <5>1. ASSUME NEW o \in Members(Tail(agenda)), o.do = "enable"
              PROVE  o.svc \in Requires[s] /\ On(o.svc) \in cmd.agreed
          <6>1. o \in Members(agenda) /\ Len(agenda) # 1
            BY <1>3, <5>1 DEF Members
          <6> QED
            BY <3>1, <5>1, <6>1 DEF EnableAllowed
        <5> QED
          BY <5>1
      <4>5. ASSUME NEW o \in Members(agenda') PROVE EnableAllowed(s, o)'
        <5>1. CASE o \in Members(Tail(agenda))
          <6>1. EnableAllowed(s, o)
            BY <1>3, <3>1, <5>1
          <6> QED
            BY <1>2, <2>0, <3>1, <4>3, <4>4, <5>1, <6>1 DEF EnableAllowed
        <5>2. CASE o = last
          BY <1>2, <2>0, <3>2, <5>2 DEF EnableAllowed
        <5>3. CASE o \in Members(new) /\ o # last
          <6>1. o.do = "enable" /\ o.svc \in Requires[s] /\ o.svc \notin cmd.seen
            BY <3>1, <4>1, <4>2, <5>3
          <6>2. On(o.svc) \in cmd.agreed
            BY <2>2, <2>6, <6>1 DEF Questions, All, On
          <6> QED
            BY <1>2, <2>0, <3>1, <4>3, <6>1, <6>2 DEF EnableAllowed
        <5> QED
          BY <1>8, <5>1, <5>2, <5>3
      <4> QED
        BY <1>2, <2>0, <2>2, <2>3, <2>6, <4>5 DEF Agreed, s
    <3> QED
      BY <2>6, <3>1, <3>3, <3>4 DEF EnableAllowed, x
  <2> QED
    BY <1>2, <1>4, <2>4, <2>5, <2>6
<1> QED
  BY <1>9, <1>10, <1>11, <1>12, <1>13, <1>14 DEF CmdInv

-----------------------------------------------------------------------------

LEMMA CmdStutterHolds == ASSUME CmdInv, UNCHANGED cmdVars PROVE CmdInv'
<1>1. CmdTypeOK'
  BY DEF CmdInv, cmdVars, CmdTypeOK
<1>2. StatusNow' = StatusNow
  BY StatusKept DEF cmdVars
<1>3. Known' /\ Cached' /\ Turn' /\ Once'
  BY <1>2 DEF CmdInv, cmdVars, Known, Cached, Turn, Once, Aimed
<1>4. Agreed'
  BY DEF CmdInv, cmdVars, Agreed, Named, Questions, EnableAllowed, DisableAllowed
<1> QED
  BY <1>1, <1>3, <1>4 DEF CmdInv

LEMMA CmdInductive == CmdSpec => []CmdInv
<1>1. ASSUME CmdInv, [CmdNext]_cmdVars PROVE CmdInv'
  <2>1. CASE UNCHANGED cmdVars
    BY <1>1, <2>1, CmdStutterHolds
  <2>2. CASE \E verb \in Verbs, yes \in BOOLEAN, s, t \in Offers :
               BeginCommand(verb, IF s = t THEN <<s>> ELSE <<s, t>>, yes)
    BY <1>1, <2>2, BeginHolds
  <2>3. CASE AlreadyOn
    <3>1. cmd.at # "idle" /\ cmd.todo # <<>> /\ FailTurn("raised")
      BY <2>3 DEF AlreadyOn
    <3> QED
      BY <1>1, <3>1, FailTurnHolds
  <2>4. CASE Decline
    <3>1. cmd.at # "idle" /\ cmd.todo # <<>> /\ FailTurn("raised")
      BY <2>4 DEF Decline
    <3> QED
      BY <1>1, <3>1, FailTurnHolds
  <2>5. CASE LockedOut
    <3>1. cmd.at # "idle" /\ cmd.todo # <<>> /\ FailTurn("raised")
      BY <2>5 DEF LockedOut
    <3> QED
      BY <1>1, <3>1, FailTurnHolds
  <2>6. CASE Break
    <3>1. cmd.at # "idle" /\ cmd.todo # <<>> /\ \E why \in {"raised", "returned"} : FailTurn(why)
      BY <1>1, <2>6 DEF Break, CmdInv, Turn
    <3> QED
      BY <1>1, <3>1, FailTurnHolds
  <2> QED
    BY <1>1, <2>1, <2>2, <2>3, <2>4, <2>5, <2>6, AgreeHolds, PlanHolds, PerformHolds, EndTurnHolds,
       EndCommandHolds, KillHolds, OthersHold, WriteStatusHolds, BootHolds DEF CmdNext
<1> QED
  BY <1>1, CmdInitHolds, PTL DEF CmdSpec

\* The services, their status and the command under way keep their types in every reachable state.
THEOREM CommandsTypeCorrect == CmdSpec => []CmdTypeOK
<1>1. CmdInv => CmdTypeOK
  BY DEF CmdInv
<1> QED
  BY <1>1, CmdInductive, PTL

\* A command on one service does nothing that the user did not ask for or agree to, ends with
\* the service as asked, and leaves status.json true, whatever the services, their dependencies,
\* the contract and the machine.  (action_enable, action_disable, handle_incompatible_services)
THEOREM CommandsDoAsAgreed == CmdSpec => []CommandsAsAgreed
<1>1. CmdInv => CommandsAsAgreed
  <2>1. SUFFICES ASSUME CmdInv PROVE CommandsAsAgreed
    OBVIOUS
  <2>2. Cached /\ Once /\ Agreed
    BY <2>1 DEF CmdInv
  <2>3. cmd.at # "act" => cmd.moved = {}
    BY <2>2 DEF Cached
  <2> QED
    BY <2>2, <2>3 DEF CommandsAsAgreed, Cached, Once, Agreed
<1> QED
  BY <1>1, CmdInductive, PTL

===============================================================================
