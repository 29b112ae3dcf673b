---------------------------- MODULE Machine_proofs ----------------------------
(* Theorems of what the client keeps on the machine: the news it shows, its own files through
   an upgrade of its package, and the files of apt. *)
EXTENDS AptNews, PackageUpgrade, AptFiles, WellFoundedInduction, TLAPS

-------------------------------------------------------------------------------
(* AptNews, for every list of messages the server may hold. *)

Shape == writers = [w \in Writers |-> [at |-> writers[w].at, news |-> writers[w].news]]
Active(w) == writers[w].at \notin {"off", "asked"}
Numbers ==
    /\ tick \in Int /\ stamp \in Int /\ fetched \in Int /\ hitches \in Nat
    /\ stamp <= tick /\ fetched <= tick

LEMMA AtOfSets ==
    ASSUME Shape, NEW w \in Writers, NEW at, AtOf(w, at)
    PROVE  /\ Shape' /\ writers'[w].at = at
           /\ at # "off" => writers'[w].news = writers[w].news
           /\ \A v \in Writers \ {w} : writers'[v] = writers[v]
BY DEF Shape, AtOf, Off

LEMMA OffSets ==
    ASSUME Shape, NEW w \in Writers, writers' = [writers EXCEPT ![w] = Off]
    PROVE  /\ Shape' /\ writers'[w].at = "off"
           /\ \A v \in Writers \ {w} : writers'[v] = writers[v]
BY DEF Shape, Off

LEMMA HasSets ==
    ASSUME Shape, NEW w \in Writers, NEW at, NEW news, Has(w, at, news)
    PROVE  /\ Shape' /\ writers'[w].at = at
           /\ \A v \in Writers \ {w} : writers'[v] = writers[v]
BY DEF Shape, Has

LEMMA ShapeStep == ASSUME Shape, [NewsNext]_newsVars PROVE Shape'
<1>1. CASE UNCHANGED writers
  BY <1>1 DEF Shape
<1>2. "service" \in Writers /\ "command" \in Writers
  BY DEF Writers
<1>3. CASE StartUpdate \/ ServiceDecides \/ CommandWrites \/ Silence
  BY <1>1, <1>2, <1>3, AtOfSets DEF StartUpdate, ServiceDecides, CommandWrites, Silence
<1>5. CASE SwitchOff
  BY <1>2, <1>5, OffSets DEF SwitchOff
<1>4. ASSUME NEW w \in Writers,
             \/ LookLocally(w) \/ FetchNews(w) \/ WriteRaw(w) \/ WriteDisplay(w)
             \/ DeleteDisplay(w) \/ DeleteRaw(w) \/ KillWriter(w)
      PROVE  Shape'
  BY <1>4, AtOfSets, OffSets, HasSets
  DEF LookLocally, FetchNews, WriteRaw, WriteDisplay, DeleteDisplay, DeleteRaw, KillWriter
<1> QED
  BY <1>1, <1>3, <1>4, <1>5 DEF NewsNext, newsVars, EndUpdate, SwitchOn, Tick

LEMMA NumbersStep == ASSUME Numbers, [NewsNext]_newsVars PROVE Numbers' /\ hitches <= hitches'
<1> USE DEF Numbers
<1>1. CASE UNCHANGED newsVars
  BY <1>1 DEF newsVars
<1>2. CASE StartUpdate
  BY <1>2 DEF StartUpdate
<1>3. CASE EndUpdate
  BY <1>3 DEF EndUpdate
<1>4. CASE ServiceDecides
  BY <1>4 DEF ServiceDecides
<1>5. CASE CommandWrites
  BY <1>5 DEF CommandWrites
<1>6. CASE SwitchOn \/ Silence \/ SwitchOff
  BY <1>6 DEF SwitchOn, Silence, SwitchOff
<1>7. CASE Tick
  BY <1>7 DEF Tick
<1>8. ASSUME NEW w \in Writers,
             \/ LookLocally(w) \/ WriteRaw(w) \/ WriteDisplay(w)
             \/ DeleteDisplay(w) \/ DeleteRaw(w) \/ KillWriter(w)
      PROVE  Numbers' /\ hitches <= hitches'
  BY <1>8 DEF LookLocally, WriteRaw, WriteDisplay, DeleteDisplay, DeleteRaw, KillWriter
<1>9. ASSUME NEW w \in Writers, FetchNews(w) PROVE Numbers' /\ hitches <= hitches'
  BY <1>9 DEF FetchNews
<1> QED
  BY <1>1, <1>2, <1>3, <1>4, <1>5, <1>6, <1>7, <1>8, <1>9 DEF NewsNext

-----------------------------------------------------------------------------
\* Without a hitch, one writer is at work at a time; between its two steps the first file is
\* as the second will be.
InTurn ==
    /\ \A v, w \in Writers : Active(v) /\ Active(w) => v = w
    /\ \A w \in Writers : writers[w].at = "display" => raw = writers[w].news
    /\ \A w \in Writers : writers[w].at = "unraw" => display = Nothing
    /\ \A w \in Writers : writers[w].at = "storeOff" => hushed
    /\ (\A w \in Writers : ~Active(w)) /\ ~hushed => raw = display

LEMMA InTurnStep ==
    ASSUME Shape, Numbers, InTurn, [NewsNext]_newsVars, hitches = 0, hitches' = 0
    PROVE  InTurn'
<1> USE DEF InTurn, Active
<1>0. "service" \in Writers /\ "command" \in Writers
  BY DEF Writers
<1>1. CASE UNCHANGED <<writers, raw, display, hushed>>
  BY <1>1
<1>2. CASE StartUpdate
  <2>1. CASE writers["service"].at = "off"
    <3>1. AtOf("service", "asked") /\ UNCHANGED <<raw, display, hushed>>
      BY <1>2, <2>1 DEF StartUpdate
    <3> QED
      BY <3>1, <2>1, <1>0, AtOfSets
  <2> QED
    BY <1>1, <1>2, <2>1 DEF StartUpdate
<1>3. CASE ServiceDecides
  <2> DEFINE goes == newsOn /\ stamp <= tick - DayLength
  <2>1. CASE goes
    <3>1. AtOf("service", "local") /\ Alone("service") /\ UNCHANGED <<raw, display, hushed>>
      BY <1>3, <2>1 DEF ServiceDecides
    <3> QED
      BY <3>1, <1>0, AtOfSets DEF Alone
  <2>2. CASE ~goes
    <3>1. AtOf("service", "off") /\ writers["service"].at = "asked" /\ UNCHANGED <<raw, display, hushed>>
      BY <1>3, <2>2 DEF ServiceDecides
    <3> QED
      BY <3>1, <1>0, AtOfSets
  <2> QED
    BY <2>1, <2>2
<1>4. CASE CommandWrites
  <2>1. AtOf("command", "local") /\ Alone("command") /\ UNCHANGED <<raw, display, hushed>>
    BY <1>4 DEF CommandWrites
  <2> QED
    BY <2>1, <1>0, AtOfSets DEF Alone
<1>5. CASE Silence
  <2>1. /\ \A w \in Writers : ~Active(w)
        /\ hushed' = TRUE /\ AtOf("command", "storeOff")
    BY <1>5 DEF Silence
  <2> QED
    BY <2>1, <1>0, AtOfSets
<1>13. CASE SwitchOff
  <2>1. /\ writers["command"].at = "storeOff" /\ writers' = [writers EXCEPT !["command"] = Off]
        /\ UNCHANGED <<raw, display, hushed>>
    BY <1>13 DEF SwitchOff
  <2>2. hushed'
    BY <2>1, <1>0
  <2>3. \A w \in Writers : writers[w].at \in {"off", "asked"} \/ w = "command"
    BY <2>1, <1>0
  <2>4. /\ writers'["command"].at = "off"
        /\ \A v \in Writers \ {"command"} : writers'[v] = writers[v]
    BY <2>1, <1>0, OffSets
  <2>5. \A w \in Writers : writers'[w].at \in {"off", "asked"}
    BY <2>3, <2>4
  <2> QED
    BY <2>2, <2>5
<1>6. ASSUME NEW w \in Writers, LookLocally(w) PROVE InTurn'
  <2>1. /\ writers[w].at = "local" /\ UNCHANGED <<raw, display, hushed>>
        /\ Has(w, "raw", contractStage) \/ AtOf(w, "fetch")
    BY <1>6 DEF LookLocally
  <2> QED
    BY <2>1, AtOfSets, HasSets
<1>7. ASSUME NEW w \in Writers, FetchNews(w) PROVE InTurn'
  <2>1. PICK news : Has(w, IF news = Nothing THEN "undisplay" ELSE "raw", news)
    BY <1>7 DEF FetchNews
  <2>2. writers[w].at = "fetch" /\ UNCHANGED <<raw, display, hushed>>
    BY <1>7 DEF FetchNews
  <2>3. /\ writers'[w].at \in {"undisplay", "raw"}
        /\ \A v \in Writers \ {w} : writers'[v] = writers[v]
    BY <2>1, HasSets
  <2>4. \A v \in Writers \ {w} : writers[v].at \in {"off", "asked"}
    BY <2>2
  <2> QED
    BY <2>2, <2>3, <2>4
<1>8. ASSUME NEW w \in Writers, WriteRaw(w) PROVE InTurn'
  <2>1. /\ writers[w].at = "raw" /\ UNCHANGED <<display, hushed>>
        /\ \/ AtOf(w, "display") /\ raw' = writers[w].news
           \/ AtOf(w, "undisplay")
    BY <1>8 DEF WriteRaw
  <2>2. /\ \/ writers'[w].at = "display" /\ writers'[w].news = writers[w].news /\ raw' = writers[w].news
           \/ writers'[w].at = "undisplay"
        /\ \A v \in Writers \ {w} : writers'[v] = writers[v]
    BY <2>1, AtOfSets
  <2>3. \A v \in Writers \ {w} : writers[v].at \in {"off", "asked"}
    BY <2>1
  <2> QED
    BY <2>1, <2>2, <2>3
<1>9. ASSUME NEW w \in Writers, WriteDisplay(w) PROVE InTurn'
  <2>1. writers[w].at = "display" /\ raw' = raw
    BY <1>9 DEF WriteDisplay
  <2>2. CASE writers' = [writers EXCEPT ![w] = Off] /\ display' = writers[w].news
    BY <2>1, <2>2, OffSets
  <2>3. CASE AtOf(w, "undisplay") /\ UNCHANGED <<display, hushed>>
    BY <2>1, <2>3, AtOfSets
  <2> QED
    BY <1>9, <2>2, <2>3 DEF WriteDisplay
<1>10. ASSUME NEW w \in Writers, DeleteDisplay(w) PROVE InTurn'
  <2>1. /\ writers[w].at = "undisplay" /\ AtOf(w, "unraw") /\ display' = Nothing
        /\ UNCHANGED <<raw, hushed>>
    BY <1>10 DEF DeleteDisplay
  <2> QED
    BY <2>1, AtOfSets
<1>11. ASSUME NEW w \in Writers, DeleteRaw(w) PROVE InTurn'
  <2>1. /\ writers[w].at = "unraw" /\ writers' = [writers EXCEPT ![w] = Off]
        /\ raw' = Nothing /\ display' = display
    BY <1>11 DEF DeleteRaw
  <2> QED
    BY <2>1, OffSets
<1>12. ASSUME NEW w \in Writers, KillWriter(w) PROVE FALSE
  BY <1>12 DEF KillWriter
<1> QED
  BY <1>1, <1>2, <1>3, <1>4, <1>5, <1>6, <1>7, <1>8, <1>9, <1>10, <1>11, <1>12, <1>13
  DEF NewsNext, newsVars, EndUpdate, SwitchOn, Tick

-----------------------------------------------------------------------------
\* Without a hitch, a fetch that apt's stamp does not show yet is one of an update still at
\* work, which keeps the service from being started again.
At == writers["service"].at
Daily ==
    /\ At # "off" => updating \/ stamp = tick
    /\ stamp < fetched => updating /\ At \notin {"asked", "local", "fetch"}
    /\ At \in {"local", "fetch"} => fetched <= tick - DayLength

LEMMA DailyStep ==
    ASSUME Shape, Numbers, Daily, [NewsNext]_newsVars, hitches = 0, hitches' = 0
    PROVE  Daily'
<1> USE DEF Numbers, Daily, DayLength
<1>0. "service" \in Writers /\ "command" \in Writers /\ "command" # "service"
  BY DEF Writers
<1>1. CASE UNCHANGED <<At, updating, stamp, tick, fetched>>
  BY <1>1
<1>2. CASE StartUpdate
  <2>1. updating' = TRUE /\ ~updating /\ UNCHANGED <<stamp, tick, fetched>>
    BY <1>2 DEF StartUpdate
  <2>2. ~(stamp' < fetched')
    BY <2>1
  <2>3. IF At = "off" THEN At' = "asked" ELSE At' = At
    BY <1>0, <1>2, AtOfSets DEF StartUpdate, At
  <2> QED
    BY <2>1, <2>2, <2>3
<1>3. CASE EndUpdate
  BY <1>3 DEF EndUpdate, At
<1>4. CASE ServiceDecides
  <2>1. At = "asked" /\ UNCHANGED <<updating, stamp, tick, fetched>>
    BY <1>4 DEF ServiceDecides, At
  <2>2. \/ At' = "local" /\ stamp <= tick - DayLength
        \/ At' = "off"
    BY <1>0, <1>4, AtOfSets DEF ServiceDecides, At
  <2> QED
    BY <2>1, <2>2
<1>5. CASE Tick
  <2>1. ~updating /\ At = "off" /\ At' = At /\ UNCHANGED <<updating, stamp, fetched>>
    BY <1>0, <1>5 DEF Tick, At, Off
  <2> QED
    BY <2>1
<1>6. CASE CommandWrites \/ Silence
  BY <1>0, <1>1, <1>6, AtOfSets DEF CommandWrites, Silence, At
<1>10. CASE SwitchOff
  BY <1>0, <1>1, <1>10, OffSets DEF SwitchOff, At
<1>7. ASSUME NEW w \in Writers, FetchNews(w) PROVE Daily'
  <2>1. PICK news : Has(w, IF news = Nothing THEN "undisplay" ELSE "raw", news)
    BY <1>7 DEF FetchNews
  <2>2. /\ writers[w].at = "fetch" /\ UNCHANGED <<updating, stamp, tick>>
        /\ fetched' = IF w = "service" THEN tick ELSE fetched
    BY <1>7 DEF FetchNews
  <2>3. CASE w = "service"
    <3>1. At = "fetch" /\ At' \in {"undisplay", "raw"} /\ fetched' = tick
      BY <2>1, <2>2, <2>3, <1>0, HasSets DEF At
    <3> QED
      BY <2>2, <3>1
  <2>4. CASE w # "service"
    BY <1>0, <1>1, <2>1, <2>2, <2>4, HasSets DEF At
  <2> QED
    BY <2>3, <2>4
<1>8. ASSUME NEW w \in Writers,
             LookLocally(w) \/ WriteRaw(w) \/ WriteDisplay(w) \/ DeleteDisplay(w) \/ DeleteRaw(w)
      PROVE  Daily'
  <2>1. UNCHANGED <<updating, stamp, tick, fetched>>
    BY <1>8 DEF LookLocally, WriteRaw, WriteDisplay, DeleteDisplay, DeleteRaw
  <2>2. \/ At' = At
        \/ At = "local" /\ At' = "fetch"
        \/ At \notin {"off", "asked"} /\ At' \notin {"asked", "local", "fetch"}
    BY <1>0, <1>8, AtOfSets, HasSets, OffSets
    DEF LookLocally, WriteRaw, WriteDisplay, DeleteDisplay, DeleteRaw, At
  <2> QED
    BY <2>1, <2>2
<1>9. ASSUME NEW w \in Writers, KillWriter(w) PROVE FALSE
  BY <1>9 DEF KillWriter
<1> QED
  BY <1>1, <1>2, <1>3, <1>4, <1>5, <1>6, <1>7, <1>8, <1>9, <1>10
  DEF NewsNext, newsVars, SwitchOn, At

LEMMA NeverTooSoon ==
    ASSUME Numbers, Daily, ~tooSoon, [NewsNext]_newsVars
    PROVE  ~tooSoon'
<1>1. CASE tooSoon' = tooSoon
  BY <1>1
<1>2. ASSUME NEW w \in Writers, FetchNews(w) PROVE ~tooSoon'
  <2>1. w = "service" => ~(fetched > tick - DayLength)
    BY <1>2 DEF FetchNews, Daily, At, Numbers, DayLength
  <2> QED
    BY <1>2, <2>1 DEF FetchNews
<1> QED
  BY <1>1, <1>2
  DEF NewsNext, newsVars, StartUpdate, EndUpdate, ServiceDecides, CommandWrites, SwitchOn, Silence,
      SwitchOff, Tick, LookLocally, WriteRaw, WriteDisplay, DeleteDisplay, DeleteRaw, KillWriter

-----------------------------------------------------------------------------
Smooth == hitches = 0 => InTurn /\ Daily /\ ~tooSoon

LEMMA NewsStart == NewsInit => Shape /\ Numbers /\ Smooth
<1> SUFFICES ASSUME NewsInit PROVE Shape /\ Numbers /\ Smooth
  OBVIOUS
<1>1. writers = [w \in Writers |-> [at |-> "off", news |-> Nothing]]
  BY DEF NewsInit, Off
<1>2. Shape
  BY <1>1 DEF Shape
<1>3. Numbers
  BY DEF NewsInit, Numbers, Never
<1>4. InTurn
  BY <1>1 DEF NewsInit, InTurn, Active
<1>5. At = "off"
  BY <1>1 DEF At, Writers
<1>6. ~(stamp < fetched)
  BY DEF NewsInit, Never
<1>7. Daily
  BY <1>5, <1>6 DEF Daily
<1>8. ~tooSoon
  BY DEF NewsInit
<1> QED
  BY <1>2, <1>3, <1>4, <1>7, <1>8 DEF Smooth

LEMMA SmoothStep ==
    ASSUME Shape, Numbers, Smooth, [NewsNext]_newsVars
    PROVE  Smooth'
<1> SUFFICES ASSUME hitches' = 0 PROVE (InTurn /\ Daily /\ ~tooSoon)'
  BY DEF Smooth
<1>1. hitches = 0
  BY NumbersStep DEF Numbers
<1>2. InTurn /\ Daily /\ ~tooSoon
  BY <1>1 DEF Smooth
<1> QED
  BY <1>1, <1>2, InTurnStep, DailyStep, NeverTooSoon

\* As long as no writers overlap, none is killed and every apt update succeeds, the service
\* fetches at most once a day and what the API returns is what apt shows.  (update_apt_news)
THEOREM NewsHolds == NewsSpec => []NewsSound
<1>1. Shape /\ Numbers /\ Smooth /\ [NewsNext]_newsVars => (Shape /\ Numbers /\ Smooth)'
  BY ShapeStep, NumbersStep, SmoothStep
<1>2. Smooth => NewsSound
  BY DEF Smooth, NewsSound, InTurn, Active
<1> QED
  BY <1>1, <1>2, NewsStart, PTL DEF NewsSpec

-------------------------------------------------------------------------------
(* PackageUpgrade, from every earlier version and for every number of scripts cut short. *)

\* Everything uaclient.conf said, as it lies in a copy of it; nothing said, and no copy.
HasAll(c) == /\ c.proxy = wanted.proxy /\ c.rest = wanted.rest
             /\ c.form \in {"old", "broken"} /\ c # OldDefault
NoneSet == wanted.proxy = "none" /\ wanted.rest = {} /\ backup = Absent /\ bak = Absent
Saved == backup = bak /\ HasAll(bak)
Shortened(c) == [NewDefault EXCEPT !.rest = c.rest \cap Carried]

Default(s) == IF wanted.proxy = "none" THEN "absent" ELSE s

\* Where the migrations, and the steps for the credentials, are over.
Late == \/ place \in {"mark", "snapshots", "installed"}
        \/ prior >= 3100 /\ place \in {"tidy", "token", "keys"}
Done == \/ place = "installed"
        \/ prior >= 3100 /\ place \in {"tidy", "token", "keys"}
Moving == {"keys", "hide", "publish", "mark", "snapshots", "installed"}

\* What uaclient.conf said, on its way out of it or already out of it, if no script is cut short.
FromConf ==
    /\ place \in {"old", "back-up", "copy"} =>
        /\ conf.proxy = wanted.proxy /\ conf.rest = wanted.rest /\ conf.form \in {"old", "broken"}
        /\ bak \in {Absent, conf} /\ (bak # Absent => conf # OldDefault)
        /\ place \in {"back-up", "copy"} => conf # OldDefault
        /\ backup = IF place = "copy" THEN conf ELSE Absent
    /\ place = "default" => Saved
    /\ place = "unpack" => (Saved /\ conf = NewDefault) \/ (NoneSet /\ conf = OldDefault)
    /\ place \in {"tidy", "token", "notices"} => conf = NewDefault /\ (Saved \/ NoneSet)
    /\ place \in {"user-config", "conffile"} => Saved
    /\ place = "compare" => HasAll(bak) /\ backup \in {bak, Shortened(bak)}
    /\ place = "restore" => \/ HasAll(bak) /\ backup = Shortened(bak)
                            \/ HasAll(backup) /\ bak = Absent
    /\ place \in Moving =>
        \/ HasAll(bak) /\ conf = Shortened(bak)
        \/ HasAll(conf) /\ bak = Absent
        \/ NoneSet /\ conf = NewDefault

FromFile ==
    /\ conf.form = "new" /\ conf.rest = wanted.rest /\ backup = Absent /\ bak = Absent
    /\ place # "purged" => Effective = wanted.proxy
    /\ prior < 3200 /\ ~Late /\ place \in {"old", "unpack", "tidy", "token", "keys", "hide"} =>
        hidden = "absent"
    /\ place = "hide" => open # "absent"
    /\ place = "publish" => hidden # "absent"

NothingLost ==
    cuts = 0 => /\ prior < 2714 => FromConf
                /\ prior >= 2714 => FromFile

\* What was wanted, on its way from file to file, if moreover no warning is given.
Untouched == cuts = 0 /\ ~warned
Present(f) == f = wanted.proxy \/ (f = "absent" /\ wanted.proxy = "none")
InPlace ==
    /\ prior < 2714 =>
        /\ place \in Preparing \cup {"old", "tidy", "token", "notices", "user-config"} =>
            open = "absent"
        /\ place \in {"conffile", "compare", "restore"} => Present(open)
        /\ place \in {"compare", "restore"} => backup = Shortened(bak) /\ bak # Absent
        /\ place \in Moving => conf.form = "new" /\ conf.rest = wanted.rest \cap Carried
    /\ ~Late /\ place \notin {"publish", "removed", "purged"} =>
        hidden = IF prior < 3200 THEN "absent" ELSE Default(wanted.proxy)
    /\ prior >= 2714 /\ ~Late /\ place \notin {"hide", "publish", "removed", "purged"} =>
        open = IF prior < 3200 THEN Default(wanted.proxy) ELSE Default(RedactOne(wanted.proxy))
    /\ prior < 3200 /\ place \in {"keys", "hide"} /\ ~Late => Present(open)
    /\ place = "hide" => open # "absent"
    /\ place = "publish" => hidden = wanted.proxy /\ open = "absent"
    /\ Late => Effective = wanted.proxy /\ Redacted
    /\ disk.enabled /\ ~Done /\ place \notin {"removed", "purged"} => "snapshot" \notin disk.auth
    /\ disk.enabled /\ Done => ("snapshot" \in disk.auth <=> disk.usual /\ ~Swept)

SettingsKept == Untouched => InPlace

\* What a script cut short cannot spoil.
NoPassword ==
    /\ prior >= 3200 \/ Late => open # "secret"
    /\ place = "publish" => open = "absent"
    /\ place = "hide" => prior < 3200
    /\ place \in {"back-up", "copy", "default", "notices", "user-config", "conffile",
                  "compare", "restore"} => prior < 2714

\* What a service is enabled by: the token, the source and the key, as far as the scripts got.
SourcesKept ==
    /\ disk.enabled /\ place # "purged" => disk.token
    /\ disk.key = "old" => prior < 2900
    /\ disk.source = "dated" => prior < 2703
    /\ place \in Migrating \cup {"installed", "removed", "purged"} => disk.key # "old"
    /\ place \in (Configuring \ {"tidy"}) \cup {"installed"} =>
        /\ disk.source # "dated"
        /\ Swept => disk.source = "none" /\ disk.key = "none"
    /\ place \notin {"removed", "purged"} /\ disk.enabled /\ ~Swept =>
        disk.source # "none" /\ disk.key # "none"
    /\ prior >= 2711 \/ place \in (Configuring \ {"tidy", "token"}) \cup {"installed"} =>
        (disk.token => disk.publicToken)
    /\ Done \/ place = "snapshots" => (disk.token => disk.series)
    /\ place = "purged" => disk.key = "none" /\ hidden = "absent"

BackedUp == place \in {"user-config", "conffile", "compare", "restore"} => backup # Absent

\* The inductive invariant.
UpgradeInv == UpgradeTypeOK /\ BackedUp /\ NothingLost /\ SettingsKept /\ NoPassword /\ SourcesKept

LEMMA ConfFacts ==
    /\ NewDefault \in Conf /\ OldDefault \in Conf /\ Absent \notin Conf
    /\ Proxy \subseteq Setting /\ "absent" \in Setting
    /\ \A s \in Setting : RedactOne(s) \in Setting
    /\ \A b \in Conf \cup {Absent} : b.rest \in SUBSET Extras /\ (b # Absent => b.proxy \in Proxy)
    /\ \A b \in SUBSET Extras : /\ [NewDefault EXCEPT !.rest = b] \in Conf
                          /\ [NewDefault EXCEPT !.rest = b] # Absent
<1>1. NewDefault \in Conf /\ OldDefault \in Conf /\ Absent \notin Conf
  BY DEF NewDefault, OldDefault, Absent, Conf, Proxy
<1>2. /\ Proxy \subseteq Setting /\ "absent" \in Setting
      /\ \A s \in Setting : RedactOne(s) \in Setting
  BY DEF Proxy, Setting, RedactOne
<1>3. \A b \in Conf \cup {Absent} : b.rest \in SUBSET Extras /\ (b # Absent => b.proxy \in Proxy)
  <2>1. ASSUME NEW b \in Conf PROVE b.rest \in SUBSET Extras /\ b.proxy \in Proxy
    BY <2>1 DEF Conf
  <2>2. Absent.rest = {}
    BY DEF Absent
  <2>3. ASSUME NEW b \in Conf \cup {Absent}
        PROVE  b.rest \in SUBSET Extras /\ (b # Absent => b.proxy \in Proxy)
    <3>1. CASE b \in Conf
      BY <2>1, <3>1
    <3>2. CASE b = Absent
      BY <2>2, <3>2
    <3> QED
      BY <2>3, <3>1, <3>2
  <2> QED
    BY <2>3
<1>4. ASSUME NEW b \in SUBSET Extras
      PROVE  /\ [NewDefault EXCEPT !.rest = b] \in Conf
             /\ [NewDefault EXCEPT !.rest = b] # Absent
  BY DEF NewDefault, Absent, Conf, Proxy
<1> QED
  BY <1>1, <1>2, <1>3, <1>4

\* A disk of which one thing changes is a disk.
LEMMA DiskField ==
    ASSUME NEW d \in Disks
    PROVE  /\ \A x \in {"none", "dated", "named"} : [d EXCEPT !.source = x] \in Disks
           /\ \A x \in {"none", "old", "new"} : [d EXCEPT !.key = x] \in Disks
           /\ \A x \in SUBSET {"repo", "snapshot"} : [d EXCEPT !.auth = x] \in Disks
           /\ \A x \in SUBSET Facts : [d EXCEPT !.facts = x] \in Disks
           /\ \A x \in SUBSET (Facts \cup {"reboot"}) : [d EXCEPT !.notices = x] \in Disks
           /\ \A x \in BOOLEAN : [d EXCEPT !.reboot = x] \in Disks
           /\ \A x \in BOOLEAN : [d EXCEPT !.oldTimer = x] \in Disks
           /\ \A x \in BOOLEAN : [d EXCEPT !.timer = x] \in Disks
           /\ \A x \in BOOLEAN : [d EXCEPT !.series = x] \in Disks
           /\ \A x \in BOOLEAN : [d EXCEPT !.token = x] \in Disks
           /\ \A x \in BOOLEAN : [d EXCEPT !.publicToken = x] \in Disks
<1>1. ASSUME NEW x \in {"none", "dated", "named"} PROVE [d EXCEPT !.source = x] \in Disks
  BY DEF Disks
<1>2. ASSUME NEW x \in {"none", "old", "new"} PROVE [d EXCEPT !.key = x] \in Disks
  BY DEF Disks
<1>3. ASSUME NEW x \in SUBSET {"repo", "snapshot"} PROVE [d EXCEPT !.auth = x] \in Disks
  BY DEF Disks
<1>4. ASSUME NEW x \in SUBSET Facts PROVE [d EXCEPT !.facts = x] \in Disks
  BY DEF Disks
<1>5. ASSUME NEW x \in SUBSET (Facts \cup {"reboot"}) PROVE [d EXCEPT !.notices = x] \in Disks
  BY DEF Disks
<1>6. ASSUME NEW x \in BOOLEAN PROVE [d EXCEPT !.reboot = x] \in Disks
  BY DEF Disks
<1>7. ASSUME NEW x \in BOOLEAN PROVE [d EXCEPT !.oldTimer = x] \in Disks
  BY DEF Disks
<1>8. ASSUME NEW x \in BOOLEAN PROVE [d EXCEPT !.timer = x] \in Disks
  BY DEF Disks
<1>9. ASSUME NEW x \in BOOLEAN PROVE [d EXCEPT !.series = x] \in Disks
  BY DEF Disks
<1>10. ASSUME NEW x \in BOOLEAN PROVE [d EXCEPT !.token = x] \in Disks
  BY DEF Disks
<1>11. ASSUME NEW x \in BOOLEAN PROVE [d EXCEPT !.publicToken = x] \in Disks
  BY DEF Disks
<1> QED
  BY <1>1, <1>2, <1>3, <1>4, <1>5, <1>6, <1>7, <1>8, <1>9, <1>10, <1>11

LEMMA BackedUpStep == ASSUME UpgradeTypeOK, BackedUp, [UpgradeNext]_upgradeVars PROVE BackedUp'
<1> USE ConfFacts DEF UpgradeTypeOK, BackedUp, Resting, Preparing, Configuring, Migrating, Move,
                      Migrations, AfterUnpacking, AfterTools, AfterMigrations
<1>1. CASE Compare
  BY <1>1 DEF Compare
<1>2. CASE BackUp
  BY <1>2 DEF BackUp
<1>3. CASE CopyBak
  BY <1>3 DEF CopyBak
<1>4. CASE InsertDefault
  BY <1>4 DEF InsertDefault
<1>5. CASE Unpack
  BY <1>5 DEF Unpack
<1>6. CASE AbortUpgrade
  BY <1>6 DEF AbortUpgrade
<1>7. CASE Tidy
  BY <1>7 DEF Tidy
<1>8. CASE PublishToken
  BY <1>8 DEF PublishToken
<1>9. CASE MigrateNotices
  BY <1>9 DEF MigrateNotices
<1>10. CASE CreateUserConfig
  BY <1>10 DEF CreateUserConfig
<1>11. CASE CreateConffile
  BY <1>11 DEF CreateConffile
<1>12. CASE CompareBak
  BY <1>12 DEF CompareBak
<1>13. CASE Restore
  BY <1>13 DEF Restore
<1>14. CASE RenameKeys
  BY <1>14 DEF RenameKeys
<1>15. CASE HideConfig
  BY <1>15 DEF HideConfig
<1>16. CASE PublishConfig
  BY <1>16 DEF PublishConfig
<1>17. CASE MarkSeries
  BY <1>17 DEF MarkSeries
<1>18. CASE SnapshotAuth
  BY <1>18 DEF SnapshotAuth
<1>19. CASE Cut
  BY <1>19 DEF Cut
<1>20. CASE RemovePackage
  BY <1>20 DEF RemovePackage
<1>21. CASE Purge
  BY <1>21 DEF Purge
<1>22. CASE UNCHANGED upgradeVars
  BY <1>22 DEF upgradeVars
<1> QED
  BY <1>1, <1>2, <1>3, <1>4, <1>5, <1>6, <1>7, <1>8, <1>9, <1>10, <1>11, <1>12, <1>13, <1>14,
     <1>15, <1>16, <1>17, <1>18, <1>19, <1>20, <1>21, <1>22 DEF UpgradeNext

LEMMA UpgradeTypeStep ==
    ASSUME UpgradeTypeOK, BackedUp, [UpgradeNext]_upgradeVars PROVE UpgradeTypeOK'
<1> USE ConfFacts DEF UpgradeTypeOK, BackedUp, Resting, Preparing, Configuring, Migrating, Move,
                      Migrations, AfterUnpacking, AfterTools, AfterMigrations
<1>1. CASE Compare
  BY <1>1 DEF Compare
<1>2. CASE BackUp
  BY <1>2 DEF BackUp
<1>3. CASE CopyBak
  BY <1>3 DEF CopyBak
<1>4. CASE InsertDefault
  BY <1>4 DEF InsertDefault
<1>5. CASE Unpack
  BY <1>5 DEF Unpack
<1>6. CASE AbortUpgrade
  BY <1>6 DEF AbortUpgrade
<1>7. CASE Tidy
  <2>1. disk \in Disks
    OBVIOUS
  <2>2. ASSUME NEW src \in {"none", "dated", "named"}, NEW key \in {"none", "old", "new"},
               NEW notices \in SUBSET (Facts \cup {"reboot"}), NEW reboot \in BOOLEAN,
               NEW timer \in BOOLEAN
        PROVE  [disk EXCEPT !.source = src, !.key = key, !.notices = notices,
                            !.reboot = reboot, !.timer = timer, !.oldTimer = FALSE] \in Disks
    <3> DEFINE d1 == [disk EXCEPT !.source = src]
               d2 == [d1 EXCEPT !.key = key]
               d3 == [d2 EXCEPT !.notices = notices]
               d4 == [d3 EXCEPT !.reboot = reboot]
               d5 == [d4 EXCEPT !.timer = timer]
               d6 == [d5 EXCEPT !.oldTimer = FALSE]
    <3>1. d1 \in Disks
      BY <2>1, DiskField
    <3> HIDE DEF d1
    <3>2. d2 \in Disks
      BY <3>1, DiskField
    <3> HIDE DEF d2
    <3>3. d3 \in Disks
      BY <3>2, DiskField
    <3> HIDE DEF d3
    <3>4. d4 \in Disks
      BY <3>3, DiskField
    <3> HIDE DEF d4
    <3>5. d5 \in Disks
      BY <3>4, DiskField
    <3> HIDE DEF d5
    <3>6. d6 \in Disks
      BY <3>5, DiskField
    <3>7. d6 = [disk EXCEPT !.source = src, !.key = key, !.notices = notices,
                            !.reboot = reboot, !.timer = timer, !.oldTimer = FALSE]
      BY DEF d1, d2, d3, d4, d5
    <3> QED
      BY <3>6, <3>7
  <2> DEFINE src == IF Swept THEN "none" ELSE IF disk.source = "dated" THEN "named" ELSE disk.source
             key == IF Swept THEN "none" ELSE disk.key
             notices == disk.notices
                          \cup (disk.facts \cap {"old-ppa", "cloud-metapackage", "fips-held"})
             reboot == disk.reboot \/ "fips-held" \in disk.facts
             timer == disk.timer /\ (prior \in 2700..2702 => disk.oldTimer)
  <2>3. disk' = [disk EXCEPT !.source = src, !.key = key, !.notices = notices,
                             !.reboot = reboot, !.timer = timer, !.oldTimer = FALSE]
    BY <1>7 DEF Tidy
  <2>4. disk' \in Disks
    <3>1. src \in {"none", "dated", "named"} /\ key \in {"none", "old", "new"}
          /\ reboot \in BOOLEAN /\ timer \in BOOLEAN
      BY <2>1 DEF Disks
    <3>2. notices \in SUBSET (Facts \cup {"reboot"})
      BY <2>1 DEF Disks
    <3> HIDE DEF src, key, notices, reboot, timer
    <3> QED
      BY <2>2, <2>3, <3>1, <3>2
  <2> QED
    BY <1>7, <2>4 DEF Tidy
<1>8. CASE PublishToken
  BY <1>8 DEF PublishToken, Disks, Facts
<1>9. CASE MigrateNotices
  <2>1. disk.facts \ {"reboot-noticed"} \in SUBSET Facts
    BY DEF Disks
  <2>2. ASSUME NEW facts \in SUBSET Facts, NEW notices \in SUBSET (Facts \cup {"reboot"})
        PROVE  [disk EXCEPT !.facts = facts, !.notices = notices] \in Disks
    <3> DEFINE d1 == [disk EXCEPT !.facts = facts]
    <3>1. d1 \in Disks
      BY <2>2, DiskField
    <3> HIDE DEF d1
    <3>2. [d1 EXCEPT !.notices = notices] \in Disks
      BY <2>2, <3>1, DiskField
    <3> QED
      BY <3>2 DEF d1
  <2>3. disk.notices \cup (IF "reboot-noticed" \in disk.facts THEN {"reboot"} ELSE {})
          \in SUBSET (Facts \cup {"reboot"})
    BY DEF Disks
  <2>4. disk' \in Disks
    BY <1>9, <2>1, <2>2, <2>3 DEF MigrateNotices
  <2> QED
    BY <1>9, <2>4 DEF MigrateNotices
<1>10. CASE CreateUserConfig
  BY <1>10 DEF CreateUserConfig
<1>11. CASE CreateConffile
  BY <1>11 DEF CreateConffile
<1>12. CASE CompareBak
  BY <1>12 DEF CompareBak
<1>13. CASE Restore
  BY <1>13 DEF Restore
<1>14. CASE RenameKeys
  BY <1>14 DEF RenameKeys, Disks, Facts
<1>15. CASE HideConfig
  BY <1>15 DEF HideConfig
<1>16. CASE PublishConfig
  BY <1>16 DEF PublishConfig
<1>17. CASE MarkSeries
  BY <1>17 DEF MarkSeries, Disks, Facts
<1>18. CASE SnapshotAuth
  <2> DEFINE due == disk.enabled /\ disk.source # "none" /\ disk.usual
             lines == disk.auth \cup (IF due THEN {"snapshot"} ELSE {})
  <2>1. lines \in SUBSET {"repo", "snapshot"}
    BY DEF Disks
  <2>2. ASSUME NEW some \in SUBSET {"repo", "snapshot"} PROVE [disk EXCEPT !.auth = some] \in Disks
    BY <2>2, DiskField
  <2>3. disk' = [disk EXCEPT !.auth = lines] \/ disk' = disk
    BY <1>18 DEF SnapshotAuth
  <2> HIDE DEF lines
  <2>4. disk' \in Disks
    BY <2>1, <2>2, <2>3
  <2>5. warned' \in BOOLEAN
    BY <1>18 DEF SnapshotAuth
  <2> QED
    BY <1>18, <2>4, <2>5 DEF SnapshotAuth
<1>19. CASE Cut
  BY <1>19, PriorsAssumption DEF Cut
<1>20. CASE RemovePackage
  BY <1>20 DEF RemovePackage, Disks, Facts
<1>21. CASE Purge
  <2>1. ASSUME NEW key \in {"none", "old", "new"}
        PROVE  [disk EXCEPT !.token = FALSE, !.publicToken = FALSE, !.auth = {}, !.series = FALSE,
                            !.reboot = FALSE, !.key = key] \in Disks
    <3> DEFINE d1 == [disk EXCEPT !.token = FALSE]
               d2 == [d1 EXCEPT !.publicToken = FALSE]
               d3 == [d2 EXCEPT !.auth = {}]
               d4 == [d3 EXCEPT !.series = FALSE]
               d5 == [d4 EXCEPT !.reboot = FALSE]
               d6 == [d5 EXCEPT !.key = key]
    <3>1. d1 \in Disks
      BY DiskField
    <3> HIDE DEF d1
    <3>2. d2 \in Disks
      BY <3>1, DiskField
    <3> HIDE DEF d2
    <3>3. d3 \in Disks
      BY <3>2, DiskField
    <3> HIDE DEF d3
    <3>4. d4 \in Disks
      BY <3>3, DiskField
    <3> HIDE DEF d4
    <3>5. d5 \in Disks
      BY <3>4, DiskField
    <3> HIDE DEF d5
    <3>6. d6 \in Disks
      BY <2>1, <3>5, DiskField
    <3>7. d6 = [disk EXCEPT !.token = FALSE, !.publicToken = FALSE, !.auth = {}, !.series = FALSE,
                            !.reboot = FALSE, !.key = key]
      BY DEF d1, d2, d3, d4, d5
    <3> QED
      BY <3>6, <3>7
  <2>2. (IF disk.key = "new" THEN "none" ELSE disk.key) \in {"none", "old", "new"}
    BY DEF Disks
  <2>3. disk' \in Disks
    BY <1>21, <2>1, <2>2 DEF Purge
  <2> QED
    BY <1>21, <2>3 DEF Purge
<1>22. CASE UNCHANGED upgradeVars
  BY <1>22 DEF upgradeVars
<1> QED
  BY <1>1, <1>2, <1>3, <1>4, <1>5, <1>6, <1>7, <1>8, <1>9, <1>10, <1>11, <1>12, <1>13, <1>14,
     <1>15, <1>16, <1>17, <1>18, <1>19, <1>20, <1>21, <1>22 DEF UpgradeNext

LEMMA NoPasswordStep ==
    ASSUME UpgradeTypeOK, NoPassword, [UpgradeNext]_upgradeVars PROVE NoPassword'
<1> USE PriorsAssumption
    DEF UpgradeTypeOK, Resting, Preparing, Configuring, Migrating, Late, Done, Move, Migrations,
        Swept, AfterUnpacking, AfterTools, AfterMigrations, NoPassword, RedactOne, Setting, Proxy
<1>1. CASE Compare
  BY <1>1 DEF Compare
<1>2. CASE BackUp
  BY <1>2 DEF BackUp
<1>3. CASE CopyBak
  BY <1>3 DEF CopyBak
<1>4. CASE InsertDefault
  BY <1>4 DEF InsertDefault
<1>5. CASE Unpack
  BY <1>5 DEF Unpack
<1>6. CASE AbortUpgrade
  BY <1>6 DEF AbortUpgrade
<1>7. CASE Tidy
  BY <1>7 DEF Tidy
<1>8. CASE PublishToken
  BY <1>8 DEF PublishToken
<1>9. CASE MigrateNotices
  BY <1>9 DEF MigrateNotices
<1>10. CASE CreateUserConfig
  BY <1>10 DEF CreateUserConfig
<1>11. CASE CreateConffile
  BY <1>11 DEF CreateConffile
<1>12. CASE CompareBak
  BY <1>12 DEF CompareBak
<1>13. CASE Restore
  BY <1>13 DEF Restore
<1>14. CASE RenameKeys
  BY <1>14 DEF RenameKeys
<1>15. CASE HideConfig
  BY <1>15 DEF HideConfig
<1>16. CASE PublishConfig
  BY <1>16 DEF PublishConfig
<1>17. CASE MarkSeries
  BY <1>17 DEF MarkSeries
<1>18. CASE SnapshotAuth
  BY <1>18 DEF SnapshotAuth
<1>19. CASE Cut
  BY <1>19 DEF Cut
<1>20. CASE RemovePackage
  BY <1>20 DEF RemovePackage
<1>21. CASE Purge
  BY <1>21 DEF Purge
<1>22. CASE UNCHANGED upgradeVars
  BY <1>22 DEF upgradeVars
<1> QED
  BY <1>1, <1>2, <1>3, <1>4, <1>5, <1>6, <1>7, <1>8, <1>9, <1>10, <1>11, <1>12, <1>13, <1>14,
     <1>15, <1>16, <1>17, <1>18, <1>19, <1>20, <1>21, <1>22 DEF UpgradeNext

LEMMA SourcesKeptStep ==
    ASSUME UpgradeTypeOK, NoPassword, SourcesKept, [UpgradeNext]_upgradeVars PROVE SourcesKept'
<1> USE PriorsAssumption
    DEF UpgradeTypeOK, Resting, Preparing, Configuring, Migrating, Late, Done, Move, Migrations,
        Swept, AfterUnpacking, AfterTools, AfterMigrations, SourcesKept, Disks
<1>1. CASE Compare
  BY <1>1 DEF Compare
<1>2. CASE BackUp
  BY <1>2 DEF BackUp
<1>3. CASE CopyBak
  BY <1>3 DEF CopyBak
<1>4. CASE InsertDefault
  BY <1>4 DEF InsertDefault
<1>5. CASE Unpack
  BY <1>5 DEF Unpack
<1>6. CASE AbortUpgrade
  BY <1>6 DEF AbortUpgrade
<1>7. CASE Tidy
  BY <1>7 DEF Tidy
<1>8. CASE PublishToken
  BY <1>8 DEF PublishToken
<1>9. CASE MigrateNotices
  BY <1>9 DEF MigrateNotices, NoPassword
<1>10. CASE CreateUserConfig
  BY <1>10 DEF CreateUserConfig
<1>11. CASE CreateConffile
  BY <1>11 DEF CreateConffile
<1>12. CASE CompareBak
  BY <1>12 DEF CompareBak
<1>13. CASE Restore
  BY <1>13 DEF Restore, NoPassword
<1>14. CASE RenameKeys
  BY <1>14 DEF RenameKeys
<1>15. CASE HideConfig
  BY <1>15 DEF HideConfig
<1>16. CASE PublishConfig
  BY <1>16 DEF PublishConfig
<1>17. CASE MarkSeries
  BY <1>17 DEF MarkSeries
<1>18. CASE SnapshotAuth
  BY <1>18 DEF SnapshotAuth
<1>19. CASE Cut
  BY <1>19 DEF Cut, NoPassword
<1>20. CASE RemovePackage
  BY <1>20 DEF RemovePackage
<1>21. CASE Purge
  BY <1>21 DEF Purge
<1>22. CASE UNCHANGED upgradeVars
  BY <1>22 DEF upgradeVars
<1> QED
  BY <1>1, <1>2, <1>3, <1>4, <1>5, <1>6, <1>7, <1>8, <1>9, <1>10, <1>11, <1>12, <1>13, <1>14,
     <1>15, <1>16, <1>17, <1>18, <1>19, <1>20, <1>21, <1>22 DEF UpgradeNext

LEMMA NothingLostStep ==
    ASSUME UpgradeTypeOK, BackedUp, NoPassword, NothingLost, UpgradeNext, cuts' = 0
    PROVE  (prior < 2714 => FromConf)' /\ (prior >= 2714 => FromFile)'
<1> USE ConfFacts, PriorsAssumption
    DEF UpgradeTypeOK, Resting, Preparing, Configuring, Migrating, Moving, Move, Migrations,
        AfterUnpacking, AfterTools, AfterMigrations, HasAll, NoneSet, Saved, Effective
<1>1. ASSUME Compare PROVE (prior < 2714 => FromConf)' /\ (prior >= 2714 => FromFile)'
  <2>1. cuts = 0 /\ prior' = prior /\ wanted' = wanted
    BY <1>1 DEF Compare
  <2>2. ASSUME prior < 2714 PROVE FromConf'
    BY <1>1, <2>1, <2>2 DEF NothingLost, FromConf, Shortened, Compare, OldDefault
  <2>3. ASSUME prior >= 2714 PROVE FromFile'
    BY <1>1, <2>1, <2>3 DEF NothingLost, FromFile, Late, NoPassword, Compare, OldDefault
  <2> QED
    BY <2>1, <2>2, <2>3
<1>2. ASSUME BackUp PROVE (prior < 2714 => FromConf)' /\ (prior >= 2714 => FromFile)'
  <2>1. cuts = 0 /\ prior' = prior /\ wanted' = wanted
    BY <1>2 DEF BackUp
  <2>2. ASSUME prior < 2714 PROVE FromConf'
    BY <1>2, <2>1, <2>2 DEF NothingLost, FromConf, Shortened, BackUp
  <2>3. ASSUME prior >= 2714 PROVE FromFile'
    BY <1>2, <2>1, <2>3 DEF NothingLost, FromFile, Late, NoPassword, BackUp
  <2> QED
    BY <2>1, <2>2, <2>3
<1>3. ASSUME CopyBak PROVE (prior < 2714 => FromConf)' /\ (prior >= 2714 => FromFile)'
  <2>1. cuts = 0 /\ prior' = prior /\ wanted' = wanted
    BY <1>3 DEF CopyBak
  <2>2. ASSUME prior < 2714 PROVE FromConf'
    BY <1>3, <2>1, <2>2 DEF NothingLost, FromConf, Shortened, CopyBak
  <2>3. ASSUME prior >= 2714 PROVE FromFile'
    BY <1>3, <2>1, <2>3 DEF NothingLost, FromFile, Late, NoPassword, CopyBak
  <2> QED
    BY <2>1, <2>2, <2>3
<1>4. ASSUME InsertDefault PROVE (prior < 2714 => FromConf)' /\ (prior >= 2714 => FromFile)'
  <2>1. cuts = 0 /\ prior' = prior /\ wanted' = wanted
    BY <1>4 DEF InsertDefault
  <2>2. ASSUME prior < 2714 PROVE FromConf'
    BY <1>4, <2>1, <2>2 DEF NothingLost, FromConf, Shortened, InsertDefault
  <2>3. ASSUME prior >= 2714 PROVE FromFile'
    BY <1>4, <2>1, <2>3 DEF NothingLost, FromFile, Late, NoPassword, InsertDefault
  <2> QED
    BY <2>1, <2>2, <2>3
<1>5. ASSUME Unpack PROVE (prior < 2714 => FromConf)' /\ (prior >= 2714 => FromFile)'
  <2>1. cuts = 0 /\ prior' = prior /\ wanted' = wanted
    BY <1>5 DEF Unpack
  <2>2. ASSUME prior < 2714 PROVE FromConf'
    <3>1. (Saved /\ conf = NewDefault) \/ (NoneSet /\ conf = OldDefault)
      BY <1>5, <2>1, <2>2 DEF NothingLost, FromConf, Unpack
    <3>2. place' = "tidy" /\ conf' = NewDefault /\ UNCHANGED <<wanted, backup, bak>>
      BY <1>5, <2>2, <3>1 DEF Unpack, OldDefault
    <3> QED
      BY <3>1, <3>2 DEF FromConf
  <2>3. ASSUME prior >= 2714 PROVE FromFile'
    BY <1>5, <2>1, <2>3 DEF NothingLost, FromFile, Late, NoPassword, Unpack, OldDefault, NewDefault
  <2> QED
    BY <2>1, <2>2, <2>3
<1>6. ASSUME AbortUpgrade PROVE (prior < 2714 => FromConf)' /\ (prior >= 2714 => FromFile)'
  <2>1. cuts = 0 /\ prior' = prior /\ wanted' = wanted
    BY <1>6 DEF AbortUpgrade
  <2>2. ASSUME prior < 2714 PROVE FromConf'
    <3>1. (Saved /\ conf = NewDefault) \/ (NoneSet /\ conf = OldDefault)
      BY <1>6, <2>1, <2>2 DEF NothingLost, FromConf, AbortUpgrade
    <3>2. place' = "old" /\ UNCHANGED <<wanted, bak>>
      BY <1>6 DEF AbortUpgrade
    <3>3. CASE Saved
      <4>1. conf' = bak /\ backup' = Absent
        BY <1>6, <2>2, <3>3 DEF AbortUpgrade, Absent
      <4> QED
        BY <3>2, <3>3, <4>1 DEF FromConf
    <3>4. CASE NoneSet /\ conf = OldDefault
      <4>1. conf' = OldDefault /\ backup' = Absent
        BY <1>6, <3>4 DEF AbortUpgrade
      <4>2. OldDefault.proxy = "none" /\ OldDefault.rest = {} /\ OldDefault.form = "old"
        BY DEF OldDefault
      <4> QED
        BY <3>2, <3>4, <4>1, <4>2 DEF FromConf
    <3> QED
      BY <3>1, <3>3, <3>4
  <2>3. ASSUME prior >= 2714 PROVE FromFile'
    BY <1>6, <2>1, <2>3 DEF NothingLost, FromFile, Late, NoPassword, AbortUpgrade, OldDefault,
       NewDefault, Absent
  <2> QED
    BY <2>1, <2>2, <2>3
<1>7. ASSUME Tidy PROVE (prior < 2714 => FromConf)' /\ (prior >= 2714 => FromFile)'
  <2>1. cuts = 0 /\ prior' = prior /\ wanted' = wanted
    BY <1>7 DEF Tidy
  <2>2. ASSUME prior < 2714 PROVE FromConf'
    BY <1>7, <2>1, <2>2 DEF NothingLost, FromConf, Shortened, Tidy
  <2>3. ASSUME prior >= 2714 PROVE FromFile'
    BY <1>7, <2>1, <2>3 DEF NothingLost, FromFile, Late, NoPassword, Tidy
  <2> QED
    BY <2>1, <2>2, <2>3
<1>8. ASSUME PublishToken PROVE (prior < 2714 => FromConf)' /\ (prior >= 2714 => FromFile)'
  <2>1. cuts = 0 /\ prior' = prior /\ wanted' = wanted
    BY <1>8 DEF PublishToken
  <2>2. ASSUME prior < 2714 PROVE FromConf'
    BY <1>8, <2>1, <2>2 DEF NothingLost, FromConf, Shortened, PublishToken
  <2>3. ASSUME prior >= 2714 PROVE FromFile'
    BY <1>8, <2>1, <2>3 DEF NothingLost, FromFile, Late, NoPassword, PublishToken
  <2> QED
    BY <2>1, <2>2, <2>3
<1>9. ASSUME MigrateNotices PROVE (prior < 2714 => FromConf)' /\ (prior >= 2714 => FromFile)'
  <2>1. /\ cuts = 0 /\ prior < 2714 /\ place = "notices"
        /\ UNCHANGED <<prior, wanted, conf, backup, bak>>
    BY <1>9 DEF MigrateNotices, NoPassword
  <2>2. conf = NewDefault /\ (Saved \/ NoneSet)
    BY <2>1 DEF NothingLost, FromConf
  <2>3. CASE Saved
    <3>1. place' \in {"compare", "user-config"}
      BY <1>9, <2>1, <2>3, <2>2 DEF MigrateNotices, Absent
    <3> QED
      BY <2>1, <2>3, <3>1 DEF FromConf
  <2>4. CASE NoneSet
    <3>1. place' = "keys"
      BY <1>9, <2>4 DEF MigrateNotices
    <3> QED
      BY <2>1, <2>2, <2>4, <3>1 DEF FromConf
  <2> QED
    BY <2>2, <2>3, <2>4
<1>10. ASSUME CreateUserConfig PROVE (prior < 2714 => FromConf)' /\ (prior >= 2714 => FromFile)'
  <2>1. cuts = 0 /\ prior' = prior /\ wanted' = wanted
    BY <1>10 DEF CreateUserConfig
  <2>2. ASSUME prior < 2714 PROVE FromConf'
    BY <1>10, <2>1, <2>2 DEF NothingLost, FromConf, Shortened, CreateUserConfig
  <2>3. ASSUME prior >= 2714 PROVE FromFile'
    BY <1>10, <2>1, <2>3 DEF NothingLost, FromFile, Late, NoPassword, CreateUserConfig
  <2> QED
    BY <2>1, <2>2, <2>3
<1>11. ASSUME CreateConffile PROVE (prior < 2714 => FromConf)' /\ (prior >= 2714 => FromFile)'
  <2>1. cuts = 0 /\ prior' = prior /\ wanted' = wanted
    BY <1>11 DEF CreateConffile
  <2>2. ASSUME prior < 2714 PROVE FromConf'
    BY <1>11, <2>1, <2>2 DEF NothingLost, FromConf, Shortened, CreateConffile
  <2>3. ASSUME prior >= 2714 PROVE FromFile'
    BY <1>11, <2>1, <2>3 DEF NothingLost, FromFile, Late, NoPassword, CreateConffile
  <2> QED
    BY <2>1, <2>2, <2>3
<1>12. ASSUME CompareBak PROVE (prior < 2714 => FromConf)' /\ (prior >= 2714 => FromFile)'
  <2>1. cuts = 0 /\ prior' = prior /\ wanted' = wanted
    BY <1>12 DEF CompareBak
  <2>2. ASSUME prior < 2714 PROVE FromConf'
    BY <1>12, <2>1, <2>2 DEF NothingLost, FromConf, Shortened, CompareBak
  <2>3. ASSUME prior >= 2714 PROVE FromFile'
    BY <1>12, <2>1, <2>3 DEF NothingLost, FromFile, Late, NoPassword, CompareBak
  <2> QED
    BY <2>1, <2>2, <2>3
<1>13. ASSUME Restore PROVE (prior < 2714 => FromConf)' /\ (prior >= 2714 => FromFile)'
  <2>1. cuts = 0 /\ prior' = prior /\ wanted' = wanted
    BY <1>13 DEF Restore
  <2>2. ASSUME prior < 2714 PROVE FromConf'
    BY <1>13, <2>1, <2>2 DEF NothingLost, FromConf, Shortened, Restore
  <2>3. ASSUME prior >= 2714 PROVE FromFile'
    BY <1>13, <2>1, <2>3 DEF NothingLost, FromFile, Late, NoPassword, Restore
  <2> QED
    BY <2>1, <2>2, <2>3
<1>14. ASSUME RenameKeys PROVE (prior < 2714 => FromConf)' /\ (prior >= 2714 => FromFile)'
  <2>1. cuts = 0 /\ prior' = prior /\ wanted' = wanted
    BY <1>14 DEF RenameKeys
  <2>2. ASSUME prior < 2714 PROVE FromConf'
    BY <1>14, <2>1, <2>2 DEF NothingLost, FromConf, Shortened, RenameKeys
  <2>3. ASSUME prior >= 2714 PROVE FromFile'
    BY <1>14, <2>1, <2>3 DEF NothingLost, FromFile, Late, NoPassword, RenameKeys
  <2> QED
    BY <2>1, <2>2, <2>3
<1>15. ASSUME HideConfig PROVE (prior < 2714 => FromConf)' /\ (prior >= 2714 => FromFile)'
  <2>1. cuts = 0 /\ prior' = prior /\ wanted' = wanted
    BY <1>15 DEF HideConfig
  <2>2. ASSUME prior < 2714 PROVE FromConf'
    BY <1>15, <2>1, <2>2 DEF NothingLost, FromConf, Shortened, HideConfig
  <2>3. ASSUME prior >= 2714 PROVE FromFile'
    BY <1>15, <2>1, <2>3 DEF NothingLost, FromFile, Late, NoPassword, HideConfig
  <2> QED
    BY <2>1, <2>2, <2>3
<1>16. ASSUME PublishConfig PROVE (prior < 2714 => FromConf)' /\ (prior >= 2714 => FromFile)'
  <2>1. cuts = 0 /\ prior' = prior /\ wanted' = wanted
    BY <1>16 DEF PublishConfig
  <2>2. ASSUME prior < 2714 PROVE FromConf'
    BY <1>16, <2>1, <2>2 DEF NothingLost, FromConf, Shortened, PublishConfig
  <2>3. ASSUME prior >= 2714 PROVE FromFile'
    BY <1>16, <2>1, <2>3 DEF NothingLost, FromFile, Late, NoPassword, PublishConfig
  <2> QED
    BY <2>1, <2>2, <2>3
<1>17. ASSUME MarkSeries PROVE (prior < 2714 => FromConf)' /\ (prior >= 2714 => FromFile)'
  <2>1. cuts = 0 /\ prior' = prior /\ wanted' = wanted
    BY <1>17 DEF MarkSeries
  <2>2. ASSUME prior < 2714 PROVE FromConf'
    BY <1>17, <2>1, <2>2 DEF NothingLost, FromConf, Shortened, MarkSeries
  <2>3. ASSUME prior >= 2714 PROVE FromFile'
    BY <1>17, <2>1, <2>3 DEF NothingLost, FromFile, Late, NoPassword, MarkSeries
  <2> QED
    BY <2>1, <2>2, <2>3
<1>18. ASSUME SnapshotAuth PROVE (prior < 2714 => FromConf)' /\ (prior >= 2714 => FromFile)'
  <2>1. cuts = 0 /\ prior' = prior /\ wanted' = wanted
    BY <1>18 DEF SnapshotAuth
  <2>2. ASSUME prior < 2714 PROVE FromConf'
    BY <1>18, <2>1, <2>2 DEF NothingLost, FromConf, Shortened, SnapshotAuth
  <2>3. ASSUME prior >= 2714 PROVE FromFile'
    BY <1>18, <2>1, <2>3 DEF NothingLost, FromFile, Late, NoPassword, SnapshotAuth
  <2> QED
    BY <2>1, <2>2, <2>3
<1>19. ASSUME Cut PROVE (prior < 2714 => FromConf)' /\ (prior >= 2714 => FromFile)'
  <2>1. cuts = 0 /\ prior' = prior /\ wanted' = wanted
    BY <1>19 DEF Cut
  <2>2. ASSUME prior < 2714 PROVE FromConf'
    BY <1>19, <2>1, <2>2 DEF NothingLost, FromConf, Shortened, Cut
  <2>3. ASSUME prior >= 2714 PROVE FromFile'
    BY <1>19, <2>1, <2>3 DEF NothingLost, FromFile, Late, NoPassword, Cut
  <2> QED
    BY <2>1, <2>2, <2>3
<1>20. ASSUME RemovePackage PROVE (prior < 2714 => FromConf)' /\ (prior >= 2714 => FromFile)'
  <2>1. cuts = 0 /\ prior' = prior /\ wanted' = wanted
    BY <1>20 DEF RemovePackage
  <2>2. ASSUME prior < 2714 PROVE FromConf'
    BY <1>20, <2>1, <2>2 DEF NothingLost, FromConf, Shortened, RemovePackage
  <2>3. ASSUME prior >= 2714 PROVE FromFile'
    BY <1>20, <2>1, <2>3 DEF NothingLost, FromFile, Late, NoPassword, RemovePackage
  <2> QED
    BY <2>1, <2>2, <2>3
<1>21. ASSUME Purge PROVE (prior < 2714 => FromConf)' /\ (prior >= 2714 => FromFile)'
  <2>1. cuts = 0 /\ prior' = prior /\ wanted' = wanted
    BY <1>21 DEF Purge
  <2>2. ASSUME prior < 2714 PROVE FromConf'
    BY <1>21, <2>1, <2>2 DEF NothingLost, FromConf, Shortened, Purge
  <2>3. ASSUME prior >= 2714 PROVE FromFile'
    BY <1>21, <2>1, <2>3 DEF NothingLost, FromFile, Late, NoPassword, Purge
  <2> QED
    BY <2>1, <2>2, <2>3
<1> QED
  BY <1>1, <1>2, <1>3, <1>4, <1>5, <1>6, <1>7, <1>8, <1>9, <1>10, <1>11, <1>12, <1>13, <1>14,
     <1>15, <1>16, <1>17, <1>18, <1>19, <1>20, <1>21 DEF UpgradeNext

LEMMA InPlaceStep ==
    ASSUME UpgradeTypeOK, BackedUp, NoPassword, SourcesKept, NothingLost, SettingsKept, UpgradeNext,
           Untouched'
    PROVE  InPlace'
<1> USE ConfFacts, PriorsAssumption
    DEF UpgradeTypeOK, Resting, Preparing, Configuring, Migrating, Moving, Move, Migrations, Late,
        Done, AfterUnpacking, AfterTools, AfterMigrations, Effective, Redacted, Untouched, Present,
        Default, RedactOne, Proxy, Setting
<1>1. ASSUME Compare PROVE InPlace'
  <2>1. Untouched /\ InPlace /\ prior' = prior /\ wanted' = wanted
    BY <1>1 DEF SettingsKept, Compare
  <2>2. Swept' = Swept /\ disk'.enabled = disk.enabled /\ disk'.usual = disk.usual
    BY <1>1, <2>1 DEF Swept, Disks, Compare
  <2> QED
    BY <1>1, <2>1, <2>2 DEF InPlace, NoPassword, Disks, Compare
<1>2. ASSUME BackUp PROVE InPlace'
  <2>1. Untouched /\ InPlace /\ prior' = prior /\ wanted' = wanted
    BY <1>2 DEF SettingsKept, BackUp
  <2>2. Swept' = Swept /\ disk'.enabled = disk.enabled /\ disk'.usual = disk.usual
    BY <1>2, <2>1 DEF Swept, Disks, BackUp
  <2> QED
    BY <1>2, <2>1, <2>2 DEF InPlace, NoPassword, Disks, BackUp
<1>3. ASSUME CopyBak PROVE InPlace'
  <2>1. Untouched /\ InPlace /\ prior' = prior /\ wanted' = wanted
    BY <1>3 DEF SettingsKept, CopyBak
  <2>2. Swept' = Swept /\ disk'.enabled = disk.enabled /\ disk'.usual = disk.usual
    BY <1>3, <2>1 DEF Swept, Disks, CopyBak
  <2> QED
    BY <1>3, <2>1, <2>2 DEF InPlace, NoPassword, Disks, CopyBak
<1>4. ASSUME InsertDefault PROVE InPlace'
  <2>1. Untouched /\ InPlace /\ prior' = prior /\ wanted' = wanted
    BY <1>4 DEF SettingsKept, InsertDefault
  <2>2. Swept' = Swept /\ disk'.enabled = disk.enabled /\ disk'.usual = disk.usual
    BY <1>4, <2>1 DEF Swept, Disks, InsertDefault
  <2> QED
    BY <1>4, <2>1, <2>2 DEF InPlace, NoPassword, Disks, InsertDefault
<1>5. ASSUME Unpack PROVE InPlace'
  <2>1. Untouched /\ InPlace /\ prior' = prior /\ wanted' = wanted
    BY <1>5 DEF SettingsKept, Unpack
  <2>2. Swept' = Swept /\ disk'.enabled = disk.enabled /\ disk'.usual = disk.usual
    BY <1>5, <2>1 DEF Swept, Disks, Unpack
  <2> QED
    BY <1>5, <2>1, <2>2 DEF InPlace, NoPassword, Disks, Unpack
<1>6. ASSUME AbortUpgrade PROVE InPlace'
  <2>1. Untouched /\ InPlace /\ prior' = prior /\ wanted' = wanted
    BY <1>6 DEF SettingsKept, AbortUpgrade
  <2>2. Swept' = Swept /\ disk'.enabled = disk.enabled /\ disk'.usual = disk.usual
    BY <1>6, <2>1 DEF Swept, Disks, AbortUpgrade
  <2> QED
    BY <1>6, <2>1, <2>2 DEF InPlace, NoPassword, Disks, AbortUpgrade
<1>7. ASSUME Tidy PROVE InPlace'
  <2>1. Untouched /\ InPlace /\ prior' = prior /\ wanted' = wanted
    BY <1>7 DEF SettingsKept, Tidy
  <2>2. Swept' = Swept /\ disk'.enabled = disk.enabled /\ disk'.usual = disk.usual
    BY <1>7, <2>1 DEF Swept, Disks, Tidy
  <2> QED
    BY <1>7, <2>1, <2>2 DEF InPlace, NoPassword, Disks, Tidy
<1>8. ASSUME PublishToken PROVE InPlace'
  <2>1. Untouched /\ InPlace /\ prior' = prior /\ wanted' = wanted
    BY <1>8 DEF SettingsKept, PublishToken
  <2>2. Swept' = Swept /\ disk'.enabled = disk.enabled /\ disk'.usual = disk.usual
    BY <1>8, <2>1 DEF Swept, Disks, PublishToken
  <2> QED
    BY <1>8, <2>1, <2>2 DEF InPlace, NoPassword, Disks, PublishToken
<1>9. ASSUME MigrateNotices PROVE InPlace'
  <2>1. Untouched /\ InPlace /\ prior' = prior /\ wanted' = wanted
    BY <1>9 DEF SettingsKept, MigrateNotices
  <2>2. Swept' = Swept /\ UNCHANGED <<disk.enabled, disk.usual, disk.auth>>
    BY <1>9, <2>1 DEF Swept, Disks, MigrateNotices
  <2>3. place = "notices" /\ prior < 2714
    BY <1>9 DEF NoPassword, MigrateNotices
  <2>4. conf = NewDefault /\ (Saved \/ NoneSet)
    BY <2>1, <2>3 DEF NothingLost, FromConf, InPlace
  <2> QED
    <3>0. backup.form # "broken"
      BY <1>9 DEF MigrateNotices
    <3>1. UNCHANGED <<wanted, conf, backup, bak, open, hidden>> /\ backup.form # "broken"
      BY <1>9, <3>0 DEF MigrateNotices
    <3>2. open = "absent" /\ hidden = "absent"
      BY <2>1, <2>3 DEF InPlace
    <3>3. CASE Saved
      <4>1. place' = "user-config"
        BY <1>9, <3>1, <3>3 DEF MigrateNotices, Saved, HasAll, Absent
      <4> QED
        BY <2>1, <2>2, <2>3, <3>1, <3>2, <4>1 DEF InPlace
    <3>4. CASE NoneSet
      <4>1. place' = "keys"
        BY <1>9, <3>4 DEF MigrateNotices, NoneSet
      <4>2. conf'.form = "new" /\ conf'.rest = {} /\ wanted.proxy = "none" /\ wanted.rest = {}
        BY <2>4, <3>1, <3>4 DEF NewDefault, NoneSet
      <4> QED
        BY <2>1, <2>2, <2>3, <3>1, <3>2, <4>1, <4>2 DEF InPlace
    <3> QED
      BY <2>4, <3>3, <3>4
<1>10. ASSUME CreateUserConfig PROVE InPlace'
  <2>1. Untouched /\ InPlace /\ prior' = prior /\ wanted' = wanted
    BY <1>10 DEF SettingsKept, CreateUserConfig
  <2>2. Swept' = Swept /\ UNCHANGED <<disk.enabled, disk.usual, disk.auth>>
    BY <1>10, <2>1 DEF Swept, Disks, CreateUserConfig
  <2>3. place = "user-config" /\ prior < 2714
    BY <1>10 DEF NoPassword, CreateUserConfig
  <2>4. Saved
    BY <2>1, <2>3 DEF NothingLost, FromConf, InPlace
  <2> QED
    <3>1. place' = "conffile" /\ UNCHANGED <<wanted, conf, backup, bak, hidden, disk>>
      BY <1>10 DEF CreateUserConfig
    <3>2. backup.proxy = wanted.proxy /\ open = "absent"
      BY <2>1, <2>3, <2>4 DEF Saved, HasAll, InPlace
    <3>3. open' = backup.proxy \/ (backup.proxy = "none" /\ open' = open)
      <4>1. CASE warned' = (warned \/ backup.proxy # "none") /\ UNCHANGED open
        <5>1. ~(warned \/ backup.proxy # "none")
          BY <4>1
        <5> QED
          BY <4>1, <5>1
      <4> QED
        BY <1>10, <4>1 DEF CreateUserConfig
    <3>4. (open' = wanted.proxy \/ (open' = "absent" /\ wanted.proxy = "none")) /\ wanted' = wanted
      BY <3>1, <3>2, <3>3
    <3> QED
      BY <2>1, <2>2, <2>3, <3>1, <3>4 DEF InPlace
<1>11. ASSUME CreateConffile PROVE InPlace'
  <2>1. Untouched /\ InPlace /\ prior' = prior /\ wanted' = wanted
    BY <1>11 DEF SettingsKept, CreateConffile
  <2>2. Swept' = Swept /\ UNCHANGED <<disk.enabled, disk.usual, disk.auth>>
    BY <1>11, <2>1 DEF Swept, Disks, CreateConffile
  <2>3. place = "conffile" /\ prior < 2714
    BY <1>11 DEF NoPassword, CreateConffile
  <2>4. Saved
    BY <2>1, <2>3 DEF NothingLost, FromConf, InPlace
  <2> QED
    BY <1>11, <2>1, <2>2, <2>3, <2>4 DEF InPlace, Saved, NoneSet, HasAll, Shortened, NewDefault,
       Absent, CreateConffile
<1>12. ASSUME CompareBak PROVE InPlace'
  <2>1. Untouched /\ InPlace /\ prior' = prior /\ wanted' = wanted
    BY <1>12 DEF SettingsKept, CompareBak
  <2>2. Swept' = Swept /\ UNCHANGED <<disk.enabled, disk.usual, disk.auth>>
    BY <1>12, <2>1 DEF Swept, Disks, CompareBak
  <2>3. place = "compare" /\ prior < 2714
    BY <1>12 DEF NoPassword, CompareBak
  <2>4. HasAll(bak) /\ backup = Shortened(bak)
    BY <2>1, <2>3 DEF NothingLost, FromConf, InPlace
  <2> QED
    <3>1. bak # backup
      BY <2>4 DEF HasAll, Shortened, NewDefault
    <3>2. place' = "restore" /\ UNCHANGED <<wanted, conf, backup, bak, open, hidden, disk>>
      BY <1>12, <3>1 DEF CompareBak
    <3> QED
      BY <2>1, <2>2, <2>3, <2>4, <3>2 DEF InPlace, Shortened
<1>13. ASSUME Restore PROVE InPlace'
  <2>1. Untouched /\ InPlace /\ prior' = prior /\ wanted' = wanted
    BY <1>13 DEF SettingsKept, Restore
  <2>2. Swept' = Swept /\ UNCHANGED <<disk.enabled, disk.usual, disk.auth>>
    BY <1>13, <2>1 DEF Swept, Disks, Restore
  <2>3. place = "restore" /\ prior < 2714
    BY <1>13 DEF NoPassword, Restore
  <2>4. HasAll(bak) /\ backup = Shortened(bak)
    BY <2>1, <2>3 DEF NothingLost, FromConf, InPlace
  <2> QED
    BY <1>13, <2>1, <2>2, <2>3, <2>4 DEF InPlace, Saved, NoneSet, HasAll, Shortened, NewDefault,
       Absent, Restore
<1>14. ASSUME RenameKeys PROVE InPlace'
  <2>1. Untouched /\ InPlace /\ prior' = prior /\ wanted' = wanted
    BY <1>14 DEF SettingsKept, RenameKeys
  <2>2. Swept' = Swept /\ disk'.enabled = disk.enabled /\ disk'.usual = disk.usual
    BY <1>14, <2>1 DEF Swept, Disks, RenameKeys
  <2> QED
    BY <1>14, <2>1, <2>2 DEF InPlace, NoPassword, Disks, RenameKeys
<1>15. ASSUME HideConfig PROVE InPlace'
  <2>1. Untouched /\ InPlace /\ prior' = prior /\ wanted' = wanted
    BY <1>15 DEF SettingsKept, HideConfig
  <2>2. Swept' = Swept /\ disk'.enabled = disk.enabled /\ disk'.usual = disk.usual
    BY <1>15, <2>1 DEF Swept, Disks, HideConfig
  <2> QED
    BY <1>15, <2>1, <2>2 DEF InPlace, NoPassword, Disks, HideConfig
<1>16. ASSUME PublishConfig PROVE InPlace'
  <2>1. Untouched /\ InPlace /\ prior' = prior /\ wanted' = wanted
    BY <1>16 DEF SettingsKept, PublishConfig
  <2>2. Swept' = Swept /\ disk'.enabled = disk.enabled /\ disk'.usual = disk.usual
    BY <1>16, <2>1 DEF Swept, Disks, PublishConfig
  <2> QED
    BY <1>16, <2>1, <2>2 DEF InPlace, NoPassword, Disks, PublishConfig
<1>17. ASSUME MarkSeries PROVE InPlace'
  <2>1. Untouched /\ InPlace /\ prior' = prior /\ wanted' = wanted
    BY <1>17 DEF SettingsKept, MarkSeries
  <2>2. Swept' = Swept /\ disk'.enabled = disk.enabled /\ disk'.usual = disk.usual
    BY <1>17, <2>1 DEF Swept, Disks, MarkSeries
  <2> QED
    BY <1>17, <2>1, <2>2 DEF InPlace, NoPassword, Disks, MarkSeries, SourcesKept
<1>18. ASSUME SnapshotAuth PROVE InPlace'
  <2>1. Untouched /\ InPlace /\ prior' = prior /\ wanted' = wanted
    BY <1>18 DEF SettingsKept, SnapshotAuth
  <2>2. Swept' = Swept /\ disk'.enabled = disk.enabled /\ disk'.usual = disk.usual
    BY <1>18, <2>1 DEF Swept, Disks, SnapshotAuth
  <2> QED
    BY <1>18, <2>1, <2>2 DEF InPlace, NoPassword, Disks, SnapshotAuth, SourcesKept
<1>19. ASSUME Cut PROVE InPlace'
  <2>1. Untouched /\ InPlace /\ prior' = prior /\ wanted' = wanted
    BY <1>19 DEF SettingsKept, Cut
  <2>2. Swept' = Swept /\ disk'.enabled = disk.enabled /\ disk'.usual = disk.usual
    BY <1>19, <2>1 DEF Swept, Disks, Cut
  <2> QED
    BY <1>19, <2>1, <2>2 DEF InPlace, NoPassword, Disks, Cut
<1>20. ASSUME RemovePackage PROVE InPlace'
  <2>1. Untouched /\ InPlace /\ prior' = prior /\ wanted' = wanted
    BY <1>20 DEF SettingsKept, RemovePackage
  <2>2. Swept' = Swept /\ disk'.enabled = disk.enabled /\ disk'.usual = disk.usual
    BY <1>20, <2>1 DEF Swept, Disks, RemovePackage
  <2> QED
    BY <1>20, <2>1, <2>2 DEF InPlace, NoPassword, Disks, RemovePackage
<1>21. ASSUME Purge PROVE InPlace'
  <2>1. Untouched /\ InPlace /\ prior' = prior /\ wanted' = wanted
    BY <1>21 DEF SettingsKept, Purge
  <2>2. Swept' = Swept /\ disk'.enabled = disk.enabled /\ disk'.usual = disk.usual
    BY <1>21, <2>1 DEF Swept, Disks, Purge
  <2> QED
    BY <1>21, <2>1, <2>2 DEF InPlace, NoPassword, Disks, Purge
<1> QED
  BY <1>1, <1>2, <1>3, <1>4, <1>5, <1>6, <1>7, <1>8, <1>9, <1>10, <1>11, <1>12, <1>13, <1>14,
     <1>15, <1>16, <1>17, <1>18, <1>19, <1>20, <1>21 DEF UpgradeNext

LEMMA UpgradeInvStep == ASSUME UpgradeInv, [UpgradeNext]_upgradeVars PROVE UpgradeInv'
<1> USE DEF UpgradeInv
<1>1. UpgradeTypeOK' /\ BackedUp' /\ NoPassword' /\ SourcesKept'
  BY UpgradeTypeStep, BackedUpStep, NoPasswordStep, SourcesKeptStep
<1>2. CASE UpgradeNext
  <2>1. NothingLost'
    BY <1>2, NothingLostStep DEF NothingLost
  <2>2. SettingsKept'
    BY <1>2, InPlaceStep DEF SettingsKept
  <2> QED
    BY <1>1, <2>1, <2>2
<1>3. CASE UNCHANGED upgradeVars
  <2>1. UNCHANGED <<place, prior, wanted, conf, backup, bak, open, hidden, disk, warned, cuts>>
    BY <1>3 DEF upgradeVars
  <2>2. NothingLost'
    BY <2>1 DEF NothingLost, FromConf, FromFile, HasAll, NoneSet, Saved, Shortened, Effective, Late
  <2>3. SettingsKept'
    BY <2>1 DEF SettingsKept, Untouched, InPlace, Present, Default, Late, Done, Effective, Redacted,
                Swept, Shortened
  <2> QED
    BY <1>1, <2>2, <2>3
<1> QED
  BY <1>2, <1>3

LEMMA UpgradeInvInit == UpgradeInit => UpgradeInv
<1> SUFFICES ASSUME UpgradeInit PROVE UpgradeInv
  OBVIOUS
<1>0. warned \in BOOLEAN
  <2>1. warned = FALSE
    BY DEF UpgradeInit
  <2> HIDE DEF UpgradeInit
  <2> QED
    BY <2>1, Zenon
<1> USE ConfFacts, PriorsAssumption
<1>1. /\ place = "old" /\ prior \in Priors /\ wanted \in [proxy : Proxy, rest : SUBSET Extras]
      /\ backup = Absent /\ bak = Absent /\ warned = FALSE /\ cuts = 0
      /\ open = IF prior < 2714 \/ wanted.proxy = "none" THEN "absent"
                ELSE IF prior < 3200 THEN wanted.proxy ELSE RedactOne(wanted.proxy)
      /\ hidden = IF prior >= 3200 /\ wanted.proxy # "none" THEN wanted.proxy ELSE "absent"
  BY DEF UpgradeInit
<1>2. wanted.proxy \in Proxy /\ wanted.rest \in SUBSET Extras
  BY <1>1
<1>3. /\ conf \in Conf /\ conf.rest = wanted.rest /\ (prior >= 2714 => conf.form = "new")
      /\ prior < 2714 => conf.proxy = wanted.proxy /\ conf.form \in {"old", "broken"}
  <2>1. PICK form \in {"old", "broken"} :
          conf = IF prior < 2714 THEN [form |-> form, proxy |-> wanted.proxy, rest |-> wanted.rest]
                 ELSE [NewDefault EXCEPT !.rest = wanted.rest]
    BY DEF UpgradeInit
  <2>2. CASE prior < 2714
    BY <1>1, <1>2, <2>1, <2>2 DEF Conf
  <2>3. CASE prior >= 2714
    <3>1. conf = [NewDefault EXCEPT !.rest = wanted.rest]
      BY <1>1, <2>1, <2>3
    <3>2. conf.rest = wanted.rest /\ conf.form = "new"
      BY <3>1 DEF NewDefault
    <3> QED
      BY <1>1, <1>2, <2>3, <3>1, <3>2
  <2> QED
    BY <1>1, <2>2, <2>3
<1>4. /\ disk \in Disks
      /\ disk.enabled =>
            disk.token /\ disk.source # "none" /\ disk.key # "none" /\ disk.auth = {"repo"}
      /\ disk.key = "old" => prior < 2900
      /\ disk.source = "dated" => prior < 2703
      /\ prior >= 2711 /\ disk.token => disk.publicToken
  <2>1. PICK token, enabled, stray, off, listed, usual \in BOOLEAN, swept \in {0, 2713, 2714},
             fact \in Facts :
          /\ enabled => token
          /\ stray => prior < 2713 /\ swept # 0 /\ ~enabled
          /\ off => prior < 2703
          /\ disk = [listed |-> listed, swept |-> swept, usual |-> usual, token |-> token,
                     publicToken |-> token /\ prior >= 2711, enabled |-> enabled,
                     source |-> IF ~enabled /\ ~stray THEN "none"
                                ELSE IF prior < 2703 THEN "dated" ELSE "named",
                     key |-> IF ~enabled /\ ~stray THEN "none"
                             ELSE IF prior < 2900 THEN "old" ELSE "new",
                     auth |-> IF enabled THEN {"repo"} ELSE {}, facts |-> {fact},
                     notices |-> {}, reboot |-> FALSE, oldTimer |-> ~off, timer |-> TRUE,
                     series |-> FALSE]
    BY DEF UpgradeInit
  <2> DEFINE public == token /\ prior >= 2711
             src == IF ~enabled /\ ~stray THEN "none" ELSE IF prior < 2703 THEN "dated" ELSE "named"
             key == IF ~enabled /\ ~stray THEN "none" ELSE IF prior < 2900 THEN "old" ELSE "new"
             lines == IF enabled THEN {"repo"} ELSE {}
             facts == {fact}
             timer == ~off
  <2>2. /\ public \in BOOLEAN /\ src \in {"none", "dated", "named"}
        /\ key \in {"none", "old", "new"} /\ lines \in SUBSET {"repo", "snapshot"}
        /\ facts \in SUBSET Facts /\ timer \in BOOLEAN
    OBVIOUS
  <2>3. /\ enabled => src # "none" /\ key # "none" /\ lines = {"repo"}
        /\ key = "old" => prior < 2900
        /\ src = "dated" => prior < 2703
        /\ prior >= 2711 /\ token => public
    BY <2>1
  <2>4. disk = [listed |-> listed, swept |-> swept, usual |-> usual, token |-> token,
                publicToken |-> public, enabled |-> enabled, source |-> src,
                key |-> key, auth |-> lines, facts |-> facts, notices |-> {}, reboot |-> FALSE,
                oldTimer |-> timer, timer |-> TRUE, series |-> FALSE]
    BY <2>1
  <2> HIDE DEF public, src, key, lines, facts, timer
  <2>5. disk \in Disks
    BY <2>2, <2>4 DEF Disks
  <2>6. /\ disk.enabled = enabled /\ disk.token = token /\ disk.source = src /\ disk.key = key
        /\ disk.auth = lines /\ disk.publicToken = public
    BY <2>4
  <2> QED
    BY <2>1, <2>3, <2>5, <2>6
<1>5. UpgradeTypeOK
  <2>1. wanted.proxy \in Setting /\ RedactOne(wanted.proxy) \in Setting /\ "absent" \in Setting
    BY <1>2
  <2>2. open \in Setting /\ hidden \in Setting
    BY <1>1, <2>1
  <2>3. place \in Resting
    BY <1>1 DEF Resting
  <2>4. cuts \in 0..MaxCuts
    <3>1. cuts = 0
      BY <1>1
    <3> QED
      BY <3>1
  <2> QED
    BY <1>0, <1>1, <1>3, <1>4, <2>2, <2>3, <2>4 DEF UpgradeTypeOK
<1>6. BackedUp /\ NoPassword
  BY <1>1, <1>2 DEF BackedUp, NoPassword, Late, RedactOne, Proxy
<1>7. SourcesKept
  BY <1>1, <1>4 DEF SourcesKept, Late, Done, Configuring, Migrating
<1>8. NothingLost
  <2>1. ASSUME prior >= 2714 PROVE Effective = wanted.proxy
    BY <1>1, <1>2, <2>1 DEF Effective, Proxy
  <2> QED
    BY <1>1, <1>2, <1>3, <2>1 DEF NothingLost, FromConf, FromFile, Moving
<1>9. SettingsKept
  BY <1>1, <1>2, <1>4 DEF SettingsKept, InPlace, Default, Late, Done, Preparing, Moving, RedactOne
<1> QED
  BY <1>5, <1>6, <1>7, <1>8, <1>9 DEF UpgradeInv

\* The maintainer scripts keep the types of the files they migrate.
THEOREM UpgradeTypeCorrect == UpgradeSpec => []UpgradeTypeOK
<1>1. UpgradeInv => UpgradeTypeOK
  BY DEF UpgradeInv
<1> QED
  BY <1>1, UpgradeInvInit, UpgradeInvStep, PTL DEF UpgradeSpec

\* From whatever earlier version, and cut short however often: no password is left where
\* everybody reads it, and a service that was on keeps its tokens, and source and key unless
\* status.json did not name it in an upgrade from before 27.13.5.  Not cut short, nothing
\* uaclient.conf said is lost: it is in force, or still in the copy dpkg-bak.  With no warning
\* given, all listed settings and the fields that are carried over are as they were.
\* (preinst, postinst, postinst-migrations.sh, migrate_user_config.py, add_esm_snapshot_auth.py)
THEOREM UpgradesKeep == UpgradeSpec => []UpgradeKeeps
<1>1. ASSUME UpgradeInv PROVE UpgradeKeeps
  <2>1. ASSUME place = "installed"
        PROVE  /\ open # "secret"
               /\ disk.enabled /\ ~Swept => disk.source = "named" /\ disk.key = "new"
               /\ Swept => disk.source = "none" /\ disk.key = "none"
               /\ disk.token => disk.publicToken /\ disk.series
    <3>1. disk.source \in {"none", "dated", "named"} /\ disk.key \in {"none", "old", "new"}
      BY <1>1 DEF UpgradeInv, UpgradeTypeOK, Disks
    <3> QED
      BY <1>1, <2>1, <3>1 DEF UpgradeInv, NoPassword, SourcesKept, Late, Done
  <2>2. ASSUME place = "installed", cuts = 0
        PROVE  /\ wanted.proxy \in {Effective, conf.proxy, bak.proxy}
               /\ wanted.rest \subseteq conf.rest \cup bak.rest
               /\ prior >= 2714 => conf.form = "new" /\ conf.rest = wanted.rest
    <3>1. CASE prior < 2714
      <4>1. HasAll(bak) \/ HasAll(conf) \/ (NoneSet /\ conf = NewDefault)
        BY <1>1, <2>2, <3>1 DEF UpgradeInv, NothingLost, FromConf, Moving
      <4>2. NewDefault.proxy = "none"
        BY DEF NewDefault
      <4> QED
        BY <1>1, <3>1, <4>1, <4>2, PriorsAssumption DEF HasAll, NoneSet, UpgradeInv, UpgradeTypeOK
    <3>2. CASE prior >= 2714
      BY <1>1, <2>2, <3>2 DEF UpgradeInv, NothingLost, FromFile
    <3> QED
      BY <1>1, <3>1, <3>2, PriorsAssumption DEF UpgradeInv, UpgradeTypeOK
  <2>3. ASSUME place = "installed", cuts = 0, ~warned
        PROVE  /\ Effective = wanted.proxy /\ Redacted
               /\ prior < 2714 => conf.form = "new" /\ conf.rest = wanted.rest \cap Carried
               /\ disk.enabled => ("snapshot" \in disk.auth <=> disk.usual /\ ~Swept)
    BY <1>1, <2>3 DEF UpgradeInv, SettingsKept, Untouched, InPlace, Late, Done, Moving
  <2>4. place = "purged" => disk.key = "none" /\ hidden = "absent"
    BY <1>1 DEF UpgradeInv, SourcesKept
  <2>5. prior < 2714 \/ prior >= 2714
    BY <1>1, PriorsAssumption DEF UpgradeInv, UpgradeTypeOK
  <2> QED
    BY <2>1, <2>2, <2>3, <2>4, <2>5 DEF UpgradeKeeps
<1> QED
  BY <1>1, UpgradeInvInit, UpgradeInvStep, PTL DEF UpgradeSpec

-------------------------------------------------------------------------------
(* AptFiles, for every set of services and every set of repositories. *)

\* Within a file: no entry twice, none that hides a later one.
Ordered(file) ==
    \A i, j \in DOMAIN file : i < j => file[i] # file[j] /\ <<file[i], file[j]>> \notin Within

\* A set of numbers has a least one: what induction over a file rests on.
LEMMA LeastNumber == ASSUME NEW T, T \subseteq Nat, T # {} PROVE \E x \in T : \A y \in T : x <= y
<1> DEFINE R == OpToRel(<, Nat)
<1>1. IsWellFoundedOn(R, Nat)
  BY NatLessThanWellFounded
<1>2. \A x, y \in Nat : y < x => <<y, x>> \in R
  BY DEF OpToRel
<1> HIDE DEF R
<1>3. \E x \in T : \A y \in T : ~ (<<y, x>> \in R)
  BY <1>1, WFMin
<1>4. PICK x \in T : \A y \in T : ~ (<<y, x>> \in R)
  BY <1>3
<1>5. ASSUME NEW y \in T PROVE x <= y
  <2>1. x \in Nat /\ y \in Nat
    BY <1>4, <1>5
  <2>2. ~(y < x)
    BY <1>2, <1>4, <2>1
  <2> QED
    BY <2>1, <2>2
<1> QED
  BY <1>4, <1>5

\* The end of a file, from a line on.
LEMMA Rest ==
    ASSUME NEW S, NEW file \in Seq(S), NEW k \in 1..(Len(file) + 1)
    PROVE  /\ SubSeq(file, k, Len(file)) \in Seq(S) /\ Len(SubSeq(file, k, Len(file))) = Len(file) - k + 1
           /\ \A i \in 1..(Len(file) - k + 1) : SubSeq(file, k, Len(file))[i] = file[k + i - 1]
OBVIOUS

\* Two parts of a file, one after the other.
LEMMA Joined ==
    ASSUME NEW S, NEW a \in Seq(S), NEW b \in Seq(S)
    PROVE  /\ a \o b \in Seq(S) /\ Len(a \o b) = Len(a) + Len(b)
           /\ \A i \in 1..(Len(a) + Len(b)) :
                (a \o b)[i] = IF i <= Len(a) THEN a[i] ELSE b[i - Len(a)]
OBVIOUS

\* add_apt_auth_conf_entry adds the URL, and leaves the file in order.
LEMMA EntryAdded ==
    ASSUME NEW file \in Seq(AllUrls), Ordered(file), NEW u \in AllUrls
    PROVE  /\ AddEntry(file, u) \in Seq(AllUrls) /\ Ordered(AddEntry(file, u))
           /\ Entries(AddEntry(file, u)) = Entries(file) \cup {u}
<1> DEFINE new == AddEntry(file, u)
<1>1. CASE Parts(file, u) = {}
  <2>1. new = Append(file, u)
    BY <1>1 DEF AddEntry
  <2>2. \A i \in DOMAIN file : file[i] # u /\ <<file[i], u>> \notin Within
    BY <1>1 DEF Parts
  <2>3. /\ new \in Seq(AllUrls) /\ DOMAIN new = 1..(Len(file) + 1)
        /\ \A i \in 1..Len(file) : new[i] = file[i]
        /\ new[Len(file) + 1] = u /\ DOMAIN file = 1..Len(file) /\ Len(file) \in Nat
    BY <2>1
  <2> HIDE DEF new
  <2>4. Ordered(new)
    BY <2>2, <2>3 DEF Ordered
  <2>5. Entries(new) = Entries(file) \cup {u}
    BY <2>3 DEF Entries
  <2> QED
    BY <2>3, <2>4, <2>5 DEF new
<1>2. CASE Parts(file, u) # {}
  <2> DEFINE first == CHOOSE i \in Parts(file, u) : \A j \in Parts(file, u) : i <= j
  <2>1. Parts(file, u) \subseteq Nat
    BY DEF Parts
  <2>2. /\ first \in DOMAIN file /\ (file[first] = u \/ <<file[first], u>> \in Within)
        /\ \A j \in DOMAIN file : j < first => file[j] # u /\ <<file[j], u>> \notin Within
    <3>1. \E i \in Parts(file, u) : \A j \in Parts(file, u) : i <= j
      BY <1>2, <2>1, LeastNumber
    <3>2. first \in Parts(file, u) /\ \A j \in Parts(file, u) : first <= j
      BY <3>1
    <3> HIDE DEF first
    <3>3. ASSUME NEW j \in DOMAIN file, j < first PROVE j \notin Parts(file, u)
      BY <2>1, <3>2, <3>3
    <3> QED
      BY <3>2, <3>3 DEF Parts
  <2>3. new = SubSeq(file, 1, first - 1) \o <<u>>
              \o SubSeq(file, IF file[first] = u THEN first + 1 ELSE first, Len(file))
    BY <1>2 DEF AddEntry
  <2> HIDE DEF first
  <2> DEFINE L == Len(file)
  <2>4. first \in 1..L /\ L \in Nat /\ DOMAIN file = 1..L
    BY <2>2
  <2> DEFINE pre == SubSeq(file, 1, first - 1)
  <2>7. /\ pre \in Seq(AllUrls) /\ Len(pre) = first - 1
        /\ \A i \in 1..(first - 1) : pre[i] = file[i]
    BY <2>4
  <2> HIDE DEF pre, new
  <2> DEFINE mid == pre \o <<u>>
  <2>8. /\ mid \in Seq(AllUrls) /\ Len(mid) = first /\ mid[first] = u
        /\ \A i \in 1..(first - 1) : mid[i] = file[i]
    BY <2>4, <2>7
  <2> HIDE DEF mid
  <2>5. CASE file[first] = u
    <3> DEFINE tail == SubSeq(file, first + 1, L)
    <3>0. new = mid \o tail
      BY <2>3, <2>5 DEF pre, mid
    <3>9. /\ tail \in Seq(AllUrls) /\ Len(tail) = L - first
          /\ \A i \in 1..(L - first) : tail[i] = file[first + i]
      <4>1. first + 1 \in 1..(L + 1) /\ L - (first + 1) + 1 = L - first
        BY <2>4
      <4>2. /\ tail \in Seq(AllUrls) /\ Len(tail) = L - (first + 1) + 1
            /\ \A i \in 1..(L - (first + 1) + 1) : tail[i] = file[(first + 1) + i - 1]
        BY <4>1, Rest
      <4> HIDE DEF tail, L
      <4>3. \A i \in 1..(L - first) : (first + 1) + i - 1 = first + i
        BY <2>4
      <4> QED
        BY <4>1, <4>2, <4>3
    <3> HIDE DEF tail
    <3>1. /\ new \in Seq(AllUrls) /\ Len(new) = L
          /\ \A i \in 1..L : new[i] = IF i < first THEN file[i] ELSE IF i = first THEN u ELSE file[i]
      <4> HIDE DEF L
      <4>0. /\ new \in Seq(AllUrls) /\ Len(new) = Len(mid) + Len(tail)
            /\ \A i \in 1..(Len(mid) + Len(tail)) :
                 new[i] = IF i <= Len(mid) THEN mid[i] ELSE tail[i - Len(mid)]
        BY <2>8, <3>0, <3>9, Joined
      <4>1. /\ new \in Seq(AllUrls) /\ Len(new) = first + (L - first)
            /\ \A i \in 1..(first + (L - first)) : new[i] = IF i <= first THEN mid[i] ELSE tail[i - first]
        BY <2>8, <3>9, <4>0
      <4>2. ASSUME NEW i \in 1..L, first < i PROVE tail[i - first] = file[i]
        <5>1. i - first \in 1..(L - first) /\ first + (i - first) = i
          BY <2>4, <4>2
        <5> QED
          BY <3>9, <5>1
      <4>3. first + (L - first) = L
        BY <2>4
      <4> QED
        BY <2>4, <2>8, <4>1, <4>2, <4>3
    <3>2. new = file
      BY <2>4, <2>5, <3>1
    <3>3. u \in Entries(file)
      BY <2>2, <2>5 DEF Entries
    <3> QED
      BY <3>2, <3>3 DEF new
  <2>6. CASE file[first] # u
    <3> DEFINE tail == SubSeq(file, first, L)
    <3>0. new = mid \o tail
      BY <2>3, <2>6 DEF pre, mid
    <3>9. /\ tail \in Seq(AllUrls) /\ Len(tail) = L - first + 1
          /\ \A i \in 1..(L - first + 1) : tail[i] = file[first + i - 1]
      BY <2>4, Rest
    <3> HIDE DEF tail
    <3>1. /\ new \in Seq(AllUrls) /\ Len(new) = L + 1
          /\ \A i \in 1..(L + 1) :
               new[i] = IF i < first THEN file[i] ELSE IF i = first THEN u ELSE file[i - 1]
      <4> HIDE DEF L
      <4>0. /\ new \in Seq(AllUrls) /\ Len(new) = Len(mid) + Len(tail)
            /\ \A i \in 1..(Len(mid) + Len(tail)) :
                 new[i] = IF i <= Len(mid) THEN mid[i] ELSE tail[i - Len(mid)]
        BY <2>8, <3>0, <3>9, Joined
      <4>1. /\ new \in Seq(AllUrls) /\ Len(new) = first + (L - first + 1)
            /\ \A i \in 1..(first + (L - first + 1)) :
                 new[i] = IF i <= first THEN mid[i] ELSE tail[i - first]
        BY <2>8, <3>9, <4>0
      <4>3. first + (L - first + 1) = L + 1
        BY <2>4
      <4>2. ASSUME NEW i \in 1..(L + 1), first < i PROVE tail[i - first] = file[i - 1]
        <5>1. i - first \in 1..(L - first + 1) /\ first + (i - first) - 1 = i - 1
          BY <2>4, <4>2
        <5> QED
          BY <3>9, <5>1
      <4>4. ASSUME NEW i \in 1..(L + 1)
            PROVE  new[i] = IF i < first THEN file[i] ELSE IF i = first THEN u ELSE file[i - 1]
        <5>1. new[i] = IF i <= first THEN mid[i] ELSE tail[i - first]
          BY <4>1, <4>3
        <5>2. first \in Nat /\ i \in Nat /\ (i < first => i \in 1..(first - 1))
          BY <2>4
        <5>3. CASE i < first
          BY <2>8, <5>1, <5>2, <5>3
        <5>4. CASE i = first
          BY <2>8, <5>1, <5>2, <5>4
        <5>5. CASE i > first
          BY <4>2, <5>1, <5>2, <5>5
        <5> QED
          BY <5>2, <5>3, <5>4, <5>5
      <4> QED
        BY <4>1, <4>3, <4>4
    <3>2. DOMAIN new = 1..(L + 1)
      BY <3>1
    <3> HIDE DEF L
    <3>3. ASSUME NEW j \in 1..L, first <= j PROVE file[j] # u /\ <<u, file[j]>> \notin Within
      <4>1. <<file[first], u>> \in Within /\ file[first] \in AllUrls /\ file[j] \in AllUrls
        BY <2>2, <2>4, <2>6
      <4>2. CASE j = first
        <5>1. ~(<<file[first], u>> \in Within /\ <<u, file[first]>> \in Within)
          BY <4>1, UrlsAssumption
        <5> QED
          BY <2>6, <4>1, <4>2, <5>1
      <4>3. CASE first < j
        <5>1. <<file[first], file[j]>> \notin Within
          BY <2>4, <4>3 DEF Ordered
        <5>2. <<u, file[j]>> \in Within => <<file[first], file[j]>> \in Within
          BY <4>1, UrlsAssumption
        <5>3. file[j] # u
          BY <4>1, <5>1
        <5> QED
          BY <5>1, <5>2, <5>3
      <4> QED
        BY <2>4, <3>3, <4>2, <4>3
    <3>4. Ordered(new)
      <4>1. ASSUME NEW i \in 1..(L + 1), NEW j \in 1..(L + 1), i < j
            PROVE  new[i] # new[j] /\ <<new[i], new[j]>> \notin Within
        <5>1. CASE i # first /\ j # first
          <6> DEFINE a == IF i < first THEN i ELSE i - 1
                     b == IF j < first THEN j ELSE j - 1
          <6>1. a \in 1..L /\ b \in 1..L /\ a < b
            BY <2>4, <4>1, <5>1
          <6>2. new[i] = file[a] /\ new[j] = file[b]
            BY <3>1, <5>1
          <6> HIDE DEF a, b
          <6> QED
            BY <2>4, <6>1, <6>2 DEF Ordered
        <5>2. CASE i = first
          <6>1. new[i] = u /\ new[j] = file[j - 1] /\ j - 1 \in 1..L /\ first <= j - 1
            BY <2>4, <3>1, <4>1, <5>2
          <6> QED
            BY <3>3, <6>1
        <5>3. CASE j = first
          <6>1. new[j] = u /\ new[i] = file[i] /\ i \in 1..L /\ i < first
            BY <2>4, <3>1, <4>1, <5>3
          <6> QED
            BY <2>2, <2>4, <6>1
        <5> QED
          BY <5>1, <5>2, <5>3
      <4> QED
        BY <3>2, <4>1 DEF Ordered
    <3>5. Entries(new) = Entries(file) \cup {u}
      <4>1. ASSUME NEW i \in 1..(L + 1) PROVE new[i] = u \/ \E j \in 1..L : new[i] = file[j]
        <5>1. i < first => i \in 1..L
          BY <2>4
        <5>2. i > first => i - 1 \in 1..L
          BY <2>4
        <5> QED
          BY <2>4, <3>1, <4>1, <5>1, <5>2
      <4>2. ASSUME NEW j \in 1..L PROVE \E i \in 1..(L + 1) : new[i] = file[j]
        <5>1. j < first => j \in 1..(L + 1) /\ new[j] = file[j]
          BY <2>4, <3>1
        <5>2. ~(j < first) => j + 1 \in 1..(L + 1) /\ new[j + 1] = file[j]
          BY <2>4, <3>1
        <5> QED
          BY <5>1, <5>2
      <4>3. first \in 1..(L + 1) /\ new[first] = u
        BY <2>4, <3>1
      <4>4. Entries(new) = {new[i] : i \in 1..(L + 1)} /\ Entries(file) = {file[j] : j \in 1..L}
        BY <2>4, <3>2 DEF Entries
      <4> HIDE DEF L
      <4> QED
        BY <4>1, <4>2, <4>3, <4>4
    <3> QED
      BY <3>1, <3>4, <3>5 DEF new
  <2> QED
    BY <2>5, <2>6
<1> QED
  BY <1>1, <1>2

\* remove_repo_from_apt_auth_file takes out the URL, and leaves the file in order.
LEMMA EntryRemoved ==
    ASSUME NEW file \in Seq(AllUrls), Ordered(file), NEW u
    PROVE  /\ RemoveEntry(file, u) \in Seq(AllUrls) /\ Ordered(RemoveEntry(file, u))
           /\ Entries(RemoveEntry(file, u)) = Entries(file) \ {u}
<1> DEFINE L == Len(file)
           Step(f, n) == IF n = 0 THEN <<>>
                         ELSE IF file[n] = u THEN f[n - 1] ELSE Append(f[n - 1], file[n])
           kept == CHOOSE f : f = [n \in 0..L |-> Step(f, n)]
<1>1. RemoveEntry(file, u) = kept[L]
  BY DEF RemoveEntry
<1>2. L \in Nat /\ DOMAIN file = 1..L /\ \A i \in 1..L : file[i] \in AllUrls
  OBVIOUS
<1> HIDE DEF L
\* Line by line the function is defined, ...
<1>3. \A n \in 0..L : \E f : f = [m \in 0..n |-> Step(f, m)]
  <2> DEFINE Defined(n) == \E f : f = [m \in 0..n |-> Step(f, m)]
             Undefined == {n \in 0..L : ~Defined(n)}
  <2>3. Defined(0)
    <3> DEFINE f == [m \in 0..0 |-> <<>>]
    <3>1. f = [m \in 0..0 |-> Step(f, m)]
      OBVIOUS
    <3> QED
      BY <3>1
  <2> HIDE DEF Defined
  <2>1. SUFFICES ASSUME Undefined # {} PROVE FALSE
    BY <2>1 DEF Defined
  <2>2. PICK n \in Undefined : \A m \in Undefined : n <= m
    <3>1. Undefined \subseteq Nat
      BY <1>2
    <3> HIDE DEF Undefined
    <3> QED
      BY <2>1, <3>1, LeastNumber
  <2>4. n \in 1..L /\ n - 1 \in 0..L /\ Defined(n - 1)
    <3>1. n \in 0..L /\ n # 0
      BY <2>2, <2>3
    <3>2. n \in 1..L /\ n - 1 \in 0..L /\ ~(n <= n - 1)
      BY <1>2, <3>1
    <3>3. n - 1 \notin Undefined
      BY <2>2, <3>2
    <3> QED
      BY <3>2, <3>3
  <2>5. PICK f : f = [m \in 0..(n - 1) |-> Step(f, m)]
    BY <2>4 DEF Defined
  <2>8. \A m \in 0..(n - 1) : f[m] = Step(f, m)
    <3> HIDE DEF Step
    <3> QED
      BY <2>5
  <2> DEFINE g == [m \in 0..n |-> IF m = n THEN Step(f, n) ELSE f[m]]
  <2>6. ASSUME NEW m \in 0..n PROVE g[m] = Step(g, m)
    <3>1. CASE m = 0
      <4>1. 0 \in 0..(n - 1) /\ 0 # n
        BY <1>2, <2>4
      <4> QED
        BY <2>8, <3>1, <4>1
    <3>2. CASE m # 0
      <4>1. m - 1 \in 0..(n - 1) /\ g[m - 1] = f[m - 1]
        BY <1>2, <2>4, <3>2
      <4>2. Step(g, m) = Step(f, m)
        BY <4>1
      <4>3. m # n => m \in 0..(n - 1) /\ g[m] = f[m] /\ f[m] = Step(f, m)
        <5>1. m # n => m \in 0..(n - 1)
          BY <1>2, <2>4
        <5>2. m # n => g[m] = f[m]
          OBVIOUS
        <5> HIDE DEF g, Step
        <5> QED
          BY <2>8, <5>1, <5>2
      <4> QED
        BY <4>2, <4>3
    <3> QED
      BY <3>1, <3>2
  <2>7. g = [m \in 0..n |-> Step(g, m)]
    <3> HIDE DEF Step
    <3>1. [m \in 0..n |-> Step(g, m)] = [m \in 0..n |-> g[m]]
      BY <2>6
    <3> QED
      BY <3>1
  <2> HIDE DEF g
  <2>9. Defined(n)
    BY <2>7 DEF Defined
  <2> QED
    BY <2>2, <2>9
<1>4. /\ kept[0] = <<>>
      /\ \A n \in 1..L : kept[n] = IF file[n] = u THEN kept[n - 1] ELSE Append(kept[n - 1], file[n])
  <2> HIDE DEF Step
  <2>1. kept = [n \in 0..L |-> Step(kept, n)]
    <3>1. L \in 0..L
      BY <1>2
    <3>2. \E f : f = [n \in 0..L |-> Step(f, n)]
      BY <1>3, <3>1
    <3> QED
      BY <3>2
  <2> HIDE DEF kept
  <2>2. \A n \in 0..L : kept[n] = Step(kept, n)
    BY <2>1
  <2>3. kept[0] = Step(kept, 0) /\ \A n \in 1..L : kept[n] = Step(kept, n) /\ n # 0
    BY <1>2, <2>2
  <2> QED
    BY <2>3 DEF Step
<1> HIDE DEF kept
\* ... and holds the other lines so far, in their order.
<1> DEFINE Fine(n) ==
      /\ kept[n] \in Seq(AllUrls)
      /\ \A i \in DOMAIN kept[n] : \E a \in 1..n : kept[n][i] = file[a] /\ file[a] # u
      /\ \A a \in 1..n : file[a] # u => \E i \in DOMAIN kept[n] : kept[n][i] = file[a]
      /\ \A i, j \in DOMAIN kept[n] : i < j =>
           \E a, b \in 1..n : a < b /\ kept[n][i] = file[a] /\ kept[n][j] = file[b]
<1>5. \A n \in 0..L : Fine(n)
  <2> HIDE DEF Fine
  <2> DEFINE Wrong == {n \in 0..L : ~Fine(n)}
  <2>1. SUFFICES ASSUME Wrong # {} PROVE FALSE
    BY <2>1
  <2>2. PICK n \in Wrong : \A m \in Wrong : n <= m
    <3>1. Wrong \subseteq Nat
      BY <1>2
    <3> HIDE DEF Wrong
    <3> QED
      BY <2>1, <3>1, LeastNumber
  <2>3. n # 0
    <3>1. Fine(0)
      BY <1>4 DEF Fine
    <3> QED
      BY <2>2, <3>1
  <2>4. n \in 1..L /\ n \in Nat /\ n - 1 \in 0..L /\ Fine(n - 1)
    <3>1. n \in 0..L
      BY <2>2
    <3>2. n \in 1..L /\ n \in Nat /\ n - 1 \in 0..L /\ ~(n <= n - 1)
      BY <1>2, <2>3, <3>1
    <3>3. n - 1 \notin Wrong
      BY <2>2, <3>2
    <3> QED
      BY <3>2, <3>3
  <2>5. CASE file[n] = u
    <3> DEFINE old == kept[n - 1]
               new == kept[n]
    <3>1. new = old
      BY <1>4, <2>4, <2>5
    <3>2. /\ old \in Seq(AllUrls)
          /\ \A i \in DOMAIN old : \E a \in 1..(n - 1) : old[i] = file[a] /\ file[a] # u
          /\ \A a \in 1..(n - 1) : file[a] # u => \E i \in DOMAIN old : old[i] = file[a]
          /\ \A i, j \in DOMAIN old : i < j =>
               \E a, b \in 1..(n - 1) : a < b /\ old[i] = file[a] /\ old[j] = file[b]
      BY <2>4 DEF Fine
    <3> HIDE DEF old, new
    <3>3. /\ \A a \in 1..n : file[a] # u => a \in 1..(n - 1)
          /\ \A a \in 1..(n - 1) : a \in 1..n
      BY <2>4, <2>5
    <3>4. /\ \A i \in DOMAIN old : \E a \in 1..n : old[i] = file[a] /\ file[a] # u
          /\ \A a \in 1..n : file[a] # u => \E i \in DOMAIN old : old[i] = file[a]
          /\ \A i, j \in DOMAIN old : i < j =>
               \E a, b \in 1..n : a < b /\ old[i] = file[a] /\ old[j] = file[b]
      <4>1. \A i \in DOMAIN old : \E a \in 1..n : old[i] = file[a] /\ file[a] # u
        BY <3>2, <3>3
      <4>2. \A a \in 1..n : file[a] # u => \E i \in DOMAIN old : old[i] = file[a]
        BY <3>2, <3>3
      <4>3. ASSUME NEW i \in DOMAIN old, NEW j \in DOMAIN old, i < j
            PROVE  \E a, b \in 1..n : a < b /\ old[i] = file[a] /\ old[j] = file[b]
        <5>1. PICK a \in 1..(n - 1), b \in 1..(n - 1) : a < b /\ old[i] = file[a] /\ old[j] = file[b]
          BY <3>2, <4>3
        <5>2. a \in 1..n /\ b \in 1..n
          BY <3>3
        <5> QED
          BY <5>1, <5>2
      <4> QED
        BY <4>1, <4>2, <4>3
    <3>5. Fine(n)
      BY <3>1, <3>2, <3>4 DEF Fine, new
    <3> QED
      BY <2>2, <3>5
  <2>6. CASE file[n] # u
    <3> DEFINE old == kept[n - 1]
               new == kept[n]
    <3>1. new = Append(old, file[n]) /\ old \in Seq(AllUrls) /\ file[n] \in AllUrls
      BY <1>2, <1>4, <2>4, <2>6 DEF Fine
    <3>2. /\ new \in Seq(AllUrls) /\ DOMAIN new = 1..(Len(old) + 1) /\ DOMAIN old = 1..Len(old)
          /\ \A i \in 1..Len(old) : new[i] = old[i]
          /\ new[Len(old) + 1] = file[n] /\ Len(old) \in Nat
      BY <3>1
    <3>3. /\ \A i \in DOMAIN old : \E a \in 1..(n - 1) : old[i] = file[a] /\ file[a] # u
          /\ \A a \in 1..(n - 1) : file[a] # u => \E i \in DOMAIN old : old[i] = file[a]
          /\ \A i, j \in DOMAIN old : i < j =>
               \E a, b \in 1..(n - 1) : a < b /\ old[i] = file[a] /\ old[j] = file[b]
      BY <2>4 DEF Fine
    <3> HIDE DEF old, new
    <3>4. ASSUME NEW i \in DOMAIN new PROVE \E a \in 1..n : new[i] = file[a] /\ file[a] # u
      BY <2>4, <2>6, <3>2, <3>3
    <3>5. ASSUME NEW a \in 1..n, file[a] # u PROVE \E i \in DOMAIN new : new[i] = file[a]
      <4>1. CASE a = n
        BY <3>2, <4>1
      <4>2. CASE a # n
        BY <2>4, <3>2, <3>3, <3>5, <4>2
      <4> QED
        BY <4>1, <4>2
    <3>6. ASSUME NEW i \in DOMAIN new, NEW j \in DOMAIN new, i < j
          PROVE  \E a, b \in 1..n : a < b /\ new[i] = file[a] /\ new[j] = file[b]
      <4>1. i \in DOMAIN old
        BY <3>2, <3>6
      <4>2. CASE j = Len(old) + 1
        <5>1. PICK a \in 1..(n - 1) : old[i] = file[a]
          BY <3>3, <4>1
        <5>2. a \in 1..n /\ n \in 1..n /\ a < n
          BY <2>4
        <5>3. new[i] = file[a] /\ new[j] = file[n]
          BY <3>2, <4>1, <4>2, <5>1
        <5> QED
          BY <5>2, <5>3
      <4>3. CASE j # Len(old) + 1
        <5>1. j \in DOMAIN old
          BY <3>2, <4>3
        <5>2. PICK a \in 1..(n - 1), b \in 1..(n - 1) : a < b /\ old[i] = file[a] /\ old[j] = file[b]
          BY <3>3, <3>6, <4>1, <5>1
        <5>3. a \in 1..n /\ b \in 1..n
          BY <2>4
        <5> QED
          BY <3>2, <4>1, <5>1, <5>2, <5>3
      <4> QED
        BY <4>2, <4>3
    <3>7. Fine(n)
      BY <3>2, <3>4, <3>5, <3>6 DEF Fine, new
    <3> QED
      BY <2>2, <3>7
  <2> QED
    BY <2>5, <2>6
<1>6. Fine(L)
  <2> HIDE DEF Fine
  <2>1. L \in 0..L
    BY <1>2
  <2> QED
    BY <1>5, <2>1
<1> DEFINE end == kept[L]
<1>7. Ordered(end)
  <2>1. ASSUME NEW i \in DOMAIN end, NEW j \in DOMAIN end, i < j
        PROVE  end[i] # end[j] /\ <<end[i], end[j]>> \notin Within
    <3>1. PICK a \in 1..L, b \in 1..L : a < b /\ end[i] = file[a] /\ end[j] = file[b]
      BY <1>6, <2>1
    <3> QED
      BY <1>2, <3>1 DEF Ordered
  <2> QED
    BY <2>1 DEF Ordered
<1>8. Entries(end) = Entries(file) \ {u}
  <2>1. Entries(end) \subseteq Entries(file) \ {u}
    <3>1. ASSUME NEW i \in DOMAIN end PROVE end[i] \in Entries(file) \ {u}
      <4>1. PICK a \in 1..L : end[i] = file[a] /\ file[a] # u
        BY <1>6, <3>1
      <4> HIDE DEF end
      <4> QED
        BY <1>2, <4>1 DEF Entries
    <3> HIDE DEF end
    <3> QED
      BY <3>1 DEF Entries
  <2>2. ASSUME NEW v \in Entries(file), v # u PROVE v \in Entries(end)
    <3>1. PICK a \in 1..L : v = file[a]
      BY <1>2 DEF Entries
    <3>2. PICK i \in DOMAIN end : end[i] = file[a]
      BY <1>6, <2>2, <3>1
    <3> HIDE DEF end
    <3> QED
      BY <3>1, <3>2 DEF Entries
  <2> QED
    BY <2>1, <2>2
<1> QED
  BY <1>1, <1>6, <1>7, <1>8

\* The URLs of a service that are in the file, and those its contract names.
Have(s) == Entries(Urls(s)) \cap Entries(auth)
Known(s) == Entries(KnownUrls(s))
AtWork(h) == work[h].at # "rest"

\* Every file that is there or was read is in order.
FilesOrdered == Ordered(auth) /\ \A h \in Hands : Ordered(work[h].read)

\* Hands take turns, or every service's files are in doubt.
Turns ==
    \A h \in Hands : AtWork(h) =>
        IF work[h].clean THEN \A g \in Hands \ {h} : ~AtWork(g)
        ELSE shaken = Repos /\ litter = Repos

\* What each hand does, and when there are .sources files.
Phases ==
    /\ work["script"].at \in {"rest", "read", "write", "convert", "converted"}
    /\ work["client"].at \notin {"convert", "converted"}
    /\ AtWork("script") => work["script"].adding
    /\ work["script"].at \in {"convert", "converted"} => deb822
    /\ \A h \in Hands : work[h].at = "write" => work[h].todo # <<>>
    /\ \A s \in Repos : "sources" \in source[s] => deb822

\* How far a hand that nothing disturbs has got, ...
Adding(s, r) ==
    /\ r.at \in {"pin", "check", "read", "write", "key", "source", "update"}
    /\ r.at \in {"pin", "check"} => r.todo = KnownUrls(s)
    /\ r.at # "pin" /\ s \in Pinned => s \in pins
    /\ r.at \in {"read", "write"} =>
         Url[s] \in Entries(auth) \/ (r.todo # <<>> /\ Head(r.todo) = Url[s])
    /\ r.at \in {"key", "source", "update"} => Url[s] \in Entries(auth)
    /\ r.at \in {"source", "update"} /\ ~deb822 => Key[s] \in keyring
    /\ r.at = "update" => source[s] # {} /\ (suites[s] <=> (s \in EsmRepos => updates))

Removing(s, r) ==
    /\ r.at \in {"unsource", "unlist", "unkey", "read", "write", "unpin"}
    /\ r.at \in {"unsource", "unlist", "unkey"} => r.todo = KnownUrls(s)
    /\ r.at = "unlist" => "sources" \notin source[s]
    /\ r.at \in {"unkey", "read", "write", "unpin"} => source[s] = {}
    /\ r.at \in {"read", "write"} => Known(s) \cap Entries(auth) \subseteq Entries(r.todo)
    /\ r.at = "unpin" => Known(s) \cap Entries(auth) = {}

Scripted(s, r) ==
    /\ r.at \in {"read", "write"} => source[s] # {}
    /\ r.at = "convert" => "list" \in source[s]

Underway(h) ==
    LET r == work[h] IN
    /\ Entries(r.todo) \subseteq IF h = "client" THEN Known(r.svc) ELSE Entries(Urls(r.svc))
    /\ r.at = "write" => r.read = auth
    /\ IF h = "script" THEN Scripted(r.svc, r)
       ELSE IF r.adding THEN Adding(r.svc, r) ELSE Removing(r.svc, r)

Progress == \A h \in Hands : AtWork(h) /\ work[h].clean => Underway(h)

\* ... what a source on disk has, and what is left of one that is not.
Sourced(s) ==
    Live(s) => /\ Url[s] \in Entries(auth) /\ (s \in Pinned => s \in pins)
               /\ (("list" \in source[s] /\ ~deb822) => Key[s] \in keyring)
               /\ suites[s] <=> (s \in EsmRepos => updates)

Left(s) ==
    /\ Have(s) \subseteq Known(s)
    /\ source[s] = {} /\ (\A h \in Hands : AtWork(h) => work[h].svc # s) => Have(s) = {}

\* Both, for the services that are not in doubt.
Backed == \A s \in Repos \ shaken : Sourced(s)
Cleared == \A s \in Repos \ litter : Left(s)

\* The inductive invariant.
AptInv == AptFilesTypeOK /\ FilesOrdered /\ Turns /\ Phases /\ Progress /\ Backed /\ Cleared

Works == work \in [Hands -> WorkRecords]

\* What a hand's move leaves of the work.
Moved(h, at, adding, todo, read) ==
    /\ Works' /\ work'[h].at = at /\ work'[h].svc = work[h].svc /\ work'[h].clean = work[h].clean
    /\ work'[h].adding = adding /\ work'[h].todo = todo /\ work'[h].read = read
    /\ \A g \in Hands \ {h} : work'[g] = work[g]

\* The URLs of a service: its own comes first.
LEMMA UrlFacts ==
    ASSUME NEW s \in Repos
    PROVE  /\ Urls(s) \in Seq(AllUrls) /\ KnownUrls(s) \in Seq(AllUrls)
           /\ KnownUrls(s) # <<>> /\ Head(KnownUrls(s)) = Url[s]
           /\ Url[s] \in Known(s) /\ Known(s) \subseteq Entries(Urls(s))
           /\ terms.snapshots => Known(s) = Entries(Urls(s))
<1>1. Snapshot[s] \in Seq(AllUrls)
  BY UrlsAssumption
<1>2. Snapshot[s] \in Seq(AllUrls \cup {Url[s]}) /\ <<Url[s]>> \in Seq(AllUrls \cup {Url[s]})
  BY <1>1
<1> DEFINE urls == Urls(s)
<1>3. /\ urls \in Seq(AllUrls \cup {Url[s]}) /\ urls[1] = Url[s] /\ 1 \in DOMAIN urls /\ urls # <<>>
      /\ Head(urls) = Url[s]
  BY <1>2 DEF Urls
<1> HIDE DEF urls
<1>4. Url[s] \in Entries(urls)
  BY <1>3 DEF Entries
<1>5. Url[s] \in AllUrls
  BY <1>4 DEF AllUrls, urls
<1>6. AllUrls \cup {Url[s]} = AllUrls
  BY <1>5
<1>7. CASE terms.snapshots
  BY <1>3, <1>4, <1>6, <1>7 DEF Known, KnownUrls, urls
<1>8. CASE ~terms.snapshots
  <2>1. KnownUrls(s) = <<Url[s]>>
    BY <1>8 DEF KnownUrls
  <2>2. Entries(<<Url[s]>>) = {Url[s]}
    BY DEF Entries
  <2> QED
    BY <1>3, <1>4, <1>5, <1>6, <1>8, <2>1, <2>2 DEF Known, urls
<1> QED
  BY <1>7, <1>8

\* The entries of a list are its head and those of its tail.
LEMMA TailEntries ==
    ASSUME NEW S, NEW todo \in Seq(S), todo # <<>>
    PROVE  /\ Head(todo) \in S /\ Tail(todo) \in Seq(S)
           /\ Entries(todo) = {Head(todo)} \cup Entries(Tail(todo))
<1>1. /\ Head(todo) \in S /\ Tail(todo) \in Seq(S) /\ Len(todo) \in Nat \ {0}
      /\ Len(Tail(todo)) = Len(todo) - 1
      /\ \A i \in 1..(Len(todo) - 1) : Tail(todo)[i] = todo[i + 1]
      /\ Head(todo) = todo[1] /\ DOMAIN todo = 1..Len(todo)
      /\ DOMAIN Tail(todo) = 1..(Len(todo) - 1)
  OBVIOUS
<1> DEFINE tail == Tail(todo)
<1> HIDE DEF tail
<1>2. ASSUME NEW i \in DOMAIN todo PROVE todo[i] = Head(todo) \/ \E j \in DOMAIN tail : todo[i] = tail[j]
  <2>1. CASE i = 1
    BY <1>1, <2>1
  <2>2. CASE i # 1
    <3>1. i - 1 \in 1..(Len(todo) - 1) /\ (i - 1) + 1 = i
      BY <1>1, <2>2
    <3> QED
      BY <1>1, <3>1 DEF tail
  <2> QED
    BY <2>1, <2>2
<1>3. ASSUME NEW j \in DOMAIN tail PROVE \E i \in DOMAIN todo : todo[i] = tail[j]
  <2>1. j + 1 \in DOMAIN todo /\ tail[j] = todo[j + 1]
    BY <1>1 DEF tail
  <2> QED
    BY <2>1
<1>4. Entries(todo) = {Head(todo)} \cup Entries(tail)
  BY <1>1, <1>2, <1>3 DEF Entries
<1> QED
  BY <1>1, <1>4 DEF tail

\* A hand at rest has no files open.
LEMMA QuietFacts ==
    /\ Quiet \in WorkRecords /\ Quiet.at = "rest" /\ Quiet.read = <<>> /\ Quiet.todo = <<>>
    /\ Ordered(<<>>) /\ Entries(<<>>) = {}
<1>1. (CHOOSE s \in Repos : TRUE) \in Repos
  BY AptFilesAssumption
<1>2. <<>> \in Seq(AllUrls)
  OBVIOUS
<1>3. Ordered(<<>>) /\ Entries(<<>>) = {}
  BY DEF Ordered, Entries
<1> QED
  BY <1>1, <1>2, <1>3 DEF Quiet, WorkRecords, Places

\* What the three ways to change the work of a hand do to it.
LEMMA GoesSets ==
    ASSUME Works, NEW h \in Hands, NEW at \in Places, Goes(h, at)
    PROVE  Moved(h, at, work[h].adding, work[h].todo, work[h].read)
BY DEF Works, Goes, Moved, WorkRecords

LEMMA RestsSets ==
    ASSUME Works, NEW h \in Hands, Rests(h)
    PROVE  /\ Works' /\ work'[h] = Quiet /\ work'[h].at = "rest"
           /\ \A g \in Hands \ {h} : work'[g] = work[g]
BY QuietFacts DEF Works, Rests

LEMMA TakeUpSets ==
    ASSUME Works, NEW h \in Hands, NEW s \in Repos, NEW at \in Places, NEW adding \in BOOLEAN,
           NEW todo \in Seq(AllUrls), TakeUp(h, s, at, adding, todo)
    PROVE  LET overlap == \E g \in Hands : work[g].at # "rest" IN
           /\ Works' /\ work[h].at = "rest"
           /\ work'[h] = [at |-> at, svc |-> s, adding |-> adding, todo |-> todo, read |-> <<>>,
                          clean |-> ~overlap]
           /\ \A g \in Hands \ {h} :
                /\ work'[g].at = work[g].at /\ work'[g].svc = work[g].svc
                /\ work'[g].adding = work[g].adding /\ work'[g].todo = work[g].todo
                /\ work'[g].read = work[g].read /\ work'[g].clean = (work[g].clean /\ ~overlap)
<1> DEFINE overlap == \E g \in Hands : work[g].at # "rest"
<1>1. overlap \in BOOLEAN /\ <<>> \in Seq(AllUrls)
  OBVIOUS
<1>2. work' = [g \in Hands |->
        IF g = h THEN [at |-> at, svc |-> s, adding |-> adding, todo |-> todo, read |-> <<>>,
                       clean |-> ~overlap]
        ELSE [work[g] EXCEPT !.clean = @ /\ ~overlap]]
      /\ work[h].at = "rest"
  BY DEF TakeUp
<1> HIDE DEF overlap
<1>3. ASSUME NEW g \in Hands \ {h}
      PROVE  /\ work'[g] \in WorkRecords
             /\ work'[g].at = work[g].at /\ work'[g].svc = work[g].svc
             /\ work'[g].adding = work[g].adding /\ work'[g].todo = work[g].todo
             /\ work'[g].read = work[g].read /\ work'[g].clean = (work[g].clean /\ ~overlap)
  <2>1. work[g] \in WorkRecords
    BY DEF Works
  <2>2. work'[g] = [work[g] EXCEPT !.clean = @ /\ ~overlap]
    BY <1>2
  <2> QED
    BY <1>1, <2>1, <2>2 DEF WorkRecords
<1>4. work'[h] \in WorkRecords
  BY <1>1, <1>2 DEF WorkRecords
<1>5. Works'
  BY <1>2, <1>3, <1>4 DEF Works
<1> QED
  BY <1>2, <1>3, <1>5 DEF overlap

\* How each step moves the hands.
LEMMA HandMoves ==
    ASSUME AptFilesTypeOK, FilesOrdered, Phases, NEW h \in Hands
    PROVE  /\ Pin(h) => Moved(h, "check", work[h].adding, work[h].todo, work[h].read)
           /\ ReadAuth(h) => Moved(h, "write", work[h].adding, work[h].todo, auth)
           /\ WriteAuth(h) => /\ Moved(h, "read", work[h].adding, Tail(work[h].todo), work[h].read)
                              /\ auth' \in Seq(AllUrls) /\ Ordered(auth')
           /\ ExportKey(h) => \/ Moved(h, "source", work[h].adding, work[h].todo, work[h].read)
                              \/ Raise(h)
           /\ WriteSourceFile(h) => Moved(h, "update", work[h].adding, work[h].todo, work[h].read)
           /\ UpdateSource(h) =>
                \/ Rests(h)
                \/ /\ Moved(h, "unsource", FALSE, KnownUrls(work[h].svc), work[h].read)
                   /\ UNCHANGED shaken
           /\ DropKey(h) => Moved(h, "read", work[h].adding, work[h].todo, work[h].read)
<1> USE DEF AptFilesTypeOK, Works
<1>0. work[h] \in WorkRecords /\ work[h].svc \in Repos /\ work[h].todo \in Seq(AllUrls)
  BY DEF WorkRecords
<1>1. ASSUME Pin(h) PROVE Moved(h, "check", work[h].adding, work[h].todo, work[h].read)
  BY <1>1, GoesSets DEF Pin, Places
<1>2. ASSUME ReadAuth(h) PROVE Moved(h, "write", work[h].adding, work[h].todo, auth)
  BY <1>0, <1>2 DEF ReadAuth, Moved, WorkRecords, Places
<1>3. ASSUME WriteAuth(h)
      PROVE  /\ Moved(h, "read", work[h].adding, Tail(work[h].todo), work[h].read)
             /\ auth' \in Seq(AllUrls) /\ Ordered(auth')
  <2>1. work[h].todo # <<>>
    BY <1>3 DEF WriteAuth, Phases
  <2>2. Head(work[h].todo) \in AllUrls /\ Tail(work[h].todo) \in Seq(AllUrls)
    BY <1>0, <2>1, TailEntries
  <2>3. work[h].read \in Seq(AllUrls) /\ Ordered(work[h].read)
    BY <1>0 DEF WorkRecords, FilesOrdered
  <2>4. auth' \in Seq(AllUrls) /\ Ordered(auth')
    BY <1>3, <2>2, <2>3, EntryAdded, EntryRemoved DEF WriteAuth
  <2>5. work' = [work EXCEPT ![h].at = "read", ![h].todo = Tail(@)]
    BY <1>3 DEF WriteAuth
  <2>6. Moved(h, "read", work[h].adding, Tail(work[h].todo), work[h].read)
    BY <1>0, <2>2, <2>5 DEF Moved, WorkRecords, Places
  <2> QED
    BY <2>4, <2>6
<1>4. ASSUME ExportKey(h)
      PROVE  Moved(h, "source", work[h].adding, work[h].todo, work[h].read) \/ Raise(h)
  BY <1>4, GoesSets DEF ExportKey, Places
<1>5. ASSUME WriteSourceFile(h)
      PROVE  Moved(h, "update", work[h].adding, work[h].todo, work[h].read)
  BY <1>5, GoesSets DEF WriteSourceFile, Places
<1>6. ASSUME UpdateSource(h)
      PROVE  \/ Rests(h)
             \/ /\ Moved(h, "unsource", FALSE, KnownUrls(work[h].svc), work[h].read)
                /\ UNCHANGED shaken
  <2>1. KnownUrls(work[h].svc) \in Seq(AllUrls)
    BY <1>0, UrlFacts
  <2>2. CASE Rests(h)
    BY <2>2
  <2>3. CASE ~Rests(h)
    <3> DEFINE todo == KnownUrls(work[h].svc)
    <3>1. /\ work' = [work EXCEPT ![h].at = "unsource", ![h].adding = FALSE, ![h].todo = todo]
          /\ UNCHANGED shaken
      BY <1>6, <2>3 DEF UpdateSource
    <3>2. todo \in Seq(AllUrls)
      BY <2>1
    <3> HIDE DEF todo
    <3>3. Moved(h, "unsource", FALSE, todo, work[h].read)
      BY <1>0, <3>1, <3>2 DEF Moved, WorkRecords, Places
    <3> QED
      BY <3>1, <3>3 DEF todo
  <2> QED
    BY <2>2, <2>3
<1>7. ASSUME DropKey(h) PROVE Moved(h, "read", work[h].adding, work[h].todo, work[h].read)
  BY <1>7, GoesSets DEF DropKey, Places
<1> QED
  BY <1>1, <1>2, <1>3, <1>4, <1>5, <1>6, <1>7

\* How a hand takes up work.
TakenUp(h, s) ==
    \/ h = "client" /\ TakeUp(h, s, "pin", TRUE, KnownUrls(s))
    \/ h = "client" /\ source[s] # {} /\ TakeUp(h, s, "unsource", FALSE, KnownUrls(s))
    \/ h = "script" /\ Live(s) /\ TakeUp(h, s, "read", TRUE, Urls(s))
    \/ h = "script" /\ deb822 /\ "list" \in source[s] /\ TakeUp(h, s, "convert", TRUE, <<>>)
    \/ h = "script" /\ deb822 /\ TakeUp(h, s, "converted", TRUE, <<>>)

\* A step of a hand at work.
HandStep(h) ==
    \/ Pin(h) \/ Check(h) \/ ReadAuth(h) \/ WriteAuth(h) \/ AuthDone(h) \/ ExportKey(h)
    \/ WriteSourceFile(h) \/ UpdateSource(h) \/ DropSourceFile(h) \/ DropList(h)
    \/ DropKey(h) \/ Unpin(h) \/ KillHand(h)
    \/ h = "script" /\ (WriteConverted \/ DropConverted)

\* Each step of the system is one of three kinds.
LEMMA AptSteps ==
    ASSUME AptFilesTypeOK, AptNext
    PROVE  \/ \E h \in Hands, s \in Repos : TakenUp(h, s)
           \/ \E h \in Hands : HandStep(h)
           \/ NewRelease
<1>1. terms.svcs \subseteq Repos
  BY AptFilesAssumption DEF AptFilesTypeOK
<1>2. "client" \in Hands /\ "script" \in Hands
  BY DEF Hands
<1>3. ASSUME NEW s \in Repos,
             Add(s) \/ Remove(s) \/ AddSnapshots(s) \/ Convert(s) \/ DropCommented(s)
      PROVE  \E h \in Hands : TakenUp(h, s)
  <2>1. TakenUp("client", s) \/ TakenUp("script", s)
    BY <1>3 DEF Add, Remove, AddSnapshots, Convert, DropCommented, TakenUp
  <2> QED
    BY <1>2, <2>1
<1> QED
  BY <1>1, <1>2, <1>3 DEF AptNext, HandStep

\* What a hand that takes up work starts from.
LEMMA TakenUpSets ==
    ASSUME Works, NEW h \in Hands, NEW s \in Repos, TakenUp(h, s)
    PROVE  LET overlap == \E g \in Hands : work[g].at # "rest" IN
           /\ Works' /\ work[h].at = "rest" /\ work'[h].svc = s /\ work'[h].clean = ~overlap
           /\ work'[h].read = <<>> /\ work'[h].at # "rest" /\ work'[h].at # "write"
           /\ \A g \in Hands \ {h} :
                /\ work'[g].at = work[g].at /\ work'[g].svc = work[g].svc
                /\ work'[g].adding = work[g].adding /\ work'[g].todo = work[g].todo
                /\ work'[g].read = work[g].read /\ work'[g].clean = (work[g].clean /\ ~overlap)
           /\ UNCHANGED <<source, suites, keyring, auth, pins, deb822, updates, terms>>
           /\ (overlap => trouble < MaxTrouble) /\ trouble' = IF overlap THEN trouble + 1 ELSE trouble
           /\ shaken' = IF overlap THEN Repos ELSE shaken
           /\ litter' = IF overlap THEN Repos ELSE litter
           /\ IF h = "client"
              THEN /\ work'[h].todo = KnownUrls(s)
                   /\ \/ work'[h].at = "pin" /\ work'[h].adding
                      \/ work'[h].at = "unsource" /\ ~work'[h].adding
              ELSE /\ work'[h].adding
                   /\ \/ work'[h].at = "read" /\ work'[h].todo = Urls(s) /\ Live(s)
                      \/ work'[h].at = "convert" /\ work'[h].todo = <<>> /\ deb822 /\ "list" \in source[s]
                      \/ work'[h].at = "converted" /\ work'[h].todo = <<>> /\ deb822
<1>1. Urls(s) \in Seq(AllUrls) /\ KnownUrls(s) \in Seq(AllUrls) /\ <<>> \in Seq(AllUrls)
  BY UrlFacts
<1>2. "pin" \in Places /\ "unsource" \in Places /\ "read" \in Places /\ "convert" \in Places
      /\ "converted" \in Places
  BY DEF Places
<1>3. PICK at \in Places, adding \in BOOLEAN, todo \in Seq(AllUrls) :
        /\ TakeUp(h, s, at, adding, todo)
        /\ IF h = "client"
           THEN /\ todo = KnownUrls(s)
                /\ (at = "pin" /\ adding) \/ (at = "unsource" /\ ~adding)
           ELSE /\ adding
                /\ \/ at = "read" /\ todo = Urls(s) /\ Live(s)
                   \/ at = "convert" /\ todo = <<>> /\ deb822 /\ "list" \in source[s]
                   \/ at = "converted" /\ todo = <<>> /\ deb822
  BY <1>1, <1>2 DEF TakenUp
<1> DEFINE overlap == \E g \in Hands : work[g].at # "rest"
<1>4. /\ Works' /\ work[h].at = "rest"
      /\ work'[h] = [at |-> at, svc |-> s, adding |-> adding, todo |-> todo, read |-> <<>>,
                     clean |-> ~overlap]
      /\ \A g \in Hands \ {h} :
           /\ work'[g].at = work[g].at /\ work'[g].svc = work[g].svc
           /\ work'[g].adding = work[g].adding /\ work'[g].todo = work[g].todo
           /\ work'[g].read = work[g].read /\ work'[g].clean = (work[g].clean /\ ~overlap)
  BY <1>3, TakeUpSets
<1>5. /\ UNCHANGED <<source, suites, keyring, auth, pins, deb822, updates, terms>>
      /\ (overlap => trouble < MaxTrouble) /\ trouble' = IF overlap THEN trouble + 1 ELSE trouble
      /\ shaken' = IF overlap THEN Repos ELSE shaken
      /\ litter' = IF overlap THEN Repos ELSE litter
  BY <1>3 DEF TakeUp
<1>6. at # "rest" /\ at # "write"
  BY <1>3
<1> HIDE DEF overlap
<1>7. /\ work'[h].at = at /\ work'[h].svc = s /\ work'[h].adding = adding /\ work'[h].todo = todo
      /\ work'[h].read = <<>> /\ work'[h].clean = ~overlap
  BY <1>4
<1> QED
  BY <1>3, <1>4, <1>5, <1>6, <1>7 DEF overlap

\* Every step preserves each part of the invariant.
LEMMA AptTypeStep ==
    ASSUME AptFilesTypeOK, FilesOrdered, Phases, [AptNext]_aptVars
    PROVE  AptFilesTypeOK'
<1> USE DEF AptFilesTypeOK, Works, Moved
<1>0. work \in [Hands -> WorkRecords] /\ trouble \in 0..MaxTrouble /\ MaxTrouble \in Nat
  BY AptFilesAssumption
<1>1. CASE UNCHANGED aptVars
  BY <1>1 DEF aptVars
<1>2. ASSUME NEW h \in Hands, NEW s \in Repos, TakenUp(h, s) PROVE AptFilesTypeOK'
  <2> DEFINE overlap == \E g \in Hands : work[g].at # "rest"
  <2>1. /\ Works'
        /\ UNCHANGED <<source, suites, keyring, auth, pins, deb822, updates, terms>>
        /\ (overlap => trouble < MaxTrouble) /\ trouble' = IF overlap THEN trouble + 1 ELSE trouble
        /\ shaken' = IF overlap THEN Repos ELSE shaken
        /\ litter' = IF overlap THEN Repos ELSE litter
    BY <1>2, TakenUpSets
  <2> HIDE DEF overlap
  <2>2. trouble' \in 0..MaxTrouble
    BY <1>0, <2>1
  <2> QED
    BY <2>1, <2>2
<1>3. ASSUME NEW h \in Hands, HandStep(h) PROVE AptFilesTypeOK'
  <2>0. work[h].svc \in Repos /\ work["script"].svc \in Repos
    BY <1>0 DEF WorkRecords, Hands
  <2>1. CASE Pin(h)
    <3>1. Works'
      BY <2>1, HandMoves
    <3> QED
      BY <2>1, <3>1 DEF Pin
  <2>2. CASE Check(h)
    <3>1. Works'
      BY <2>2, GoesSets, RestsSets DEF Check, Raise, Places
    <3> QED
      BY <2>0, <2>2, <3>1 DEF Check, Raise
  <2>3. CASE ReadAuth(h)
    <3>1. Works'
      BY <2>3, HandMoves
    <3> QED
      BY <2>3, <3>1 DEF ReadAuth
  <2>4. CASE WriteAuth(h)
    <3>1. Works' /\ auth' \in Seq(AllUrls)
      BY <2>4, HandMoves
    <3> QED
      BY <2>0, <2>4, <3>1 DEF WriteAuth
  <2>5. CASE AuthDone(h)
    <3>1. Works'
      BY <2>5, GoesSets, RestsSets DEF AuthDone, Places
    <3> QED
      BY <2>5, <3>1 DEF AuthDone
  <2>6. CASE ExportKey(h)
    <3>1. Works'
      BY <2>6, HandMoves, RestsSets DEF Raise
    <3> QED
      BY <2>0, <2>6, <3>1 DEF ExportKey, Raise
  <2>7. CASE WriteSourceFile(h)
    <3>1. Works'
      BY <2>7, HandMoves
    <3> QED
      BY <2>0, <2>7, <3>1 DEF WriteSourceFile
  <2>8. CASE UpdateSource(h)
    <3>1. Works'
      BY <2>8, HandMoves, RestsSets
    <3> QED
      BY <2>8, <3>1 DEF UpdateSource
  <2>9. CASE DropSourceFile(h)
    <3>1. Works'
      BY <2>9, GoesSets DEF DropSourceFile, Places
    <3> QED
      BY <2>0, <2>9, <3>1 DEF DropSourceFile
  <2>10. CASE DropList(h)
    <3>1. Works'
      BY <2>10, GoesSets DEF DropList, Places
    <3> QED
      BY <2>0, <2>10, <3>1 DEF DropList
  <2>11. CASE DropKey(h)
    <3>1. Works'
      BY <2>11, HandMoves
    <3> QED
      BY <2>11, <3>1 DEF DropKey
  <2>12. CASE Unpin(h)
    <3>1. Works'
      BY <2>12, RestsSets DEF Unpin
    <3> QED
      BY <2>12, <3>1 DEF Unpin
  <2>13. CASE KillHand(h)
    <3>1. Works'
      BY <2>13, RestsSets DEF KillHand, Raise
    <3>2. trouble' \in 0..MaxTrouble
      BY <1>0, <2>13 DEF KillHand
    <3> QED
      BY <2>0, <2>13, <3>1, <3>2 DEF KillHand, Raise
  <2>14. CASE h = "script" /\ WriteConverted
    <3>1. Works'
      BY <2>14, GoesSets DEF WriteConverted, Places
    <3> QED
      BY <2>0, <2>14, <3>1 DEF WriteConverted
  <2>15. CASE h = "script" /\ DropConverted
    <3>1. Works'
      BY <2>15, RestsSets DEF DropConverted
    <3> QED
      BY <2>0, <2>15, <3>1 DEF DropConverted
  <2> QED
    BY <1>3, <2>1, <2>2, <2>3, <2>4, <2>5, <2>6, <2>7, <2>8, <2>9, <2>10, <2>11, <2>12, <2>13,
       <2>14, <2>15 DEF HandStep
<1>4. CASE NewRelease
  BY <1>4 DEF NewRelease
<1> QED
  BY <1>1, <1>2, <1>3, <1>4, AptSteps

LEMMA FilesOrderedStep ==
    ASSUME AptFilesTypeOK, FilesOrdered, Phases, [AptNext]_aptVars
    PROVE  FilesOrdered'
<1> USE DEF Moved
<1>0. Works /\ Ordered(<<>>) /\ Ordered(auth) /\ \A h \in Hands : Ordered(work[h].read)
  BY QuietFacts DEF AptFilesTypeOK, FilesOrdered, Works
<1>1. CASE UNCHANGED aptVars
  BY <1>0, <1>1 DEF aptVars, FilesOrdered
<1>2. ASSUME NEW h \in Hands, NEW s \in Repos, TakenUp(h, s) PROVE FilesOrdered'
  <2>1. /\ UNCHANGED auth /\ work'[h].read = <<>>
        /\ \A g \in Hands \ {h} : work'[g].read = work[g].read
    BY <1>0, <1>2, TakenUpSets
  <2> QED
    BY <1>0, <2>1 DEF FilesOrdered
<1>3. ASSUME NEW h \in Hands, HandStep(h) PROVE FilesOrdered'
  <2>1. /\ Ordered(auth')
        /\ Ordered(work'[h].read) /\ \A g \in Hands \ {h} : work'[g] = work[g]
    <3>1. CASE WriteAuth(h)
      BY <1>0, <3>1, HandMoves
    <3>2. CASE ReadAuth(h)
      BY <1>0, <3>2, HandMoves DEF ReadAuth
    <3>3. CASE Pin(h) \/ ExportKey(h) \/ WriteSourceFile(h) \/ UpdateSource(h) \/ DropKey(h)
      <4>1. UNCHANGED auth
        BY <3>3 DEF Pin, ExportKey, WriteSourceFile, UpdateSource, DropKey
      <4>2. /\ work'[h].read \in {<<>>, work[h].read}
            /\ \A g \in Hands \ {h} : work'[g] = work[g]
        BY <1>0, <3>3, HandMoves, RestsSets, QuietFacts DEF Raise
      <4> QED
        BY <1>0, <4>1, <4>2
    <3>4. ASSUME \/ Check(h) \/ AuthDone(h) \/ DropSourceFile(h) \/ DropList(h) \/ Unpin(h)
                 \/ KillHand(h) \/ (h = "script" /\ (WriteConverted \/ DropConverted))
          PROVE  /\ Ordered(auth')
                 /\ Ordered(work'[h].read) /\ \A g \in Hands \ {h} : work'[g] = work[g]
      <4>1. UNCHANGED auth
        BY <3>4 DEF Check, AuthDone, DropSourceFile, DropList, Unpin, KillHand, WriteConverted,
                    DropConverted
      <4>2. Rests(h) \/ \E at \in Places : Goes(h, at)
        BY <3>4 DEF Check, AuthDone, DropSourceFile, DropList, Unpin, KillHand, WriteConverted,
                    DropConverted, Raise, Places
      <4>3. /\ work'[h].read \in {<<>>, work[h].read}
            /\ \A g \in Hands \ {h} : work'[g] = work[g]
        BY <1>0, <4>2, GoesSets, RestsSets, QuietFacts
      <4> QED
        BY <1>0, <4>1, <4>3
    <3> QED
      BY <1>3, <3>1, <3>2, <3>3, <3>4 DEF HandStep
  <2> QED
    BY <1>0, <2>1 DEF FilesOrdered
<1>4. CASE NewRelease
  BY <1>0, <1>4 DEF NewRelease, FilesOrdered
<1> QED
  BY <1>1, <1>2, <1>3, <1>4, AptSteps

\* A hand's own step leaves the other hand and the release alone; if it was disturbed, the
\* services stay in doubt.
LEMMA HandKeeps ==
    ASSUME AptFilesTypeOK, FilesOrdered, Phases, NEW h \in Hands, HandStep(h)
    PROVE  /\ AtWork(h) /\ \A g \in Hands \ {h} : work'[g] = work[g]
           /\ \/ work'[h] = Quiet
              \/ work'[h].clean = work[h].clean /\ work'[h].svc = work[h].svc /\ work'[h].at # "rest"
           /\ UNCHANGED <<terms, updates, deb822>>
           /\ ~work[h].clean => shaken \subseteq shaken' /\ litter \subseteq litter'
<1> USE DEF Moved
<1>0. Works
  BY DEF AptFilesTypeOK, Works
<1>1. UNCHANGED <<terms, updates, deb822>>
  BY DEF HandStep, Pin, Check, ReadAuth, WriteAuth, AuthDone, ExportKey, WriteSourceFile,
         UpdateSource,
         DropSourceFile, DropList, DropKey, Unpin, KillHand, WriteConverted, DropConverted
<1>2. AtWork(h)
  BY DEF HandStep, Pin, Check, ReadAuth, WriteAuth, AuthDone, ExportKey, WriteSourceFile,
         UpdateSource,
         DropSourceFile, DropList, DropKey, Unpin, KillHand, WriteConverted, DropConverted, AtWork
<1>3. ~work[h].clean => shaken \subseteq shaken' /\ litter \subseteq litter'
  BY DEF HandStep, Pin, Check, ReadAuth, WriteAuth, AuthDone, ExportKey, WriteSourceFile,
         UpdateSource,
         DropSourceFile, DropList, DropKey, Unpin, KillHand, WriteConverted, DropConverted, Raise
<1>4. CASE Pin(h) \/ ExportKey(h) \/ WriteSourceFile(h) \/ UpdateSource(h) \/ DropKey(h)
           \/ WriteAuth(h) \/ ReadAuth(h)
  <2>1. \/ Rests(h)
        \/ \E at \in Places \ {"rest"} : \E adding, todo, read : Moved(h, at, adding, todo, read)
    <3>1. /\ "check" \in Places \ {"rest"} /\ "write" \in Places \ {"rest"}
          /\ "read" \in Places \ {"rest"} /\ "source" \in Places \ {"rest"}
          /\ "update" \in Places \ {"rest"} /\ "unsource" \in Places \ {"rest"}
      BY DEF Places
    <3> HIDE DEF Moved
    <3> QED
      BY <1>4, <3>1, HandMoves DEF Raise
  <2> QED
    BY <1>0, <1>1, <1>2, <1>3, <2>1, RestsSets
<1>5. ASSUME \/ Check(h) \/ AuthDone(h) \/ DropSourceFile(h) \/ DropList(h) \/ Unpin(h)
             \/ KillHand(h) \/ (h = "script" /\ (WriteConverted \/ DropConverted))
      PROVE  Rests(h) \/ \E at \in Places \ {"rest"} : Goes(h, at)
  BY <1>5 DEF Check, AuthDone, DropSourceFile, DropList, Unpin, KillHand, WriteConverted,
     DropConverted,
              Raise, Places
<1> QED
  BY <1>0, <1>1, <1>2, <1>3, <1>4, <1>5, GoesSets, RestsSets DEF HandStep

LEMMA TurnsStep ==
    ASSUME AptFilesTypeOK, FilesOrdered, Phases, Turns, [AptNext]_aptVars
    PROVE  Turns'
<1>0. Works /\ AptFilesTypeOK'
  BY AptTypeStep DEF AptFilesTypeOK, Works
<1>1. CASE UNCHANGED aptVars
  BY <1>1 DEF aptVars, Turns, AtWork
<1>2. ASSUME NEW h \in Hands, NEW s \in Repos, TakenUp(h, s) PROVE Turns'
  <2> DEFINE overlap == \E g \in Hands : work[g].at # "rest"
  <2>1. /\ work[h].at = "rest" /\ work'[h].clean = ~overlap
        /\ \A g \in Hands \ {h} :
             work'[g].at = work[g].at /\ work'[g].clean = (work[g].clean /\ ~overlap)
        /\ shaken' = IF overlap THEN Repos ELSE shaken
        /\ litter' = IF overlap THEN Repos ELSE litter
    BY <1>0, <1>2, TakenUpSets
  <2> QED
    BY <2>1 DEF Turns, AtWork
<1>3. ASSUME NEW h \in Hands, HandStep(h) PROVE Turns'
  <2>1. /\ AtWork(h) /\ \A g \in Hands \ {h} : work'[g] = work[g]
        /\ work'[h].at = "rest" \/ work'[h].clean = work[h].clean
        /\ ~work[h].clean => shaken \subseteq shaken' /\ litter \subseteq litter'
    BY <1>3, HandKeeps, QuietFacts
  <2>2. shaken' \subseteq Repos /\ litter' \subseteq Repos
    BY <1>0 DEF AptFilesTypeOK
  <2>3. CASE work[h].clean
    <3>1. \A g \in Hands \ {h} : ~AtWork(g)
      BY <2>1, <2>3 DEF Turns
    <3> QED
      BY <2>1, <2>3, <3>1 DEF Turns, AtWork
  <2>4. CASE ~work[h].clean
    <3>1. shaken = Repos /\ litter = Repos
      BY <2>1, <2>4 DEF Turns
    <3>2. shaken' = Repos /\ litter' = Repos
      BY <2>1, <2>2, <2>4, <3>1
    <3>3. ASSUME NEW g \in Hands \ {h}, AtWork(g) PROVE ~work[g].clean
      BY <2>1, <3>3 DEF Turns
    <3> QED
      BY <2>1, <2>4, <3>2, <3>3 DEF Turns, AtWork
  <2> QED
    BY <2>3, <2>4
<1>4. CASE NewRelease
  BY <1>4 DEF NewRelease, Turns, AtWork
<1> QED
  BY <1>1, <1>2, <1>3, <1>4, AptSteps

LEMMA PhasesStep ==
    ASSUME AptFilesTypeOK, FilesOrdered, Phases, [AptNext]_aptVars
    PROVE  Phases'
<1> USE DEF Moved
<1>0. Works /\ "client" \in Hands /\ "script" \in Hands /\ Hands = {"client", "script"}
  BY DEF AptFilesTypeOK, Works, Hands
<1>1. CASE UNCHANGED aptVars
  BY <1>1 DEF aptVars, Phases, AtWork
<1>2. ASSUME NEW h \in Hands, NEW s \in Repos, TakenUp(h, s) PROVE Phases'
  <2>1. /\ UNCHANGED <<source, deb822>> /\ work'[h].at # "write"
        /\ \A g \in Hands \ {h} : /\ work'[g].at = work[g].at /\ work'[g].todo = work[g].todo
                                   /\ work'[g].adding = work[g].adding
        /\ IF h = "client" THEN work'[h].at \in {"pin", "unsource"}
           ELSE /\ work'[h].adding /\ work'[h].at \in {"read", "convert", "converted"}
                /\ work'[h].at # "read" => deb822
    BY <1>0, <1>2, TakenUpSets
  <2> QED
    BY <1>0, <2>1 DEF Phases, AtWork
<1>3. ASSUME NEW h \in Hands, HandStep(h) PROVE Phases'
  <2>1. UNCHANGED deb822 /\ AtWork(h) /\ \A g \in Hands \ {h} : work'[g] = work[g]
    BY <1>3, HandKeeps
  <2>2. ASSUME NEW s \in Repos, "sources" \in source'[s] PROVE deb822
    <3>1. source \in [Repos -> SUBSET {"list", "sources", "commented"}]
      BY DEF AptFilesTypeOK
    <3>2. "sources" \in source[s] \/ deb822
      <4>1. CASE WriteConverted /\ h = "script"
        BY <4>1 DEF WriteConverted, Phases
      <4>2. CASE WriteSourceFile(h)
        BY <2>2, <3>1, <4>2 DEF WriteSourceFile
      <4>3. CASE ~(WriteConverted /\ h = "script") /\ ~WriteSourceFile(h)
        BY <1>3, <2>2, <3>1, <4>3
        DEF HandStep, Pin, Check, ReadAuth, WriteAuth, AuthDone, ExportKey, UpdateSource,
            DropSourceFile, DropList, DropKey, Unpin, KillHand, DropConverted
      <4> QED
        BY <4>1, <4>2, <4>3
    <3> QED
      BY <3>2 DEF Phases
  <2>3. work'[h].at = "write" => work'[h].todo # <<>>
    <3>1. CASE ReadAuth(h)
      BY <1>0, <3>1, HandMoves DEF ReadAuth
    <3>2. CASE WriteAuth(h) \/ Pin(h) \/ ExportKey(h) \/ WriteSourceFile(h) \/ UpdateSource(h)
               \/ DropKey(h)
      BY <1>0, <3>2, HandMoves, RestsSets DEF Raise
    <3>3. ASSUME \/ Check(h) \/ AuthDone(h) \/ DropSourceFile(h) \/ DropList(h) \/ Unpin(h)
                 \/ KillHand(h) \/ (h = "script" /\ (WriteConverted \/ DropConverted))
          PROVE  Rests(h) \/ \E at \in Places \ {"write"} : Goes(h, at)
      BY <3>3 DEF Check, AuthDone, DropSourceFile, DropList, Unpin, KillHand, WriteConverted,
                  DropConverted, Raise, Places
    <3> QED
      BY <1>0, <1>3, <3>1, <3>2, <3>3, GoesSets, RestsSets DEF HandStep
  <2>4. CASE h = "client"
    <3>1. work'["client"].at \notin {"convert", "converted"}
      <4>1. CASE Pin(h) \/ ExportKey(h) \/ WriteSourceFile(h) \/ UpdateSource(h) \/ DropKey(h)
                 \/ WriteAuth(h) \/ ReadAuth(h)
        BY <1>0, <2>4, <4>1, HandMoves, RestsSets DEF Raise
      <4>2. ASSUME \/ Check(h) \/ AuthDone(h) \/ DropSourceFile(h) \/ DropList(h) \/ Unpin(h)
                   \/ KillHand(h)
            PROVE  Rests(h) \/ \E at \in Places \ {"convert", "converted"} : Goes(h, at)
        BY <4>2 DEF Check, AuthDone, DropSourceFile, DropList, Unpin, KillHand, Raise, Places
      <4> QED
        BY <1>0, <1>3, <2>4, <4>1, <4>2, GoesSets, RestsSets DEF HandStep
    <3> QED
      BY <1>0, <2>1, <2>2, <2>3, <2>4, <3>1 DEF Phases, AtWork
  <2>5. CASE h = "script"
    <3>1. work["script"].at \in {"read", "write", "convert", "converted"} /\ work["script"].adding
      BY <2>1, <2>5 DEF Phases, AtWork
    <3>2. \/ Rests(h)
          \/ /\ work'["script"].adding
             /\ work'["script"].at \in {"read", "write", "convert", "converted"}
             /\ work'["script"].at \in {"convert", "converted"} => deb822
      <4>1. CASE WriteAuth(h) \/ ReadAuth(h)
        BY <1>0, <2>5, <3>1, <4>1, HandMoves
      <4>2. CASE AuthDone(h) \/ KillHand(h) \/ DropConverted
        BY <2>5, <4>2 DEF AuthDone, KillHand, Raise, DropConverted
      <4>3. CASE WriteConverted
        <5>1. deb822
          BY <4>3 DEF WriteConverted, Phases
        <5> QED
          BY <1>0, <3>1, <4>3, <5>1, GoesSets DEF WriteConverted, Places
      <4> QED
        BY <1>3, <2>5, <3>1, <4>1, <4>2, <4>3
        DEF HandStep, Pin, Check, ExportKey, WriteSourceFile, UpdateSource, DropSourceFile, DropList,
            DropKey, Unpin
    <3>3. Rests(h) => work'["script"].at = "rest"
      BY <1>0, <2>5, RestsSets
    <3> QED
      BY <1>0, <2>1, <2>2, <2>3, <2>5, <3>2, <3>3 DEF Phases, AtWork
  <2> QED
    BY <1>0, <2>4, <2>5
<1>4. CASE NewRelease
  <2>1. UNCHANGED work /\ deb822' = TRUE
    BY <1>4 DEF NewRelease
  <2> QED
    BY <2>1 DEF Phases, AtWork
<1> QED
  BY <1>1, <1>2, <1>3, <1>4, AptSteps

\* A hand that nothing disturbs gets on as it should.
LEMMA UnderwayStep ==
    ASSUME AptFilesTypeOK, FilesOrdered, Phases, NEW h \in Hands, HandStep(h),
           work[h].clean, Underway(h), work'[h].at # "rest"
    PROVE  Underway(h)'
<1> USE DEF Moved, Underway
<1> DEFINE r == work[h]
<1>0. /\ Works /\ Hands = {"client", "script"} /\ r \in WorkRecords
      /\ r.svc \in Repos /\ r.todo \in Seq(AllUrls) /\ r.read \in Seq(AllUrls) /\ r.adding \in BOOLEAN
      /\ source \in [Repos -> SUBSET {"list", "sources", "commented"}]
      /\ suites \in [Repos -> BOOLEAN]
  BY DEF AptFilesTypeOK, Works, Hands, WorkRecords
<1>1. UNCHANGED <<terms, deb822, updates>> /\ r.at # "rest"
  BY HandKeeps DEF AtWork
<1>2. /\ KnownUrls(r.svc) # <<>> /\ Head(KnownUrls(r.svc)) = Url[r.svc]
      /\ Known(r.svc) = Entries(KnownUrls(r.svc)) /\ Known(r.svc) \subseteq Entries(Urls(r.svc))
  BY <1>0, UrlFacts DEF Known
<1>3. CASE Pin(h)
  <2>1. Moved(h, "check", r.adding, r.todo, r.read) /\ r.at = "pin"
        /\ pins' = pins \cup ({r.svc} \cap Pinned) /\ UNCHANGED <<source, suites, keyring, auth>>
    BY <1>3, HandMoves DEF Pin
  <2>2. h = "client" /\ r.adding
    BY <1>0, <2>1 DEF Phases, Removing
  <2> QED
    BY <1>1, <2>1, <2>2 DEF Adding, Known, KnownUrls
<1>4. CASE Check(h)
  <2>1. Goes(h, "read") /\ r.at = "check" /\ UNCHANGED <<source, suites, keyring, auth, pins>>
    <3>1. ~Rests(h)
      BY <1>0, RestsSets
    <3> QED
      BY <1>4, <3>1 DEF Check, Raise
  <2>2. Moved(h, "read", r.adding, r.todo, r.read)
    BY <1>0, <2>1, GoesSets DEF Places
  <2>3. h = "client" /\ r.adding
    BY <1>0, <2>1 DEF Phases, Removing
  <2>4. r.todo # <<>> /\ Head(r.todo) = Url[r.svc]
    BY <1>2, <2>1, <2>3 DEF Adding
  <2> QED
    BY <1>1, <2>1, <2>2, <2>3, <2>4 DEF Adding, Known, KnownUrls
<1>5. CASE ReadAuth(h)
  <2>1. Moved(h, "write", r.adding, r.todo, auth) /\ r.at = "read"
        /\ UNCHANGED <<source, suites, keyring, auth, pins>>
    BY <1>5, HandMoves DEF ReadAuth
  <2> QED
    BY <1>1, <2>1 DEF Adding, Removing, Scripted, Known, KnownUrls
<1>6. CASE WriteAuth(h)
  <2>1. Moved(h, "read", r.adding, Tail(r.todo), r.read) /\ r.at = "write"
        /\ UNCHANGED <<source, suites, keyring, pins>>
        /\ auth' = IF r.adding THEN AddEntry(auth, Head(r.todo)) ELSE RemoveEntry(auth, Head(r.todo))
    BY <1>6, HandMoves DEF WriteAuth
  <2>2. /\ r.todo # <<>> /\ Head(r.todo) \in AllUrls
        /\ Entries(r.todo) = {Head(r.todo)} \cup Entries(Tail(r.todo))
    BY <1>0, <2>1, TailEntries DEF Phases
  <2>3. auth \in Seq(AllUrls) /\ Ordered(auth)
    BY DEF AptFilesTypeOK, FilesOrdered
  <2>4. Entries(auth') = IF r.adding THEN Entries(auth) \cup {Head(r.todo)}
                         ELSE Entries(auth) \ {Head(r.todo)}
    BY <2>1, <2>2, <2>3, EntryAdded, EntryRemoved
  <2> DEFINE rest == Tail(r.todo)
  <2> HIDE DEF rest
  <2>5. /\ work'[h].at = "read" /\ work'[h].svc = r.svc /\ work'[h].adding = r.adding
        /\ work'[h].todo = rest
    BY <2>1 DEF rest
  <2>6. Entries(rest) \subseteq Entries(r.todo)
    BY <2>2 DEF rest
  <2>7. CASE h = "script"
    BY <1>1, <2>1, <2>5, <2>6, <2>7 DEF Scripted
  <2>8. CASE h = "client" /\ r.adding
    <3>1. Url[r.svc] \in Entries(auth')
      BY <2>1, <2>4, <2>8 DEF Adding
    <3> QED
      BY <1>1, <2>1, <2>5, <2>6, <2>8, <3>1 DEF Adding, Known, KnownUrls
  <2>9. CASE h = "client" /\ ~r.adding
    <3>1. Known(r.svc) \cap Entries(auth') \subseteq Entries(rest)
      BY <2>1, <2>2, <2>4, <2>9 DEF Removing, rest
    <3> QED
      BY <1>1, <2>1, <2>5, <2>6, <2>9, <3>1 DEF Removing, Known, KnownUrls
  <2> QED
    BY <1>0, <2>7, <2>8, <2>9
<1>7. CASE AuthDone(h)
  <2>1. /\ h = "client" /\ r.at = "read" /\ r.todo = <<>> /\ Goes(h, IF r.adding THEN "key" ELSE "unpin")
        /\ UNCHANGED <<source, suites, keyring, auth, pins>>
    <3>1. ~Rests(h)
      BY <1>0, RestsSets
    <3> QED
      BY <1>0, <1>7, <3>1 DEF AuthDone
  <2>2. Moved(h, IF r.adding THEN "key" ELSE "unpin", r.adding, r.todo, r.read)
    BY <1>0, <2>1, GoesSets DEF Places
  <2>3. Entries(<<>>) = {}
    BY QuietFacts
  <2>4. CASE r.adding
    BY <1>1, <2>1, <2>2, <2>4 DEF Adding, Known, KnownUrls
  <2>5. CASE ~r.adding
    BY <1>1, <2>1, <2>2, <2>3, <2>5 DEF Removing, Known, KnownUrls
  <2> QED
    BY <2>4, <2>5
<1>8. CASE ExportKey(h)
  <2>1. /\ r.at = "key" /\ UNCHANGED <<source, suites, auth, pins>>
        /\ keyring' = keyring \cup (IF deb822 THEN {} ELSE {Key[r.svc]}) /\ Goes(h, "source")
    <3>1. ~Rests(h)
      BY <1>0, RestsSets
    <3> QED
      BY <1>8, <3>1 DEF ExportKey, Raise
  <2>2. Moved(h, "source", r.adding, r.todo, r.read)
    BY <1>0, <2>1, GoesSets DEF Places
  <2>3. h = "client" /\ r.adding
    BY <1>0, <2>1 DEF Phases, Removing
  <2> QED
    BY <1>1, <2>1, <2>2, <2>3 DEF Adding, Known, KnownUrls
<1>9. CASE WriteSourceFile(h)
  <2>1. /\ Moved(h, "update", r.adding, r.todo, r.read) /\ r.at = "source"
        /\ UNCHANGED <<keyring, auth, pins>>
        /\ source'[r.svc] # {} /\ suites'[r.svc] = (r.svc \in EsmRepos => updates)
    BY <1>0, <1>9, HandMoves DEF WriteSourceFile
  <2>2. h = "client" /\ r.adding
    BY <1>0, <2>1 DEF Phases, Removing
  <2> QED
    BY <1>1, <2>1, <2>2 DEF Adding, Known, KnownUrls
<1>10. CASE UpdateSource(h)
  <2>1. /\ Moved(h, "unsource", FALSE, KnownUrls(r.svc), r.read) /\ r.at = "update"
        /\ UNCHANGED <<source, suites, keyring, auth, pins>>
    <3>1. ~Rests(h)
      BY <1>0, RestsSets
    <3> QED
      BY <1>10, <3>1, HandMoves DEF UpdateSource
  <2>2. h = "client"
    BY <1>0, <2>1 DEF Phases
  <2> QED
    BY <1>1, <1>2, <2>1, <2>2 DEF Removing, Known, KnownUrls
<1>11. CASE DropSourceFile(h)
  <2>1. /\ r.at = "unsource" /\ Goes(h, IF deb822 THEN "unlist" ELSE "unkey")
        /\ source'[r.svc] = IF deb822 THEN source[r.svc] \ {"sources"}
                            ELSE source[r.svc] \ {"list", "commented"}
        /\ UNCHANGED <<suites, keyring, auth, pins>>
    BY <1>0, <1>11 DEF DropSourceFile
  <2>2. Moved(h, IF deb822 THEN "unlist" ELSE "unkey", r.adding, r.todo, r.read)
    BY <1>0, <2>1, GoesSets DEF Places
  <2>3. h = "client" /\ ~r.adding
    BY <1>0, <2>1 DEF Phases, Adding
  <2>4. IF deb822 THEN "sources" \notin source'[r.svc] ELSE source'[r.svc] = {}
    <3>1. source[r.svc] \subseteq {"list", "sources", "commented"} /\ ("sources" \in source[r.svc] => deb822)
      BY <1>0 DEF Phases
    <3> QED
      BY <2>1, <3>1
  <2> QED
    BY <1>1, <2>1, <2>2, <2>3, <2>4 DEF Removing, Known, KnownUrls
<1>12. CASE DropList(h)
  <2>1. /\ r.at = "unlist" /\ Goes(h, "unkey")
        /\ source'[r.svc] = source[r.svc] \ {"list", "commented"}
        /\ UNCHANGED <<suites, keyring, auth, pins>>
    BY <1>0, <1>12 DEF DropList
  <2>2. Moved(h, "unkey", r.adding, r.todo, r.read)
    BY <1>0, <2>1, GoesSets DEF Places
  <2>3. h = "client" /\ ~r.adding
    BY <1>0, <2>1 DEF Phases, Adding
  <2>4. source'[r.svc] = {}
    <3>1. source[r.svc] \subseteq {"list", "sources", "commented"} /\ "sources" \notin source[r.svc]
      BY <1>0, <2>1, <2>3 DEF Removing
    <3> QED
      BY <2>1, <3>1
  <2> QED
    BY <1>1, <2>1, <2>2, <2>3, <2>4 DEF Removing, Known, KnownUrls
<1>13. CASE DropKey(h)
  <2>1. Moved(h, "read", r.adding, r.todo, r.read) /\ r.at = "unkey"
        /\ UNCHANGED <<source, suites, auth, pins>>
    BY <1>13, HandMoves DEF DropKey
  <2>2. h = "client" /\ ~r.adding
    BY <1>0, <2>1 DEF Phases, Adding
  <2>3. r.todo = KnownUrls(r.svc)
    BY <2>1, <2>2 DEF Removing
  <2>4. Known(r.svc) \cap Entries(auth) \subseteq Entries(r.todo)
    BY <1>2, <2>3
  <2> QED
    BY <1>1, <2>1, <2>2, <2>4 DEF Removing, Known, KnownUrls
<1>14. CASE h = "script" /\ WriteConverted
  <2>1. Goes(h, "converted")
    BY <1>14 DEF WriteConverted
  <2>2. Moved(h, "converted", r.adding, r.todo, r.read)
    BY <1>0, <2>1, GoesSets DEF Places
  <2> QED
    BY <1>14, <2>2 DEF Scripted
<1>15. ASSUME Unpin(h) \/ KillHand(h) \/ (h = "script" /\ DropConverted) PROVE FALSE
  <2>1. Rests(h)
    BY <1>15 DEF Unpin, KillHand, Raise, DropConverted
  <2> QED
    BY <1>0, <2>1, RestsSets
<1> QED
  BY <1>3, <1>4, <1>5, <1>6, <1>7, <1>8, <1>9, <1>10, <1>11, <1>12, <1>13, <1>14, <1>15 DEF HandStep

LEMMA ProgressStep ==
    ASSUME AptFilesTypeOK, FilesOrdered, Turns, Phases, Progress, [AptNext]_aptVars
    PROVE  Progress'
<1>0. Works /\ Hands = {"client", "script"}
  BY DEF AptFilesTypeOK, Works, Hands
<1>1. CASE UNCHANGED aptVars
  BY <1>1 DEF aptVars, Progress, AtWork, Underway, Adding, Removing, Scripted, Known, KnownUrls
<1>2. ASSUME NEW h \in Hands, NEW s \in Repos, TakenUp(h, s) PROVE Progress'
  <2> DEFINE overlap == \E g \in Hands : work[g].at # "rest"
  <2>1. /\ work[h].at = "rest" /\ work'[h].svc = s /\ work'[h].clean = ~overlap
        /\ work'[h].at # "write"
        /\ \A g \in Hands \ {h} :
             work'[g].at = work[g].at /\ work'[g].clean = (work[g].clean /\ ~overlap)
        /\ UNCHANGED <<source, terms>>
        /\ IF h = "client"
           THEN /\ work'[h].todo = KnownUrls(s)
                /\ \/ work'[h].at = "pin" /\ work'[h].adding
                   \/ work'[h].at = "unsource" /\ ~work'[h].adding
           ELSE /\ work'[h].adding
                /\ \/ work'[h].at = "read" /\ work'[h].todo = Urls(s) /\ Live(s)
                   \/ work'[h].at = "convert" /\ work'[h].todo = <<>> /\ deb822 /\ "list" \in source[s]
                   \/ work'[h].at = "converted" /\ work'[h].todo = <<>> /\ deb822
    BY <1>0, <1>2, TakenUpSets
  <2>2. ASSUME NEW g \in Hands \ {h} PROVE ~(AtWork(g)' /\ work'[g].clean)
    BY <2>1 DEF AtWork
  <2>3. Known(s) = Entries(KnownUrls(s)) /\ KnownUrls(s)' = KnownUrls(s) /\ Known(s)' = Known(s)
        /\ Entries(<<>>) = {}
    BY <2>1, QuietFacts DEF Known, KnownUrls
  <2>4. Underway(h)'
    <3>1. CASE h = "client"
      <4>1. /\ work'[h].svc = s /\ work'[h].todo = KnownUrls(s)
            /\ (work'[h].at = "pin" /\ work'[h].adding) \/ (work'[h].at = "unsource" /\ ~work'[h].adding)
        BY <2>1, <3>1
      <4> QED
        BY <2>1, <2>3, <3>1, <4>1 DEF Underway, Adding, Removing, Known, KnownUrls
    <3>2. CASE h = "script"
      BY <2>1, <2>3, <3>2 DEF Underway, Scripted, Live
    <3> QED
      BY <1>0, <3>1, <3>2
  <2> QED
    BY <2>2, <2>4 DEF Progress
<1>3. ASSUME NEW h \in Hands, HandStep(h) PROVE Progress'
  <2>1. /\ AtWork(h) /\ \A g \in Hands \ {h} : work'[g] = work[g]
        /\ work'[h].at = "rest" \/ work'[h].clean = work[h].clean
    BY <1>3, HandKeeps, QuietFacts
  <2>2. ASSUME NEW g \in Hands \ {h} PROVE ~(AtWork(g)' /\ work'[g].clean)
    BY <2>1 DEF Turns, AtWork
  <2>3. work[h].clean /\ work'[h].at # "rest" => Underway(h)'
    BY <1>3, <2>1, UnderwayStep DEF Progress
  <2> QED
    BY <2>1, <2>2, <2>3 DEF Progress, AtWork
<1>4. CASE NewRelease
  BY <1>4 DEF NewRelease, Progress, AtWork
<1> QED
  BY <1>1, <1>2, <1>3, <1>4, AptSteps

\* The entries of another service stay as they are.
LEMMA OthersEntries ==
    ASSUME AptFilesTypeOK, FilesOrdered, Phases, NEW h \in Hands, HandStep(h),
           work[h].clean, Underway(h), NEW s \in Repos, s # work[h].svc
    PROVE  Have(s)' = Have(s) /\ (Url[s] \in Entries(auth)' <=> Url[s] \in Entries(auth))
<1> DEFINE r == work[h]
<1>1. CASE WriteAuth(h)
  <2>1. /\ r.at = "write" /\ r.read = auth
        /\ auth' = IF r.adding THEN AddEntry(auth, Head(r.todo)) ELSE RemoveEntry(auth, Head(r.todo))
    BY <1>1 DEF WriteAuth, Underway
  <2>2. r.todo \in Seq(AllUrls) /\ r.svc \in Repos /\ r.todo # <<>>
    BY <2>1 DEF AptFilesTypeOK, WorkRecords, Phases
  <2>3. Head(r.todo) \in AllUrls /\ Head(r.todo) \in Entries(r.todo)
    BY <2>2, TailEntries
  <2>4. Entries(r.todo) \subseteq Entries(Urls(r.svc))
    BY <2>2, UrlFacts DEF Underway
  <2>5. Head(r.todo) \notin Entries(Urls(s)) /\ Url[s] \in Entries(Urls(s))
    BY <2>2, <2>3, <2>4, UrlFacts, UrlsAssumption
  <2>6. auth \in Seq(AllUrls) /\ Ordered(auth)
    BY DEF AptFilesTypeOK, FilesOrdered
  <2>7. Entries(auth)' = IF r.adding THEN Entries(auth) \cup {Head(r.todo)}
                         ELSE Entries(auth) \ {Head(r.todo)}
    <3>1. Entries(auth)' = Entries(auth')
      BY DEF Entries
    <3> QED
      BY <2>1, <2>3, <2>6, <3>1, EntryAdded, EntryRemoved
  <2> QED
    BY <2>5, <2>7 DEF Have
<1>2. CASE ~WriteAuth(h)
  <2>1. UNCHANGED auth
    BY <1>2 DEF HandStep, Pin, Check, ReadAuth, AuthDone, ExportKey, WriteSourceFile, UpdateSource,
                DropSourceFile, DropList, DropKey, Unpin, KillHand, WriteConverted, DropConverted
  <2> QED
    BY <2>1 DEF Have, Entries
<1> QED
  BY <1>1, <1>2

\* So do their sources, pins and suites, and the keys of those that are live and not in doubt.
LEMMA OthersFiles ==
    ASSUME AptFilesTypeOK, FilesOrdered, Phases, NEW h \in Hands, HandStep(h),
           NEW s \in Repos, s # work[h].svc
    PROVE  /\ source'[s] = source[s] /\ suites'[s] = suites[s] /\ (s \in pins' <=> s \in pins)
           /\ s \notin shaken' /\ Live(s) /\ Key[s] \in keyring => Key[s] \in keyring'
           /\ s \notin shaken' => s \notin shaken
           /\ s \notin litter' => s \notin litter
<1>1. /\ source \in [Repos -> SUBSET {"list", "sources", "commented"}] /\ suites \in [Repos -> BOOLEAN]
      /\ work[h].svc \in Repos
  BY DEF AptFilesTypeOK, WorkRecords
<1>2. source'[s] = source[s] /\ suites'[s] = suites[s]
  BY <1>1 DEF HandStep, Pin, Check, ReadAuth, WriteAuth, AuthDone, ExportKey, WriteSourceFile,
         UpdateSource, DropSourceFile, DropList, DropKey, Unpin, KillHand, WriteConverted, DropConverted
<1>3. s \in pins' <=> s \in pins
  BY DEF HandStep, Pin, Check, ReadAuth, WriteAuth, AuthDone, ExportKey, WriteSourceFile,
         UpdateSource, DropSourceFile, DropList, DropKey, Unpin, KillHand, WriteConverted, DropConverted
<1>4. s \notin shaken' /\ Live(s) /\ Key[s] \in keyring => Key[s] \in keyring'
  BY DEF HandStep, Pin, Check, ReadAuth, WriteAuth, AuthDone, ExportKey, WriteSourceFile,
         UpdateSource, DropSourceFile, DropList, DropKey, Unpin, KillHand, WriteConverted, DropConverted
<1>5. (s \notin shaken' => s \notin shaken) /\ (s \notin litter' => s \notin litter)
  BY DEF HandStep, Pin, Check, ReadAuth, WriteAuth, AuthDone, ExportKey, WriteSourceFile,
         UpdateSource, DropSourceFile, DropList, DropKey, Unpin, KillHand, WriteConverted, DropConverted,
         Raise
<1> QED
  BY <1>2, <1>3, <1>4, <1>5

LEMMA BackedStep ==
    ASSUME AptInv, [AptNext]_aptVars
    PROVE  Backed'
<1> USE DEF AptInv, Moved
<1>0. Works /\ Hands = {"client", "script"}
      /\ source \in [Repos -> SUBSET {"list", "sources", "commented"}] /\ suites \in [Repos -> BOOLEAN]
  BY DEF AptFilesTypeOK, Works, Hands
<1>1. CASE UNCHANGED aptVars
  BY <1>1 DEF aptVars, Backed, Sourced, Live, Entries
<1>2. ASSUME NEW h \in Hands, NEW t \in Repos, TakenUp(h, t) PROVE Backed'
  <2>1. /\ UNCHANGED <<source, suites, keyring, auth, pins, deb822, updates>>
        /\ shaken' = Repos \/ shaken' = shaken
    BY <1>0, <1>2, TakenUpSets
  <2> QED
    BY <2>1 DEF Backed, Sourced, Live, Entries
<1>3. ASSUME NEW h \in Hands, HandStep(h), NEW s \in Repos \ shaken' PROVE Sourced(s)'
  <2> DEFINE r == work[h]
  <2>1. /\ AtWork(h) /\ UNCHANGED <<updates, deb822>>
        /\ ~r.clean => shaken \subseteq shaken'
    BY <1>3, HandKeeps
  <2>2. r.clean
    BY <1>3, <2>1 DEF Turns
  <2>3. Underway(h) /\ r.svc \in Repos /\ r.at # "rest"
    BY <1>0, <2>1, <2>2 DEF Progress, AtWork, Works, WorkRecords
  <2>4. CASE s # r.svc
    <3>1. /\ source'[s] = source[s] /\ suites'[s] = suites[s] /\ (s \in pins' <=> s \in pins)
          /\ Live(s) /\ Key[s] \in keyring => Key[s] \in keyring'
          /\ s \notin shaken
      BY <1>3, <2>4, OthersFiles
    <3>2. Url[s] \in Entries(auth)' <=> Url[s] \in Entries(auth)
      BY <1>3, <2>2, <2>3, <2>4, OthersEntries
    <3>3. Sourced(s) /\ (Live(s)' <=> Live(s))
      BY <1>3, <3>1 DEF Backed, Live
    <3> QED
      BY <2>1, <3>1, <3>2, <3>3 DEF Sourced
  <2>5. CASE s = r.svc
    <3>1. CASE WriteAuth(h)
      <4>1. r.at = "write" /\ r.read = auth /\ UNCHANGED <<source, suites, keyring, pins, shaken>>
            /\ auth' = IF r.adding THEN AddEntry(auth, Head(r.todo)) ELSE RemoveEntry(auth, Head(r.todo))
        BY <2>3, <3>1 DEF WriteAuth, Underway
      <4>2. Sourced(s)
        BY <1>3, <4>1 DEF Backed
      <4>3. CASE h = "client" /\ ~r.adding
        BY <2>3, <2>5, <4>1, <4>3 DEF Underway, Removing, Sourced, Live
      <4>4. CASE r.adding
        <5>1. r.todo \in Seq(AllUrls) /\ r.todo # <<>> /\ auth \in Seq(AllUrls) /\ Ordered(auth)
          BY <4>1 DEF AptFilesTypeOK, WorkRecords, Phases, FilesOrdered
        <5>2. Entries(auth') = Entries(auth) \cup {Head(r.todo)}
          BY <4>1, <4>4, <5>1, TailEntries, EntryAdded
        <5>3. Entries(auth)' = Entries(auth')
          BY DEF Entries
        <5> QED
          BY <2>1, <4>1, <4>2, <5>2, <5>3 DEF Sourced, Live
      <4>5. h = "client" \/ r.adding
        BY <1>0, <2>1 DEF Phases
      <4> QED
        BY <4>3, <4>4, <4>5
    <3>2. CASE WriteSourceFile(h)
      <4>1. /\ r.at = "source" /\ UNCHANGED <<keyring, auth, pins>>
            /\ suites'[s] = (s \in EsmRepos => updates)
        BY <1>0, <2>5, <3>2 DEF WriteSourceFile
      <4>2. Adding(s, r)
        BY <1>0, <2>3, <2>5, <4>1 DEF Phases, Underway, Removing
      <4> QED
        BY <2>1, <4>1, <4>2 DEF Adding, Sourced, Live, Entries
    <3>3. CASE UpdateSource(h)
      <4>1. r.at = "update" /\ UNCHANGED <<source, suites, keyring, auth, pins>>
        BY <3>3 DEF UpdateSource
      <4>2. Adding(s, r)
        BY <1>0, <2>3, <2>5, <4>1 DEF Phases, Underway, Removing
      <4> QED
        BY <2>1, <4>1, <4>2 DEF Adding, Sourced, Live, Entries
    <3>4. CASE Unpin(h) \/ DropKey(h)
      <4>1. r.at \in {"unpin", "unkey"} /\ UNCHANGED source
        BY <3>4 DEF Unpin, DropKey
      <4>2. source[s] = {}
        BY <1>0, <2>3, <2>5, <4>1 DEF Phases, Underway, Removing, Adding
      <4> QED
        BY <4>1, <4>2 DEF Sourced, Live
    <3>5. CASE h = "script" /\ WriteConverted
      <4>1. /\ r.at = "convert" /\ UNCHANGED <<suites, keyring, auth, pins, shaken>>
            /\ source'[s] = source[s] \cup {"sources"} /\ deb822
        BY <1>0, <2>5, <3>5 DEF WriteConverted, Phases
      <4>2. "list" \in source[s]
        BY <2>3, <2>5, <3>5, <4>1 DEF Underway, Scripted
      <4>3. Sourced(s) /\ Live(s)
        BY <1>3, <4>1, <4>2 DEF Backed, Live
      <4> QED
        BY <2>1, <4>1, <4>3 DEF Sourced, Entries
    <3>6. ASSUME \/ Pin(h) \/ Check(h) \/ ReadAuth(h) \/ AuthDone(h) \/ ExportKey(h)
                 \/ DropSourceFile(h) \/ DropList(h) \/ KillHand(h)
                 \/ (h = "script" /\ DropConverted)
          PROVE  Sourced(s)'
      <4>1. /\ UNCHANGED <<suites, auth, shaken>> /\ pins \subseteq pins' /\ keyring \subseteq keyring'
            /\ source'[s] \subseteq source[s]
        BY <1>0, <2>5, <3>6
        DEF Pin, Check, ReadAuth, AuthDone, ExportKey, DropSourceFile, DropList, KillHand, DropConverted
      <4>2. Sourced(s) /\ (Live(s)' => Live(s))
        BY <1>3, <4>1 DEF Backed, Live
      <4> QED
        BY <2>1, <4>1, <4>2 DEF Sourced, Entries
    <3> QED
      BY <1>3, <3>1, <3>2, <3>3, <3>4, <3>5, <3>6 DEF HandStep
  <2> QED
    BY <2>4, <2>5
<1>4. CASE NewRelease
  <2>1. /\ UNCHANGED <<suites, keyring, auth, pins, updates, shaken>> /\ deb822' = TRUE
        /\ source' = source \/ source' = [s \in Repos |-> IF source[s] = {} THEN {} ELSE {"commented"}]
    BY <1>4 DEF NewRelease
  <2>2. ASSUME NEW s \in Repos PROVE Live(s)' => Live(s)
    BY <2>1 DEF Live
  <2> QED
    BY <2>1, <2>2 DEF Backed, Sourced, Entries
<1> QED
  BY <1>1, <1>2, <1>3, <1>4, AptSteps DEF Backed

LEMMA ClearedStep ==
    ASSUME AptInv, [AptNext]_aptVars
    PROVE  Cleared'
<1> USE DEF AptInv
<1>0. Works /\ Hands = {"client", "script"} /\ UNCHANGED terms
      /\ source \in [Repos -> SUBSET {"list", "sources", "commented"}]
  <2>1. UNCHANGED terms
    BY AptSteps, TakenUpSets, HandKeeps DEF aptVars, NewRelease, AptFilesTypeOK, Works
  <2> QED
    BY <2>1 DEF AptFilesTypeOK, Works, Hands
<1>k. \A s \in Repos : Known(s)' = Known(s)
  BY <1>0 DEF Known, KnownUrls
<1>1. CASE UNCHANGED aptVars
  BY <1>k, <1>1 DEF aptVars, Cleared, Left, Have, Entries, AtWork
<1>2. ASSUME NEW h \in Hands, NEW t \in Repos, TakenUp(h, t) PROVE Cleared'
  <2> DEFINE overlap == \E g \in Hands : work[g].at # "rest"
  <2>1. /\ UNCHANGED <<source, auth>>
        /\ litter' = IF overlap THEN Repos ELSE litter
    BY <1>0, <1>2, TakenUpSets
  <2>2. \A s \in Repos : Have(s)' = Have(s)
    BY <2>1 DEF Have, Entries
  <2>3. CASE overlap
    BY <2>1, <2>3 DEF Cleared
  <2>4. CASE ~overlap
    BY <1>k, <2>1, <2>2, <2>4 DEF Cleared, Left, AtWork
  <2> QED
    BY <2>3, <2>4
<1>3. ASSUME NEW h \in Hands, HandStep(h), NEW s \in Repos \ litter' PROVE Left(s)'
  <2> DEFINE r == work[h]
  <2>1. /\ AtWork(h) /\ \A g \in Hands \ {h} : work'[g] = work[g]
        /\ work'[h] = Quiet \/ (work'[h].svc = r.svc /\ work'[h].at # "rest")
        /\ ~r.clean => litter \subseteq litter'
    BY <1>3, HandKeeps
  <2>2. r.clean
    BY <1>3, <2>1 DEF Turns
  <2>3. /\ Underway(h) /\ r.svc \in Repos /\ r.at # "rest" /\ r.todo \in Seq(AllUrls)
        /\ \A g \in Hands \ {h} : ~AtWork(g)
    BY <1>0, <2>1, <2>2 DEF Progress, AtWork, Works, WorkRecords, Turns
  <2>4. CASE s # r.svc
    <3>1. source'[s] = source[s] /\ s \notin litter
      BY <1>3, <2>4, OthersFiles
    <3>2. Have(s)' = Have(s)
      BY <1>3, <2>2, <2>3, <2>4, OthersEntries
    <3>3. Left(s) /\ \A g \in Hands : AtWork(g) => work[g].svc # s
      BY <1>3, <2>3, <2>4, <3>1 DEF Cleared
    <3> QED
      BY <1>k, <3>1, <3>2, <3>3 DEF Left
  <2>5. CASE s = r.svc
    <3>1. Have(s)' \subseteq Known(s)
      <4>1. CASE WriteAuth(h)
        <5>0. /\ r.at = "write"
              /\ litter' = IF h = "script" /\ ~terms.snapshots THEN litter \cup {r.svc} ELSE litter
              /\ auth' = IF r.adding THEN AddEntry(r.read, Head(r.todo)) ELSE RemoveEntry(r.read, Head(r.todo))
          BY <4>1 DEF WriteAuth
        <5>1. /\ r.at = "write" /\ (h = "script" => terms.snapshots) /\ litter \subseteq litter'
              /\ auth' = IF r.adding THEN AddEntry(auth, Head(r.todo)) ELSE RemoveEntry(auth, Head(r.todo))
          BY <1>3, <2>3, <2>5, <5>0 DEF Underway
        <5>2. r.todo # <<>> /\ auth \in Seq(AllUrls) /\ Ordered(auth)
          BY <5>1 DEF Phases, AptFilesTypeOK, FilesOrdered
        <5>3. Head(r.todo) \in AllUrls /\ Head(r.todo) \in Entries(r.todo)
          BY <2>3, <5>2, TailEntries
        <5>4. Entries(auth') \subseteq Entries(auth) \cup {Head(r.todo)}
          <6>1. CASE r.adding
            <7>1. Entries(AddEntry(auth, Head(r.todo))) = Entries(auth) \cup {Head(r.todo)}
              BY <5>2, <5>3, EntryAdded
            <7> QED
              BY <5>1, <6>1, <7>1
          <6>2. CASE ~r.adding
            <7>1. Entries(RemoveEntry(auth, Head(r.todo))) = Entries(auth) \ {Head(r.todo)}
              BY <5>2, <5>3, EntryRemoved
            <7> QED
              BY <5>1, <6>2, <7>1
          <6> QED
            BY <6>1, <6>2
        <5>5. Head(r.todo) \in Known(s)
          <6>1. Entries(r.todo) \subseteq IF h = "client" THEN Known(s) ELSE Entries(Urls(s))
            BY <2>3, <2>5 DEF Underway
          <6>2. h = "script" => Known(s) = Entries(Urls(s))
            BY <1>3, <5>1, UrlFacts
          <6> QED
            BY <1>0, <5>3, <6>1, <6>2
        <5>6. Have(s) \subseteq Known(s)
          BY <1>3, <5>1 DEF Cleared, Left
        <5>7. Entries(auth)' = Entries(auth')
          BY DEF Entries
        <5> QED
          BY <5>4, <5>5, <5>6, <5>7 DEF Have
      <4>2. CASE ~WriteAuth(h)
        <5>1. UNCHANGED auth
          BY <1>3, <4>2 DEF HandStep, Pin, Check, ReadAuth, AuthDone, ExportKey, WriteSourceFile,
             UpdateSource, DropSourceFile, DropList, DropKey, Unpin, KillHand, WriteConverted,
             DropConverted
        <5>2. s \notin litter \/ terms.snapshots
          BY <1>3, <4>2 DEF HandStep, Pin, Check, ReadAuth, AuthDone, ExportKey, WriteSourceFile,
             UpdateSource, DropSourceFile, DropList, DropKey, Unpin, KillHand, WriteConverted,
             DropConverted, Raise
        <5>3. Have(s)' = Have(s)
          BY <5>1 DEF Have, Entries
        <5> QED
          BY <1>3, <5>2, <5>3, UrlFacts DEF Cleared, Left, Have
      <4> QED
        BY <4>1, <4>2
    <3>2. ASSUME source'[s] = {}, work'[h] = Quiet PROVE Have(s)' = {}
      <4>1. Rests(h) \/ ~Rests(h)
        OBVIOUS
      <4>2. ~Check(h) /\ ~ExportKey(h) /\ ~KillHand(h)
        <5>1. Raise(h) => s \in litter'
          BY <2>5 DEF Raise
        <5>2. ASSUME NEW at \in Places \ {"rest"}, Goes(h, at) PROVE FALSE
          BY <1>0, <3>2, <5>2, GoesSets, QuietFacts DEF Moved
        <5>3. "read" \in Places \ {"rest"} /\ "source" \in Places \ {"rest"}
          BY DEF Places
        <5> QED
          BY <1>3, <5>1, <5>2, <5>3 DEF Check, ExportKey, KillHand
      <4>3. ~Pin(h) /\ ~ReadAuth(h) /\ ~WriteAuth(h) /\ ~WriteSourceFile(h) /\ ~DropKey(h)
        BY <3>2, HandMoves, QuietFacts DEF Moved
      <4>4. ~DropSourceFile(h) /\ ~DropList(h) /\ ~(h = "script" /\ WriteConverted)
        <5>1. ASSUME NEW at \in Places \ {"rest"}, Goes(h, at) PROVE FALSE
          BY <1>0, <3>2, <5>1, GoesSets, QuietFacts DEF Moved
        <5>2. "unlist" \in Places \ {"rest"} /\ "unkey" \in Places \ {"rest"}
              /\ "converted" \in Places \ {"rest"}
          BY DEF Places
        <5> QED
          BY <5>1, <5>2 DEF DropSourceFile, DropList, WriteConverted
      <4>5. ~AuthDone(h)
        <5>1. SUFFICES ASSUME AuthDone(h) PROVE FALSE
          OBVIOUS
        <5>2. CASE h = "client"
          <6>1. ASSUME NEW at \in Places \ {"rest"}, Goes(h, at) PROVE FALSE
            BY <1>0, <3>2, <6>1, GoesSets, QuietFacts DEF Moved
          <6>2. "key" \in Places \ {"rest"} /\ "unpin" \in Places \ {"rest"}
            BY DEF Places
          <6> QED
            BY <5>1, <5>2, <6>1, <6>2 DEF AuthDone
        <5>3. CASE h = "script"
          BY <2>3, <2>5, <3>2, <5>1, <5>3 DEF AuthDone, Underway, Scripted
        <5> QED
          BY <1>0, <5>2, <5>3
      <4>6. ~UpdateSource(h)
        <5>1. SUFFICES ASSUME UpdateSource(h) PROVE FALSE
          OBVIOUS
        <5>2. r.at = "update" /\ UNCHANGED source
          BY <5>1 DEF UpdateSource
        <5>3. source[s] # {}
          BY <1>0, <2>3, <2>5, <5>2 DEF Phases, Underway, Adding, Removing
        <5> QED
          BY <3>2, <5>2, <5>3
      <4>7. ~(h = "script" /\ DropConverted)
        <5>1. SUFFICES ASSUME h = "script", DropConverted PROVE FALSE
          OBVIOUS
        <5>2. "sources" \in source[s] /\ source'[s] = source[s] \ {"list", "commented"}
          BY <1>0, <1>3, <2>5, <5>1 DEF DropConverted
        <5> QED
          BY <3>2, <5>2
      <4>8. CASE Unpin(h)
        <5>1. r.at = "unpin" /\ UNCHANGED auth
          BY <4>8 DEF Unpin
        <5>2. Known(s) \cap Entries(auth) = {}
          BY <1>0, <2>3, <2>5, <5>1 DEF Phases, Underway, Adding, Removing
        <5>3. Have(s)' = Have(s) /\ Have(s) \subseteq Entries(auth)
          BY <5>1 DEF Have, Entries
        <5> QED
          BY <3>1, <5>2, <5>3
      <4> QED
        BY <1>3, <4>2, <4>3, <4>4, <4>5, <4>6, <4>7, <4>8 DEF HandStep
    <3> QED
      BY <1>k, <2>1, <2>5, <3>1, <3>2 DEF Left, AtWork
  <2> QED
    BY <2>4, <2>5
<1>4. CASE NewRelease
  <2>1. /\ UNCHANGED <<auth, work, litter>> /\ \A h \in Hands : work[h].at = "rest"
        /\ source' = source \/ source' = [s \in Repos |-> IF source[s] = {} THEN {} ELSE {"commented"}]
    BY <1>4 DEF NewRelease
  <2>2. ASSUME NEW s \in Repos PROVE source'[s] = {} => source[s] = {}
    BY <2>1
  <2> QED
    BY <1>k, <2>1, <2>2 DEF Cleared, Left, Have, Entries, AtWork
<1> QED
  BY <1>1, <1>2, <1>3, <1>4, AptSteps DEF Cleared

LEMMA AptInvInit == AptInit => AptInv
<1> SUFFICES ASSUME AptInit PROVE AptInv
  OBVIOUS
<1>0. <<>> \in Seq(AllUrls) /\ Ordered(<<>>) /\ Entries(<<>>) = {} /\ MaxTrouble \in Nat
      /\ Quiet \in WorkRecords /\ Quiet.at = "rest" /\ Quiet.read = <<>>
  BY QuietFacts, AptFilesAssumption
<1>1. AptFilesTypeOK
  BY <1>0 DEF AptInit, AptFilesTypeOK
<1>2. \A h \in Hands : work[h] = Quiet
  BY DEF AptInit
<1>3. "client" \in Hands /\ "script" \in Hands
  BY DEF Hands
<1>4. FilesOrdered
  BY <1>0, <1>2 DEF AptInit, FilesOrdered
<1>5. Turns /\ Progress
  BY <1>0, <1>2 DEF Turns, Progress, AtWork
<1>6. Phases
  BY <1>0, <1>2, <1>3 DEF AptInit, Phases, AtWork
<1>7. Backed
  BY DEF AptInit, Backed, Sourced, Live
<1>8. Cleared
  BY <1>0 DEF AptInit, Cleared, Left, Have
<1> QED
  BY <1>1, <1>4, <1>5, <1>6, <1>7, <1>8 DEF AptInv

LEMMA AptInvStep == ASSUME AptInv, [AptNext]_aptVars PROVE AptInv'
BY AptTypeStep, FilesOrderedStep, TurnsStep, PhasesStep, ProgressStep, BackedStep, ClearedStep
DEF AptInv

\* The files of apt keep their types, whoever writes and whatever is killed.
THEOREM AptTypeCorrect == AptSpec => []AptFilesTypeOK
<1>1. AptInv => AptFilesTypeOK
  BY DEF AptInv
<1> QED
  BY <1>1, AptInvInit, AptInvStep, PTL DEF AptSpec

\* For all services and URLs: no entry of apt's auth file hides a more specific one or is there
\* twice; a source on disk has its credentials, pin and key, and a service that was disabled has
\* left no credentials, unless another hand disturbed it. (apt.py, repo.py, the package's scripts)
THEOREM AptFilesAreSound == AptSpec => []AptFilesSound
<1>1. ASSUME AptInv PROVE AptFilesSound
  <2>1. \A i, j \in DOMAIN auth : i < j => auth[i] # auth[j] /\ <<auth[i], auth[j]>> \notin Within
    BY <1>1 DEF AptInv, FilesOrdered, Ordered
  <2>2. ASSUME NEW s \in Repos \ shaken PROVE Sourced(s)
    BY <1>1, <2>2 DEF AptInv, Backed
  <2>3. ASSUME NEW s \in Repos \ litter, source[s] = {}, \A h \in Hands : work[h].at = "rest"
        PROVE  Entries(Urls(s)) \cap Entries(auth) = {}
    BY <1>1, <2>3 DEF AptInv, Cleared, Left, AtWork, Have
  <2> QED
    BY <2>1, <2>2, <2>3 DEF AptFilesSound, Sourced
<1> QED
  BY <1>1, AptInvInit, AptInvStep, PTL DEF AptSpec

===============================================================================
