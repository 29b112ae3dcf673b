------------------------------- MODULE AptNews -------------------------------
(***************************************************************************)
(* APT news: what apt-news.service, started by every apt update, and the   *)
(* commands write for "apt upgrade" to show and for the API to return, one *)
(* file each.  News about the contract come before those fetched.          *)
(***************************************************************************)
EXTENDS Integers, Sequences

CONSTANTS Feeds,     \* the lists of messages the server may have
          LastTick,  \* bound: the clock, in ticks of half a day
          Month,     \* the longest a message is shown, in ticks
          MaxHitches \* bound on overlaps, kills and failed updates

ASSUME AptNewsAssumption == {LastTick, Month, MaxHitches} \subseteq Nat

VARIABLES tick,     \* the clock
          stamp,    \* when apt last updated its lists, or Never
          updating, \* apt update is at work
          feed,     \* the messages on the server
          contractStage, \* is_attached: how the contract stands
          newsOn,   \* apt_news in the configuration
          display,  \* messages/apt-news: what apt upgrade shows
          raw,      \* messages/apt-news-raw: what the API returns
          writers,  \* the service and a command
          fetched,  \* history: when the service last fetched the messages
          tooSoon,  \* history: it did so twice within a day
          hushed,   \* history: the news were switched off since they were written
          hitches   \* history: overlaps, kills and failed updates so far

newsVars == <<tick, stamp, updating, feed, contractStage, newsOn, display, raw, writers, fetched,
              tooSoon, hushed, hitches>>

Never == -3
DayLength == 2
Nothing == "none"
LocalNews == {"soon", "grace", "expired"}
MessagesOf(f) == {f[i] : i \in DOMAIN f}
AllNews == {Nothing} \cup LocalNews \cup {m.text : m \in UNION {MessagesOf(f) : f \in Feeds}}
Off == [at |-> "off", news |-> Nothing]
Writers == {"service", "command"}

NewsTypeOK ==
    /\ tick \in 0..LastTick /\ stamp \in {Never} \cup 0..LastTick
    /\ updating \in BOOLEAN /\ feed \in Feeds /\ contractStage \in {"active"} \cup LocalNews
    /\ {display, raw} \subseteq AllNews
    /\ \A w \in Writers : writers[w].at \in {"off", "asked", "local", "fetch", "raw", "display",
                                             "undisplay", "unraw", "storeOff"}
                          /\ writers[w].news \in AllNews
    /\ fetched \in {Never} \cup 0..LastTick /\ hitches \in 0..MaxHitches
    /\ {newsOn, tooSoon, hushed} \subseteq BOOLEAN

-----------------------------------------------------------------------------

\* do_dates_apply: from its begin to its end, or for a month.
Current(m) == m.begin <= tick /\ tick <= (IF m.end < m.begin + Month THEN m.end ELSE m.begin + Month)

\* select_message: the first that is well formed, current, and for this machine.
Suitable(m) == m.valid /\ Current(m) /\ m.fits
Select(f) ==
    LET ok == {i \in DOMAIN f : Suitable(f[i])} IN
    IF ok = {} THEN Nothing ELSE f[CHOOSE i \in ok : \A j \in ok : i <= j].text

AtOf(w, at) == writers' = [writers EXCEPT ![w] = IF at = "off" THEN Off ELSE [@ EXCEPT !.at = at]]
Has(w, at, news) == writers' = [writers EXCEPT ![w] = [at |-> at, news |-> news]]
Alone(w) == \A v \in Writers \ {w} : writers[v].at = "off"

NewsInit ==
    /\ tick = 0 /\ stamp \in {Never, 0} /\ updating = FALSE /\ feed \in Feeds
    /\ contractStage = "active" /\ newsOn = TRUE /\ display = Nothing /\ raw = Nothing
    /\ writers = [w \in Writers |-> Off]
    /\ fetched = Never /\ tooSoon = FALSE /\ hushed = FALSE /\ hitches = 0

\* apt update starts the service, unless it is still at work.
StartUpdate ==
    /\ ~updating /\ updating' = TRUE
    /\ IF writers["service"].at = "off" THEN AtOf("service", "asked") ELSE UNCHANGED writers
    /\ UNCHANGED <<tick, stamp, feed, contractStage, newsOn, display, raw, fetched, tooSoon, hushed, hitches>>

\* Only an update that succeeds is stamped.
EndUpdate ==
    /\ updating /\ updating' = FALSE
    /\ \/ stamp' = tick /\ UNCHANGED hitches
       \/ hitches < MaxHitches /\ hitches' = hitches + 1 /\ UNCHANGED stamp
    /\ UNCHANGED <<tick, feed, contractStage, newsOn, display, raw, writers, fetched, tooSoon, hushed>>

\* Mutant of ServiceDecides: the day is not looked at.
ServiceDecidesAlways ==
    /\ writers["service"].at = "asked"
    /\ AtOf("service", IF newsOn THEN "local" ELSE "off")
    /\ hitches' = IF Alone("service") \/ ~newsOn THEN hitches ELSE hitches + 1
    /\ hitches' <= MaxHitches
    /\ UNCHANGED <<tick, stamp, updating, feed, contractStage, newsOn, display, raw, fetched, tooSoon, hushed>>

\* lib/apt_news.py: nothing if apt updated within a day.
ServiceDecides ==
    LET goes == newsOn /\ stamp <= tick - DayLength IN
    /\ writers["service"].at = "asked"
    /\ AtOf("service", IF goes THEN "local" ELSE "off")
    /\ hitches' = IF Alone("service") \/ ~goes THEN hitches ELSE hitches + 1
    /\ hitches' <= MaxHitches
    /\ UNCHANGED <<tick, stamp, updating, feed, contractStage, newsOn, display, raw, fetched, tooSoon, hushed>>

\* pro refresh messages; pro config set apt_news=true, which stores the setting afterwards.
CommandWrites ==
    /\ writers["command"].at = "off"
    /\ AtOf("command", "local")
    /\ hitches' = IF Alone("command") THEN hitches ELSE hitches + 1
    /\ hitches' <= MaxHitches
    /\ UNCHANGED <<tick, stamp, updating, feed, contractStage, newsOn, display, raw, fetched, tooSoon, hushed>>

\* The last step of set apt_news=true; the whole of unset apt_news, for the default is on.
SwitchOn ==
    /\ ~newsOn /\ newsOn' = TRUE
    /\ UNCHANGED <<tick, stamp, updating, feed, contractStage, display, raw, writers, fetched, tooSoon,
                   hushed, hitches>>

\* pro config set apt_news=false: only what apt shows is deleted, and then the setting stored.
Silence ==
    /\ writers["command"].at = "off" /\ AtOf("command", "storeOff")
    /\ display' = Nothing /\ hushed' = TRUE
    /\ hitches' = IF \A w \in Writers : writers[w].at \in {"off", "asked"} THEN hitches ELSE hitches + 1
    /\ hitches' <= MaxHitches
    /\ UNCHANGED <<tick, stamp, updating, feed, contractStage, newsOn, raw, fetched, tooSoon>>

SwitchOff ==
    /\ writers["command"].at = "storeOff" /\ writers' = [writers EXCEPT !["command"] = Off]
    /\ newsOn' = FALSE
    /\ UNCHANGED <<tick, stamp, updating, feed, contractStage, display, raw, fetched, tooSoon, hushed, hitches>>

\* local_apt_news: the contract's state comes first.
LookLocally(w) ==
    /\ writers[w].at = "local"
    /\ IF contractStage \in LocalNews THEN Has(w, "raw", contractStage) ELSE AtOf(w, "fetch")
    /\ UNCHANGED <<tick, stamp, updating, feed, contractStage, newsOn, display, raw, fetched, tooSoon, hushed, hitches>>

\* fetch_and_process_apt_news; whatever goes wrong, here or later, both files are deleted.
FetchNews(w) ==
    /\ writers[w].at = "fetch"
    /\ \E news \in {Select(feed), Nothing} :
        Has(w, IF news = Nothing THEN "undisplay" ELSE "raw", news)
    /\ fetched' = IF w = "service" THEN tick ELSE fetched
    /\ tooSoon' = (tooSoon \/ (w = "service" /\ fetched > tick - DayLength))
    /\ UNCHANGED <<tick, stamp, updating, feed, contractStage, newsOn, display, raw, hushed, hitches>>

WriteRaw(w) ==
    /\ writers[w].at = "raw"
    /\ \/ AtOf(w, "display") /\ raw' = writers[w].news
       \/ AtOf(w, "undisplay") /\ UNCHANGED raw
    /\ UNCHANGED <<tick, stamp, updating, feed, contractStage, newsOn, display, fetched, tooSoon, hushed, hitches>>

WriteDisplay(w) ==
    /\ writers[w].at = "display"
    /\ \/ writers' = [writers EXCEPT ![w] = Off] /\ display' = writers[w].news /\ hushed' = FALSE
       \/ AtOf(w, "undisplay") /\ UNCHANGED <<display, hushed>>
    /\ UNCHANGED <<tick, stamp, updating, feed, contractStage, newsOn, raw, fetched, tooSoon, hitches>>

DeleteDisplay(w) ==
    /\ writers[w].at = "undisplay" /\ AtOf(w, "unraw")
    /\ display' = Nothing
    /\ UNCHANGED <<tick, stamp, updating, feed, contractStage, newsOn, raw, fetched, tooSoon, hushed, hitches>>

\* Mutant of DeleteRaw: what the API returns stays.
DeleteRawNot(w) ==
    /\ writers[w].at = "unraw" /\ writers' = [writers EXCEPT ![w] = Off]
    /\ hushed' = FALSE
    /\ UNCHANGED <<tick, stamp, updating, feed, contractStage, newsOn, display, raw, fetched, tooSoon, hitches>>

DeleteRaw(w) ==
    /\ writers[w].at = "unraw" /\ writers' = [writers EXCEPT ![w] = Off]
    /\ raw' = Nothing /\ hushed' = FALSE
    /\ UNCHANGED <<tick, stamp, updating, feed, contractStage, newsOn, display, fetched, tooSoon, hitches>>

KillWriter(w) ==
    /\ writers[w].at # "off" /\ hitches < MaxHitches
    /\ hitches' = hitches + 1 /\ writers' = [writers EXCEPT ![w] = Off]
    /\ UNCHANGED <<tick, stamp, updating, feed, contractStage, newsOn, display, raw, fetched, tooSoon, hushed>>

\* Half a day passes, longer than any run; the server has other messages, the contract nears
\* its end or is renewed.
Tick ==
    /\ tick < LastTick /\ tick' = tick + 1 /\ ~updating /\ \A w \in Writers : writers[w] = Off
    /\ feed' \in Feeds /\ contractStage' \in {"active"} \cup LocalNews
    /\ UNCHANGED <<stamp, updating, newsOn, display, raw, writers, fetched, tooSoon, hushed, hitches>>

NewsNext ==
    \/ StartUpdate \/ EndUpdate \/ ServiceDecides \/ CommandWrites \/ Tick
    \/ SwitchOn \/ Silence \/ SwitchOff
    \/ \E w \in Writers : LookLocally(w) \/ FetchNews(w) \/ WriteRaw(w) \/ WriteDisplay(w)
                          \/ DeleteDisplay(w) \/ DeleteRaw(w) \/ KillWriter(w)

NewsSpec == NewsInit /\ [][NewsNext]_newsVars

-----------------------------------------------------------------------------

\* As long as no two writers overlap, none is killed and every apt update succeeds, the
\* service fetches the messages at most once a day, and - unless the news were switched off
\* since - the API returns what apt shows: the two files change in several steps, and each
\* exception leads to the two deletions.  (update_apt_news, lib/apt_news.py)
NewsSound ==
    hitches = 0 =>
        /\ ~tooSoon
        /\ ((\A w \in Writers : writers[w].at \in {"off", "asked"}) /\ ~hushed) => raw = display

=============================================================================
