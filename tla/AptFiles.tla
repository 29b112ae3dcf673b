------------------------------- MODULE AptFiles -------------------------------
(***************************************************************************)
(* The files of apt behind a service's repository: its source, the key the *)
(* source is signed with, the credentials of its URLs in a file all        *)
(* services share, its pin.  The client writes them under its lock; the    *)
(* package's scripts, and those of a release upgrade, do not take it.      *)
(***************************************************************************)
EXTENDS Naturals, Sequences

CONSTANTS Repos,     \* the services with a repository
          EsmRepos,  \* those that follow the archive's -updates
          Pinned,    \* those with a pin
          Url,       \* Url[s]: the repository's URL
          Snapshot,  \* Snapshot[s]: the URLs of its snapshots, in order
          Key,       \* Key[s]: the file of its key
          Within,    \* <<u, v>>: URL u is a part of v
          Contracted, \* the sets of services a contract may have
          MaxTrouble \* bound on overlaps and kills in a behaviour

Urls(s) == <<Url[s]>> \o Snapshot[s]
Entries(file) == {file[i] : i \in DOMAIN file}
AllUrls == UNION {Entries(Urls(s)) : s \in Repos}

ASSUME AptFilesAssumption ==
    /\ Repos # {} /\ EsmRepos \subseteq Repos /\ Pinned \subseteq Repos
    /\ Contracted \subseteq SUBSET Repos /\ MaxTrouble \in Nat

\* No URL is of two services; to be a part of another URL is an order.
ASSUME UrlsAssumption ==
    /\ Snapshot \in [Repos -> Seq(AllUrls)]
    /\ \A s, t \in Repos : s # t => Entries(Urls(s)) \cap Entries(Urls(t)) = {}
    /\ \A u \in AllUrls : <<u, u>> \notin Within
    /\ \A u, v, w \in AllUrls : <<u, v>> \in Within /\ <<v, w>> \in Within => <<u, w>> \in Within

VARIABLES source,   \* source[s]: the lists of apt that name the repository
          suites,   \* suites[s]: whether they have the -updates suites
          keyring,  \* the keys in trusted.gpg.d
          auth,     \* the URLs in apt's auth file, in order
          pins,     \* the services pinned
          deb822,   \* the release wants .sources files
          updates,  \* the archive's -updates are on
          terms,    \* the contract: its services, whether it names the snapshots' URLs
          work,     \* what the client and a script are doing
          trouble,  \* history: overlaps and kills so far
          shaken,   \* history: services whose files another hand has changed
          litter    \* history: services that may have left something behind

aptVars == <<source, suites, keyring, auth, pins, deb822, updates, terms, work, trouble,
             shaken, litter>>

Hands == {"client", "script"}
Quiet == [at |-> "rest", svc |-> CHOOSE s \in Repos : TRUE, adding |-> TRUE, todo |-> <<>>,
          read |-> <<>>, clean |-> TRUE]
Places == {"rest", "pin", "check", "read", "write", "key", "source", "update", "unsource",
           "unlist", "unkey", "unpin", "convert", "converted"}
WorkRecords == [at : Places, svc : Repos, adding : BOOLEAN, todo : Seq(AllUrls),
                read : Seq(AllUrls), clean : BOOLEAN]

AptFilesTypeOK ==
    /\ source \in [Repos -> SUBSET {"list", "sources", "commented"}]
    /\ suites \in [Repos -> BOOLEAN]
    /\ keyring \subseteq {Key[s] : s \in Repos}
    /\ auth \in Seq(AllUrls) /\ pins \subseteq Pinned
    /\ deb822 \in BOOLEAN /\ updates \in BOOLEAN
    /\ terms \in [svcs : Contracted, snapshots : BOOLEAN]
    /\ work \in [Hands -> WorkRecords]
    /\ trouble \in 0..MaxTrouble /\ shaken \subseteq Repos /\ litter \subseteq Repos

-----------------------------------------------------------------------------

Parts(file, u) == {i \in DOMAIN file : file[i] = u \/ <<file[i], u>> \in Within}

\* Mutant of AddEntry: a new entry always goes last.
AddEntryLast(file, u) == IF u \in Entries(file) THEN file ELSE Append(file, u)

\* add_apt_auth_conf_entry: in the place of the old entry, or before a less specific one.
AddEntry(file, u) ==
    IF Parts(file, u) = {} THEN Append(file, u)
    ELSE LET i == CHOOSE i \in Parts(file, u) : \A j \in Parts(file, u) : i <= j IN
         SubSeq(file, 1, i - 1) \o <<u>>
         \o SubSeq(file, IF file[i] = u THEN i + 1 ELSE i, Len(file))

\* remove_repo_from_apt_auth_file: the lines of other URLs.
RemoveEntry(file, u) ==
    LET kept[n \in 0..Len(file)] ==
          IF n = 0 THEN <<>>
          ELSE IF file[n] = u THEN kept[n - 1]
          ELSE Append(kept[n - 1], file[n])
    IN  kept[Len(file)]

Live(s) == source[s] \cap {"list", "sources"} # {}
Goes(h, at) == work' = [work EXCEPT ![h].at = at]
Rests(h) == work' = [work EXCEPT ![h] = Quiet]
KnownUrls(s) == IF terms.snapshots THEN Urls(s) ELSE <<Url[s]>>

-----------------------------------------------------------------------------

AptInit ==
    /\ source = [s \in Repos |-> {}] /\ suites = [s \in Repos |-> FALSE]
    /\ keyring = {} /\ auth = <<>> /\ pins = {}
    /\ deb822 \in BOOLEAN /\ updates \in BOOLEAN
    /\ terms \in [svcs : Contracted, snapshots : BOOLEAN]
    /\ work = [h \in Hands |-> Quiet]
    /\ trouble = 0 /\ shaken = {} /\ litter = {}

\* enable and disable; a script adds credentials, or converts a source.
TakeUp(h, s, at, adding, todo) ==
    LET overlap == \E g \in Hands : work[g].at # "rest" IN
    /\ work[h].at = "rest" /\ (overlap => trouble < MaxTrouble)
    /\ trouble' = IF overlap THEN trouble + 1 ELSE trouble
    /\ shaken' = IF overlap THEN Repos ELSE shaken
    /\ litter' = IF overlap THEN Repos ELSE litter
    /\ work' = [g \in Hands |->
        IF g = h THEN [at |-> at, svc |-> s, adding |-> adding, todo |-> todo, read |-> <<>>,
                       clean |-> ~overlap]
        ELSE [work[g] EXCEPT !.clean = @ /\ ~overlap]]
    /\ UNCHANGED <<source, suites, keyring, auth, pins, deb822, updates, terms>>

Add(s) == TakeUp("client", s, "pin", TRUE, KnownUrls(s))
Remove(s) == source[s] # {} /\ TakeUp("client", s, "unsource", FALSE, KnownUrls(s))
AddSnapshots(s) == s \in EsmRepos /\ Live(s) /\ TakeUp("script", s, "read", TRUE, Urls(s))
Convert(s) == deb822 /\ "list" \in source[s] /\ TakeUp("script", s, "convert", TRUE, <<>>)
DropCommented(s) ==
    /\ deb822 /\ source[s] \cap {"list", "commented"} = {"commented"}
    /\ TakeUp("script", s, "converted", TRUE, <<>>)

Pin(h) ==
    /\ work[h].at = "pin" /\ Goes(h, "check")
    /\ pins' = pins \cup ({work[h].svc} \cap Pinned)
    /\ UNCHANGED <<source, suites, keyring, auth, deb822, updates, terms, trouble, shaken, litter>>

\* What raises leaves what is there.
Raise(h) == Rests(h) /\ litter' = litter \cup {work[h].svc}

\* assert_valid_apt_credentials: apt-helper answers, or not.
Check(h) ==
    /\ work[h].at = "check"
    /\ \/ Goes(h, "read") /\ UNCHANGED litter
       \/ Raise(h)
    /\ UNCHANGED <<source, suites, keyring, auth, pins, deb822, updates, terms, trouble, shaken>>

\* Each URL: the whole file is read and written.
ReadAuth(h) ==
    /\ work[h].at = "read" /\ work[h].todo # <<>>
    /\ work' = [work EXCEPT ![h].at = "write", ![h].read = auth]
    /\ UNCHANGED <<source, suites, keyring, auth, pins, deb822, updates, terms, trouble, shaken, litter>>

WriteAuth(h) ==
    LET r == work[h] IN
    /\ r.at = "write"
    /\ auth' = IF r.adding THEN AddEntry(r.read, Head(r.todo)) ELSE RemoveEntry(r.read, Head(r.todo))
    /\ work' = [work EXCEPT ![h].at = "read", ![h].todo = Tail(@)]
    /\ litter' = IF h = "script" /\ ~terms.snapshots THEN litter \cup {r.svc} ELSE litter
    /\ UNCHANGED <<source, suites, keyring, pins, deb822, updates, terms, trouble, shaken>>

AuthDone(h) ==
    /\ work[h].at = "read" /\ work[h].todo = <<>>
    /\ IF h = "script" THEN Rests(h) ELSE Goes(h, IF work[h].adding THEN "key" ELSE "unpin")
    /\ UNCHANGED <<source, suites, keyring, auth, pins, deb822, updates, terms, trouble, shaken, litter>>

\* Only .list files need the key in trusted.gpg.d; it may be missing from the package.
ExportKey(h) ==
    /\ work[h].at = "key"
    /\ \/ /\ keyring' = keyring \cup (IF deb822 THEN {} ELSE {Key[work[h].svc]})
          /\ Goes(h, "source") /\ UNCHANGED litter
       \/ ~deb822 /\ Raise(h) /\ UNCHANGED keyring
    /\ UNCHANGED <<source, suites, auth, pins, deb822, updates, terms, trouble, shaken>>

WriteSourceFile(h) ==
    LET s == work[h].svc IN
    /\ work[h].at = "source" /\ Goes(h, "update")
    /\ source' = [source EXCEPT ![s] = IF deb822 THEN @ \cup {"sources"} ELSE {"list"}]
    /\ suites' = [suites EXCEPT ![s] = (s \in EsmRepos => updates)]
    /\ UNCHANGED <<keyring, auth, pins, deb822, updates, terms, trouble, shaken, litter>>

\* apt update works, or the repository is removed again.
UpdateSource(h) ==
    LET s == work[h].svc IN
    /\ work[h].at = "update"
    /\ \/ /\ Rests(h)
          /\ shaken' = IF work[h].clean THEN shaken \ {s} ELSE shaken
       \/ /\ work' = [work EXCEPT ![h].at = "unsource", ![h].adding = FALSE, ![h].todo = KnownUrls(s)]
          /\ UNCHANGED shaken
    /\ UNCHANGED <<source, suites, keyring, auth, pins, deb822, updates, terms, trouble, litter>>

DropSourceFile(h) ==
    /\ work[h].at = "unsource" /\ Goes(h, IF deb822 THEN "unlist" ELSE "unkey")
    /\ source' = [source EXCEPT ![work[h].svc] =
                    IF deb822 THEN @ \ {"sources"} ELSE @ \ {"list", "commented"}]
    /\ UNCHANGED <<suites, keyring, auth, pins, deb822, updates, terms, trouble, shaken, litter>>

DropList(h) ==
    /\ work[h].at = "unlist" /\ Goes(h, "unkey")
    /\ source' = [source EXCEPT ![work[h].svc] = @ \ {"list", "commented"}]
    /\ UNCHANGED <<suites, keyring, auth, pins, deb822, updates, terms, trouble, shaken, litter>>

\* The key goes, and with it that of any other service that uses it.
DropKey(h) ==
    LET s == work[h].svc IN
    /\ work[h].at = "unkey" /\ Goes(h, "read")
    /\ keyring' = keyring \ {Key[s]}
    /\ shaken' = shaken \cup {t \in Repos \ {s} : Key[t] = Key[s] /\ Live(t)}
    /\ UNCHANGED <<source, suites, auth, pins, deb822, updates, terms, trouble, litter>>

Unpin(h) ==
    LET s == work[h].svc IN
    /\ work[h].at = "unpin" /\ Rests(h)
    /\ pins' = pins \ {s}
    /\ litter' = IF work[h].clean /\ terms.snapshots THEN litter \ {s} ELSE litter
    /\ UNCHANGED <<source, suites, keyring, auth, deb822, updates, terms, trouble, shaken>>

\* convert_list_to_deb822.py: the new file says what the old one did, which then goes.
WriteConverted ==
    LET s == work["script"].svc IN
    /\ work["script"].at = "convert" /\ Goes("script", "converted")
    /\ source' = [source EXCEPT ![s] = @ \cup {"sources"}]
    /\ UNCHANGED <<suites, keyring, auth, pins, deb822, updates, terms, trouble, shaken, litter>>

DropConverted ==
    LET s == work["script"].svc IN
    /\ work["script"].at = "converted" /\ Rests("script")
    /\ source' = [source EXCEPT ![s] = @ \ {"list", "commented"}]
    /\ litter' = IF "sources" \in source[s] THEN litter ELSE litter \cup {s}
    /\ UNCHANGED <<suites, keyring, auth, pins, deb822, updates, terms, trouble, shaken>>

KillHand(h) ==
    /\ work[h].at # "rest" /\ trouble < MaxTrouble
    /\ trouble' = trouble + 1 /\ Raise(h)
    /\ UNCHANGED <<source, suites, keyring, auth, pins, deb822, updates, terms, shaken>>

\* do-release-upgrade to noble; it may comment the sources out.
NewRelease ==
    /\ ~deb822 /\ \A h \in Hands : work[h].at = "rest"
    /\ deb822' = TRUE
    /\ source' \in {source, [s \in Repos |-> IF source[s] = {} THEN {} ELSE {"commented"}]}
    /\ UNCHANGED <<suites, keyring, auth, pins, updates, terms, work, trouble, shaken, litter>>

AptNext ==
    \/ \E s \in terms.svcs : Add(s) \/ Remove(s) \/ AddSnapshots(s) \/ Convert(s) \/ DropCommented(s)
    \/ \E h \in Hands :
        \/ Pin(h) \/ Check(h) \/ ReadAuth(h) \/ WriteAuth(h) \/ AuthDone(h) \/ ExportKey(h)
        \/ WriteSourceFile(h) \/ UpdateSource(h) \/ DropSourceFile(h) \/ DropList(h)
        \/ DropKey(h) \/ Unpin(h) \/ KillHand(h)
    \/ WriteConverted \/ DropConverted \/ NewRelease

AptSpec == AptInit /\ [][AptNext]_aptVars

-----------------------------------------------------------------------------

\* apt takes the first entry that fits: at any time no entry hides a more specific one, and
\* none is there twice, whoever writes and whatever is killed.  A source on disk has its own
\* credentials, pin and - as a .list file - key, unless another hand has overlapped or a
\* service with the same key was disabled; its suites are those of the archive when it was
\* written.  A service that was disabled undisturbed leaves no credentials.
AptFilesSound ==
    /\ \A i, j \in DOMAIN auth : i < j => auth[i] # auth[j] /\ <<auth[i], auth[j]>> \notin Within
    /\ \A s \in Repos \ shaken :
        Live(s) => /\ Url[s] \in Entries(auth) /\ (s \in Pinned => s \in pins)
                   /\ (("list" \in source[s] /\ ~deb822) => Key[s] \in keyring)
                   /\ suites[s] <=> (s \in EsmRepos => updates)
    /\ \A s \in Repos \ litter :
        (source[s] = {} /\ \A h \in Hands : work[h].at = "rest") =>
            Entries(Urls(s)) \cap Entries(auth) = {}

=============================================================================
