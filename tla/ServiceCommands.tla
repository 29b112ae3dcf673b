---------------------------- MODULE ServiceCommands ----------------------------
(***************************************************************************)
(* pro enable and pro disable, which take several services, ask before     *)
(* they touch any other and keep pro status's cache up to date.            *)
(*                                                                         *)
(* What they ask about comes from the list of enabled services read when   *)
(* they start; what they do, from the services as they find them, in turn. *)
(* disable holds the lock from the start, enable only while it acts.       *)
(* Services has the steps inside each turn; here a service is on or off.   *)
(***************************************************************************)
EXTENDS Naturals, Sequences

CONSTANTS Offers,      \* the services
          EnableOrder, \* all of them, required ones first
          Clashes,     \* Clashes[s]: the services s is incompatible with
          Requires,    \* Requires[s]: those it requires
          Subscriptions, \* the contracts: the services in one, and those its list offers
          Platforms,   \* the sets of services that are applicable together
          MaxUpsets    \* bound on kills and on other processes' operations

ASSUME OffersAssumption ==
    /\ Clashes \in [Offers -> SUBSET Offers] /\ Requires \in [Offers -> SUBSET Offers]
    /\ Subscriptions \subseteq [entitled : SUBSET Offers, listed : SUBSET Offers]
    /\ Platforms \subseteq SUBSET Offers
    /\ EnableOrder \in Seq(Offers) /\ MaxUpsets \in Nat

\* A service has one place in the order.  Of those that others require (esm-infra, esm-apps and
\* ros) none clashes with any, and what they require themselves is required as well.
ASSUME DependencyAssumption ==
    /\ \A i, j \in DOMAIN EnableOrder : EnableOrder[i] = EnableOrder[j] => i = j
    /\ \A s \in Offers : \A r \in Requires[s] :
        /\ s # r /\ Requires[r] \subseteq Requires[s] /\ Clashes[r] = {}
        /\ \A t \in Offers : r \notin Clashes[t]

VARIABLES on,       \* the services whose application status is not disabled
          fit,      \* those applicable to the machine
          entitled, \* those in the contract
          listed,   \* those its list of resources calls available
          blocked,  \* features.block_disable_on_enable
          cached,   \* the services in status.json
          stale,    \* history: what may have kept status.json from the truth
          cmd,      \* the command under way
          agenda,   \* what its turn still has to do
          upsets    \* history: kills and other operations so far

cmdVars == <<on, fit, entitled, listed, blocked, cached, stale, cmd, agenda, upsets>>

Verbs == {"enable", "disable"}
Faces == {"enabled", "disabled", "n/a", "none"}
NoCommand == [at |-> "idle", verb |-> "enable", todo |-> <<>>, seen |-> {}, yes |-> TRUE,
              agreed |-> {}, moved |-> {}, processed |-> {}, undone |-> {},
              single |-> TRUE, apart |-> TRUE]

\* What a turn does: enable() and disable() of a service, and its installation and removal.
Operations == [do : Verbs \cup {"on", "off"}, svc : Offers]

\* The types of the variables.
CmdTypeOK ==
    /\ {on, fit, entitled, listed} \subseteq SUBSET Offers
    /\ cached \in [Offers -> Faces] /\ {blocked, stale} \subseteq BOOLEAN
    /\ cmd \in [at : {"idle", "choose", "act"}, verb : Verbs, todo : Seq(Offers),
                seen : SUBSET Offers, yes : BOOLEAN, agreed : SUBSET Operations,
                moved : SUBSET Operations, processed : SUBSET Offers, undone : SUBSET Operations,
                single : BOOLEAN, apart : BOOLEAN]
    /\ agenda \in Seq(Operations) /\ upsets \in 0..MaxUpsets

-----------------------------------------------------------------------------

\* user_facing_status
Facing(s) == IF s \notin fit THEN "n/a"
             ELSE IF s \notin entitled THEN "none"
             ELSE IF s \in on THEN "enabled" ELSE "disabled"

\* _attached_service_status: the contract's own list comes before the machine.
Shown(s) == IF s \notin entitled THEN "none" ELSE IF s \notin listed THEN "n/a" ELSE Facing(s)

EnabledServices == {s \in Offers : Facing(s) = "enabled"}

\* status() as root, which writes the cache.
StatusNow == [s \in Offers |-> Shown(s)]

InOrder(S) ==
    LET kept[n \in 0..Len(EnableOrder)] ==
            IF n = 0 THEN <<>>
            ELSE IF EnableOrder[n] \in S THEN Append(kept[n - 1], EnableOrder[n]) ELSE kept[n - 1]
    IN kept[Len(EnableOrder)]
Backwards(q) == [i \in DOMAIN q |-> q[Len(q) + 1 - i]]
Each(do, q) == [i \in DOMAIN q |-> [do |-> do, svc |-> q[i]]]

All(do, S) == {[do |-> do, svc |-> s] : s \in S}

\* What a turn asks about, from the list read at the start.
Questions(s) ==
    IF cmd.verb = "enable"
    THEN All("off", Clashes[s] \cap cmd.seen) \cup All("on", Requires[s] \ cmd.seen)
    ELSE All("off", {d \in cmd.seen \ {s} : s \in Requires[d]})

Named(s) == All(IF cmd.verb = "enable" THEN "on" ELSE "off", {s})

\* can_enable and can_disable, but for the refusals the turn deals with.
MayEnable(s) == s \in entitled \cap fit /\ s \notin on
MayDisable(s) == s \in on \cap fit

\* enable() and disable(): the incompatible services off, or else the required ones on; the
\* dependent ones off, those that depend on others of them first.
Expand(op) ==
    LET s == op.svc
        clash == InOrder(Clashes[s] \cap on)
        needs == InOrder(Requires[s] \ on)
        uses == Backwards(InOrder({d \in on : s \in Requires[d]})) IN
    IF op.do = "disable" THEN Each("disable", uses) \o Each("off", <<s>>)
    ELSE (IF clash # <<>> THEN Each("disable", clash) ELSE Each("enable", needs)) \o Each("on", <<s>>)

Refused(op) ==
    IF op.do = "disable" THEN ~MayDisable(op.svc)
    ELSE ~MayEnable(op.svc) \/ (blocked /\ Clashes[op.svc] \cap on # {})

-----------------------------------------------------------------------------

Consistent(S) == \A s \in S : Requires[s] \subseteq S /\ Clashes[s] \cap S = {}

CmdInit ==
    /\ on \in {S \in SUBSET Offers : Consistent(S)}
    /\ \E c \in Subscriptions : entitled = c.entitled /\ listed = c.listed
    /\ fit \in Platforms /\ on \subseteq entitled \cap fit
    /\ blocked \in BOOLEAN
    /\ cached = StatusNow /\ stale = FALSE
    /\ cmd = NoCommand /\ agenda = <<>> /\ upsets = 0

\* action_enable, action_disable: the list of enabled services is read once.
BeginCommand(verb, names, yes) ==
    LET all == {names[i] : i \in DOMAIN names} IN
    /\ cmd.at = "idle"
    /\ cmd' = [NoCommand EXCEPT !.at = "choose", !.verb = verb, !.yes = yes,
                                !.todo = IF verb = "enable" THEN InOrder(all) ELSE names,
                                !.seen = EnabledServices, !.single = Len(names) = 1]
    /\ UNCHANGED <<on, fit, entitled, listed, blocked, cached, stale, agenda, upsets>>

FailTurn(why) ==
    /\ cmd' = [cmd EXCEPT !.at = "choose", !.todo = Tail(@),
                          !.moved = {}, !.undone = @ \cup cmd.moved]
    /\ agenda' = <<>>
    /\ cached' = IF why = "returned" THEN StatusNow ELSE cached
    /\ stale' = IF why = "returned" THEN FALSE ELSE stale \/ cmd.moved # {}
    /\ UNCHANGED <<on, fit, entitled, listed, blocked, upsets>>

AlreadyOn ==
    /\ cmd.at = "choose" /\ cmd.todo # <<>> /\ cmd.verb = "enable"
    /\ Head(cmd.todo) \in cmd.seen
    /\ FailTurn("raised")

\* The user says no, or the configuration does.
Decline ==
    /\ cmd.at = "choose" /\ cmd.todo # <<>> /\ ~cmd.yes
    /\ cmd.verb = "enable" => Head(cmd.todo) \notin cmd.seen
    /\ Questions(Head(cmd.todo)) # {}
    /\ FailTurn("raised")

\* Another process has the lock.
LockedOut ==
    /\ cmd.at = "choose" /\ cmd.todo # <<>> /\ cmd.verb = "enable"
    /\ Head(cmd.todo) \notin cmd.seen
    /\ FailTurn("raised")

\* Mutant of Agree: a service that is required is not asked about.
AgreeUnasked ==
    LET s == Head(cmd.todo)
        idle == cmd.verb = "enable" /\ s \in EnabledServices IN
    /\ cmd.at = "choose" /\ cmd.todo # <<>>
    /\ cmd.verb = "enable" => s \notin cmd.seen
    /\ cmd' = [cmd EXCEPT !.at = "act", !.agreed = @ \cup Named(s)]
    /\ agenda' = IF idle THEN <<>> ELSE Each(cmd.verb, <<s>>)
    /\ UNCHANGED <<on, fit, entitled, listed, blocked, cached, stale, upsets>>

Agree ==
    LET s == Head(cmd.todo)
        idle == cmd.verb = "enable" /\ s \in EnabledServices IN
    /\ cmd.at = "choose" /\ cmd.todo # <<>>
    /\ cmd.verb = "enable" => s \notin cmd.seen
    /\ blocked /\ cmd.verb = "enable" /\ ~cmd.yes => Clashes[s] \cap cmd.seen = {}
    /\ cmd' = [cmd EXCEPT !.at = "act", !.agreed = @ \cup Named(s) \cup Questions(s)]
    /\ agenda' = IF idle THEN <<>> ELSE Each(cmd.verb, <<s>>)
    /\ UNCHANGED <<on, fit, entitled, listed, blocked, cached, stale, upsets>>

Plan ==
    LET op == Head(agenda) IN
    /\ cmd.at = "act" /\ agenda # <<>> /\ op.do \in Verbs /\ ~Refused(op)
    /\ agenda' = Expand(op) \o Tail(agenda)
    /\ UNCHANGED <<on, fit, entitled, listed, blocked, cached, stale, cmd, upsets>>

Perform ==
    LET op == Head(agenda) IN
    /\ cmd.at = "act" /\ agenda # <<>> /\ op.do \in {"on", "off"}
    /\ on' = IF op.do = "on" THEN on \cup {op.svc} ELSE on \ {op.svc}
    /\ cmd' = [cmd EXCEPT !.moved = @ \cup {op}]
    /\ agenda' = Tail(agenda)
    /\ UNCHANGED <<fit, entitled, listed, blocked, cached, stale, upsets>>

\* A refusal, or apt, snap or the service itself failing.  disable writes the cache before it
\* looks at the result; enable, and what raises, do not.
Break ==
    /\ cmd.at = "act" /\ agenda # <<>>
    /\ Head(agenda).do \in Verbs => Refused(Head(agenda))
    /\ \E why \in {"raised", "returned"} :
        /\ why = "returned" => cmd.verb = "disable"
        /\ FailTurn(why)

\* Mutant of EndTurn: disable leaves the cache alone.
EndTurnQuietly ==
    /\ cmd.at = "act" /\ agenda = <<>>
    /\ cached' = (IF cmd.verb = "enable" THEN StatusNow ELSE cached) /\ stale' = FALSE
    /\ cmd' = [cmd EXCEPT !.at = "choose", !.todo = Tail(@), !.moved = {},
                          !.processed = @ \cup {Head(cmd.todo)}]
    /\ UNCHANGED <<on, fit, entitled, listed, blocked, agenda, upsets>>

EndTurn ==
    /\ cmd.at = "act" /\ agenda = <<>>
    /\ cached' = StatusNow /\ stale' = FALSE
    /\ cmd' = [cmd EXCEPT !.at = "choose", !.todo = Tail(@), !.moved = {},
                          !.processed = @ \cup {Head(cmd.todo)}]
    /\ UNCHANGED <<on, fit, entitled, listed, blocked, agenda, upsets>>

EndCommand ==
    /\ cmd.at = "choose" /\ cmd.todo = <<>>
    /\ cmd' = NoCommand
    /\ UNCHANGED <<on, fit, entitled, listed, blocked, cached, stale, agenda, upsets>>

KillCommand ==
    /\ cmd.at # "idle" /\ upsets < MaxUpsets /\ upsets' = upsets + 1
    /\ cmd' = NoCommand /\ agenda' = <<>> /\ stale' = (stale \/ cmd.moved # {})
    /\ UNCHANGED <<on, fit, entitled, listed, blocked, cached>>

\* Another process enables or disables services through the API, while it can have the lock.
Elsewhere ==
    /\ upsets < MaxUpsets /\ upsets' = upsets + 1
    /\ cmd.at = "idle" \/ (cmd.at = "choose" /\ cmd.verb = "enable")
    /\ on' \in {S \in SUBSET (entitled \cap fit) : Consistent(S)}
    /\ cached' = [s \in Offers |-> IF Shown(s) \in {"enabled", "disabled"}
                                   THEN IF s \in on' THEN "enabled" ELSE "disabled" ELSE Shown(s)]
    /\ stale' = FALSE
    /\ cmd' = [cmd EXCEPT !.apart = FALSE]
    /\ UNCHANGED <<fit, entitled, listed, blocked, agenda>>

\* pro status, by root.
WriteStatus ==
    /\ cmd.at = "idle" /\ cached' = StatusNow /\ stale' = FALSE
    /\ UNCHANGED <<on, fit, entitled, listed, blocked, cmd, agenda, upsets>>

\* A reboot into another kernel.
BootOther ==
    /\ cmd.at = "idle" /\ fit' \in Platforms \ {fit}
    /\ stale' = TRUE
    /\ UNCHANGED <<on, entitled, listed, blocked, cached, cmd, agenda, upsets>>

CmdNext ==
    \/ \E verb \in Verbs, yes \in BOOLEAN, s, t \in Offers :
        BeginCommand(verb, IF s = t THEN <<s>> ELSE <<s, t>>, yes)
    \/ AlreadyOn \/ Decline \/ LockedOut \/ Agree \/ Plan \/ Perform \/ Break \/ EndTurn
    \/ EndCommand \/ KillCommand \/ Elsewhere \/ WriteStatus \/ BootOther

CmdSpec == CmdInit /\ [][CmdNext]_cmdVars

-----------------------------------------------------------------------------

\* A command on one service, if nobody else changes the services meanwhile, turns on or off
\* nothing but it and what the user agreed to, although it asks from one list and acts on
\* another.  A service reported as processed is as it was asked to be, unless a later turn or
\* another process saw to it.  And status.json is what pro status would show, but after a
\* reboot, a kill or a turn that failed half-way.
CommandsAsAgreed ==
    /\ cmd.at # "idle" /\ cmd.single /\ cmd.apart /\ ~cmd.yes =>
        cmd.moved \cup cmd.undone \subseteq cmd.agreed
    /\ cmd.at # "idle" /\ cmd.single /\ cmd.apart =>
        \A s \in cmd.processed : s \in on <=> cmd.verb = "enable"
    /\ cmd.at # "act" /\ ~stale => cached = StatusNow

\* The prompt that comes before an incompatible service is disabled.  (handle_incompatible_services)
AskedFirst == cmd.at # "idle" /\ cmd.apart /\ ~cmd.yes => cmd.moved \cup cmd.undone \subseteq cmd.agreed

=============================================================================
