---------------------------- MODULE Services_proofs ----------------------------
(***************************************************************************)
(* Theorems of Services, for every set of worlds, every release and every  *)
(* choice of what may happen to the machine: the types, StandTogether,     *)
(* DetachLeavesNothing and PackagesHaveSource.                             *)
(*                                                                         *)
(* The inductive invariant has two parts.  ShapeInv says what may be on    *)
(* the stack: which operation may stand at which place, and who may have   *)
(* called whom.  SightInv says, while nothing has put a service out of the *)
(* client's sight, that what the client sees is what is there (Seen), and  *)
(* what every operation that is still on the stack may count on            *)
(* (CallsFit, DetachFits): that the services it has yet to call are the    *)
(* only ones that stand in its way.                                        *)
(***************************************************************************)
EXTENDS Services, WellFoundedInduction, TLAPS

-----------------------------------------------------------------------------
(* The inductive invariant. *)

Members(q) == {q[i] : i \in DOMAIN q}

\* The services related to s, whatever their order.
Rivals(s) == Members(Incompatible(s))
Needs(s) == Members(Required(s))
Users(s) == Members(Dependents(s))

\* The operations that go from place to place, and those that call another one at a place.
Callers == {"make_room", "provide", "clear"}
PlaceFits(op, s, place) ==
    /\ \/ op = "enable" /\ place \in {"enable", "make_room", "provide", "apply", "update",
                                      "install", "record"}
       \/ op = "disable" /\ place \in {"disable", "clear", "uninstall", "unconfigure"}
       \/ op = "set_up" /\ place \in {"replace", "apply", "update"}
       \/ op = "install" /\ place = "install" /\ s = "fips"
    /\ s = "livepatch" => place \notin {"update", "install", "record", "unconfigure", "replace"}
    /\ place = "make_room" => Rivals(s) # {}
    /\ place = "provide" => Needs(s) # {}

\* What an operation may still have to call.
ListFits(s, place, list) ==
    /\ place = "make_room" => Members(list) \subseteq Rivals(s)
    /\ place = "provide" => Members(list) \subseteq Needs(s)
    /\ place = "clear" => Members(list) \subseteq Users(s)

\* f has called g.
Called(f, g) ==
    \/ f.at = "make_room" /\ g.op = "disable" /\ g.svc \in Rivals(f.svc)
    \/ f.at = "provide" /\ g.op = "enable" /\ g.svc \in Needs(f.svc)
    \/ f.at = "clear" /\ g.op = "disable" /\ g.svc \in Users(f.svc)

\* Whatever runs above f is of the kind that f called.
Above(f, g) ==
    /\ f.at = "provide" => g.op = "enable" /\ g.svc \in {"esm-infra", "esm-apps", "ros"}
    /\ f.at \in {"make_room", "clear"} => g.op = "disable"

StackFits ==
    \A k \in DOMAIN stack :
        /\ PlaceFits(stack[k].op, stack[k].svc, stack[k].at)
        /\ ListFits(stack[k].svc, stack[k].at, stack[k].todo)
        /\ k > 1 => Called(stack[k], stack[k - 1])
        /\ \A j \in 1..(k - 1) : Above(stack[k], stack[j])

\* What the command has on its stack.
CommandFits ==
    /\ at # "idle" => attached
    /\ stack # <<>> => at \in {"end", "detach", "deltas", "holds", "installed", "upgrade"}
    /\ at = "detach" => \A k \in DOMAIN stack : stack[k].op = "disable"
    /\ at = "upgrade" /\ stack # <<>> =>
           Len(stack) = 1 /\ Top.op = "disable" /\ Top.at \in {"uninstall", "unconfigure"}

\* Only services of this world are granted, and only to an attached machine; after a new source
\* is written it is there, and before one goes the service's package has gone.
GrantsFit ==
    /\ \A s \in Svcs : grant[s] # Absent => attached /\ s \in world
    /\ Running("update") => Present(Top.svc)
    /\ Running("unconfigure") => Brings(Top.svc) \cap packages = {}

ShapeInv == TypeOK /\ StackFits /\ CommandFits /\ GrantsFit

-----------------------------------------------------------------------------

\* What the client sees is what is there.
Seen ==
    /\ \A s \in Repos : source[s] = Absent \/ (source[s] = url[s] /\ grant[s] # Absent)
    /\ livepatch => grant["livepatch"] # Absent
    /\ \A s \in Repos : source[s] # Absent => s \in listed \/ (Running("update") /\ Top.svc = s)
    /\ kernel = "0" => \A s \in Fips : source[s] = Absent
    /\ upgraded => \A s \in Unfit : ~Present(s)

\* fips-updates and the services that do not apply beside it.
Apart ==
    /\ once => ~Present("fips") /\ ~Present("fips-preview")
    /\ ~(Present("fips-updates") /\ Present("fips-preview"))

\* The services that are still to be called, or being called, by the operation at k.
Left(k) == Members(stack[k].todo) \cup IF k > 1 THEN {stack[k - 1].svc} ELSE {}

\* An enable that has found its service applicable: nobody uses the service yet.
EnableFits(k) ==
    LET f == stack[k] IN
    f.op = "enable" /\ f.at # "enable" =>
        /\ ~(upgraded /\ f.svc \in Unfit) /\ grant[f.svc] = "yes"
        /\ f.svc \in {"fips", "fips-preview"} => ~once /\ ~Present("fips-updates")
        /\ \A o \in Users(f.svc) : ~Present(o)
        /\ f.at = "make_room" => \A t \in Rivals(f.svc) : Present(t) => t \in Left(k)
        /\ f.at = "provide" => \A t \in Needs(f.svc) : Present(t) \/ t \in Left(k)
        /\ f.at \notin {"make_room", "provide"} =>
               /\ \A t \in Rivals(f.svc) : ~Present(t)
               /\ \A t \in Needs(f.svc) : Present(t)
        /\ f.at \in {"update", "install", "record"} => Present(f.svc)

\* A disable: first those that use the service go.
DisableFits(k) ==
    LET f == stack[k] IN
    /\ f.at = "clear" => \A t \in Users(f.svc) : Present(t) => t \in Left(k)
    /\ f.at \in {"uninstall", "unconfigure"} => \A t \in Users(f.svc) : ~Present(t)

\* Setting up again what is there.
SetUpFits(k) ==
    stack[k].op = "set_up" =>
        stack[k].at # "replace" /\ stack[k].svc \in {"fips", "livepatch"} /\ Present(stack[k].svc)

CallsFit == \A k \in DOMAIN stack : EnableFits(k) /\ DisableFits(k) /\ SetUpFits(k)

\* The place of a service in the order of detach.
Rank(s) ==
    CASE s = "ros-updates" -> 1 [] s = "ros" -> 2 [] s = "esm-apps" -> 3 [] s = "esm-infra" -> 4
      [] s = "fips" -> 5 [] s = "fips-updates" -> 6 [] s = "fips-preview" -> 7
      [] s = "livepatch" -> 8 [] OTHER -> 9
Sorted(q) == \A i, j \in DOMAIN q : i < j => Rank(q[i]) < Rank(q[j])

\* A detach takes the services one by one, those that use a service before it.
DetachFits ==
    /\ at = "detach" /\ stack # <<>> => result # "raise"
    /\ at = "detach" /\ result # "raise" =>
        /\ Sorted(todo) /\ Len(stack) <= 1
        /\ stack = <<>> => \A s \in Svcs : Present(s) => s \in Members(todo)
        /\ stack # <<>> => /\ \A s \in Svcs : Present(s) => s \in Members(todo) \cup {Top.svc}
                           /\ \A s \in Members(todo) : Rank(Top.svc) < Rank(s)
                           /\ Top.at = "clear" => Top.todo = <<>>

\* What the properties say, put in terms of what is on the machine.
Stand ==
    /\ \A s \in Svcs : Present(s) => \A t \in Needs(s) : Present(t)
    /\ \A s \in Svcs : \A t \in Rivals(s) : s \in Rivals(t) => ~(Present(s) /\ Present(t))
Detached == ~attached => \A s \in Svcs : ~Present(s)
Packed == \A p \in packages : \E s \in Svcs : p \in Brings(s) /\ Present(s)

Sight == Seen /\ Apart /\ Stand /\ CallsFit /\ DetachFits /\ Detached /\ Packed
SightInv == InSight => Sight
-----------------------------------------------------------------------------
(* Sequences: the stack, and the lists of services. *)

LEMMA PushOn ==
    ASSUME NEW S, NEW q \in Seq(S), NEW f \in S, NEW r, r = <<f>> \o q
    PROVE  /\ r \in Seq(S) /\ r # <<>> /\ Len(r) = Len(q) + 1 /\ r[1] = f
           /\ \A k \in 2..Len(r) : k - 1 \in 1..Len(q) /\ r[k] = q[k - 1]
OBVIOUS

LEMMA NoLength == ASSUME NEW S, NEW q \in Seq(S), Len(q) = 0 PROVE q = <<>>
OBVIOUS

LEMMA HeadAndTail ==
    ASSUME NEW S, NEW q \in Seq(S), q # <<>>
    PROVE  /\ Head(q) = q[1] /\ q[1] \in S /\ 1 \in DOMAIN q /\ DOMAIN q = 1..Len(q) /\ Len(q) >= 1
           /\ Tail(q) \in Seq(S) /\ Len(Tail(q)) = Len(q) - 1
           /\ \A k \in 1..(Len(q) - 1) : Tail(q)[k] = q[k + 1] /\ k + 1 \in 1..Len(q)
OBVIOUS

LEMMA PutOn ==
    ASSUME NEW S, NEW q \in Seq(S), q # <<>>, NEW g \in S, NEW r, r = <<g>> \o Tail(q)
    PROVE  /\ r \in Seq(S) /\ r # <<>> /\ Len(r) = Len(q) /\ r[1] = g
           /\ \A k \in 2..Len(q) : r[k] = q[k]
<1>1. Tail(q) \in Seq(S) /\ Len(Tail(q)) = Len(q) - 1
      /\ \A k \in 1..(Len(q) - 1) : Tail(q)[k] = q[k + 1]
  BY HeadAndTail
<1> QED
  BY <1>1, PushOn

LEMMA PutTwo ==
    ASSUME NEW S, NEW q \in Seq(S), q # <<>>, NEW f \in S, NEW g \in S,
           NEW r, r = <<f, g>> \o Tail(q)
    PROVE  /\ r \in Seq(S) /\ r # <<>> /\ Len(r) = Len(q) + 1 /\ r[1] = f /\ r[2] = g
           /\ \A k \in 3..Len(r) : k - 1 \in 2..Len(q) /\ r[k] = q[k - 1]
<1>1. Tail(q) \in Seq(S) /\ Len(Tail(q)) = Len(q) - 1 /\ Len(q) \in Nat
      /\ \A k \in 1..(Len(q) - 1) : Tail(q)[k] = q[k + 1]
  BY HeadAndTail
<1>2. /\ r \in Seq(S) /\ Len(r) = Len(Tail(q)) + 2 /\ r[1] = f /\ r[2] = g
      /\ \A k \in 3..Len(r) : r[k] = Tail(q)[k - 2]
  BY <1>1
<1> QED
  BY <1>1, <1>2

LEMMA MembersOf ==
    ASSUME NEW q \in Seq(Svcs)
    PROVE  /\ Members(q) \subseteq Svcs /\ (q = <<>> <=> Members(q) = {})
           /\ q # <<>> => /\ Head(q) \in Svcs /\ Head(q) \in Members(q) /\ Tail(q) \in Seq(Svcs)
                          /\ Members(q) = {Head(q)} \cup Members(Tail(q))
                          /\ Sorted(q) => Sorted(Tail(q)) /\ \A s \in Members(Tail(q)) : Rank(Head(q)) < Rank(s)
<1>1. DOMAIN q = 1..Len(q) /\ Len(q) \in Nat /\ \A i \in 1..Len(q) : q[i] \in Svcs
  OBVIOUS
<1>2. Members(q) \subseteq Svcs
  BY <1>1 DEF Members
<1>3. q = <<>> <=> Members(q) = {}
  <2>1. q # <<>> => 1 \in DOMAIN q
    BY <1>1
  <2> QED
    BY <2>1 DEF Members
<1>4. ASSUME q # <<>>
      PROVE  /\ Head(q) \in Svcs /\ Head(q) \in Members(q) /\ Tail(q) \in Seq(Svcs)
             /\ Members(q) = {Head(q)} \cup Members(Tail(q))
             /\ Sorted(q) => Sorted(Tail(q)) /\ \A s \in Members(Tail(q)) : Rank(Head(q)) < Rank(s)
  <2> DEFINE t == Tail(q)
  <2>1. /\ Head(q) = q[1] /\ q[1] \in Svcs /\ 1 \in DOMAIN q
        /\ t \in Seq(Svcs) /\ Len(t) = Len(q) - 1 /\ DOMAIN t = 1..(Len(q) - 1)
        /\ \A k \in 1..(Len(q) - 1) : t[k] = q[k + 1] /\ k + 1 \in 1..Len(q)
    BY <1>4, HeadAndTail
  <2> HIDE DEF t
  <2>2. ASSUME NEW s PROVE s \in Members(q) <=> s = q[1] \/ s \in Members(t)
    <3>1. ASSUME s \in Members(q), s # q[1] PROVE s \in Members(t)
      <4>1. PICK i \in 1..Len(q) : s = q[i]
        BY <1>1, <3>1 DEF Members
      <4>2. i - 1 \in 1..(Len(q) - 1) /\ (i - 1) + 1 = i
        BY <1>1, <3>1, <4>1
      <4>3. t[i - 1] = s
        BY <2>1, <4>1, <4>2
      <4> QED
        BY <2>1, <4>2, <4>3 DEF Members
    <3>2. ASSUME s \in Members(t) PROVE s \in Members(q)
      BY <1>1, <2>1, <3>2 DEF Members
    <3> QED
      BY <2>1, <3>1, <3>2 DEF Members
  <2>3. ASSUME Sorted(q) PROVE Sorted(t) /\ \A s \in Members(t) : Rank(q[1]) < Rank(s)
    <3>1. \A i, j \in 1..(Len(q) - 1) : i < j => i + 1 \in 1..Len(q) /\ j + 1 \in 1..Len(q) /\ i + 1 < j + 1
      BY <1>1
    <3>2. Sorted(t)
      BY <1>1, <2>1, <2>3, <3>1 DEF Sorted
    <3>3. \A i \in 1..(Len(q) - 1) : i + 1 \in DOMAIN q /\ 1 < i + 1
      BY <1>1
    <3>4. \A i \in 1..(Len(q) - 1) : Rank(q[1]) < Rank(t[i])
      BY <2>1, <2>3, <3>3 DEF Sorted
    <3> QED
      BY <2>1, <3>2, <3>4 DEF Members
  <2> QED
    BY <2>1, <2>2, <2>3 DEF t
<1> QED
  BY <1>2, <1>3, <1>4

\* A set of numbers has a least one: what induction over a list rests on.
LEMMA LeastNumber == ASSUME NEW T, T \subseteq Nat, T # {} PROVE \E x \in T : \A y \in T : x <= y
<1> DEFINE R == OpToRel(<, Nat)
<1>1. IsWellFoundedOn(R, Nat)
  BY NatLessThanWellFounded
<1>2. \A x, y \in Nat : y < x => <<y, x>> \in R
  BY DEF OpToRel
<1> HIDE DEF R
<1>3. \E x \in T : \A y \in T : ~ (<<y, x>> \in R)
  BY <1>1, WFMin
<1>4. PICK x \in T : \A y \in T : ~ (<<y, x>> \in R)
  BY <1>3
<1>5. ASSUME NEW y \in T PROVE x <= y
  <2>1. x \in Nat /\ y \in Nat
    BY <1>4, <1>5
  <2>2. ~(y < x)
    BY <1>2, <1>4, <2>1
  <2> QED
    BY <2>1, <2>2
<1> QED
  BY <1>4, <1>5

\* Select, by induction: the members of the list that are in the set, in the list's order.
LEMMA Selected ==
    ASSUME NEW list \in Seq(Svcs), NEW set
    PROVE  /\ Select(list, set) \in Seq(Svcs)
           /\ Members(Select(list, set)) = Members(list) \cap set
           /\ Sorted(list) => Sorted(Select(list, set))
<1> DEFINE L == Len(list)
           Step(f, n) == IF n = 0 THEN <<>>
                         ELSE IF list[n] \in set THEN Append(f[n - 1], list[n]) ELSE f[n - 1]
           kept == CHOOSE f : f = [n \in 0..L |-> Step(f, n)]
<1>1. Select(list, set) = kept[L]
  BY DEF Select
<1>2. L \in Nat /\ DOMAIN list = 1..L /\ \A i \in 1..L : list[i] \in Svcs
  OBVIOUS
<1> HIDE DEF L
\* Line by line the function is defined, ...
<1>3. \A n \in 0..L : \E f : f = [m \in 0..n |-> Step(f, m)]
  <2> DEFINE Defined(n) == \E f : f = [m \in 0..n |-> Step(f, m)]
             Undefined == {n \in 0..L : ~Defined(n)}
  <2>3. Defined(0)
    <3> DEFINE f == [m \in 0..0 |-> <<>>]
    <3>1. f = [m \in 0..0 |-> Step(f, m)]
      OBVIOUS
    <3> QED
      BY <3>1
  <2> HIDE DEF Defined
  <2>1. SUFFICES ASSUME Undefined # {} PROVE FALSE
    BY <2>1 DEF Defined
  <2>2. PICK n \in Undefined : \A m \in Undefined : n <= m
    <3>1. Undefined \subseteq Nat
      BY <1>2
    <3> HIDE DEF Undefined
    <3> QED
      BY <2>1, <3>1, LeastNumber
  <2>4. n \in 1..L /\ n - 1 \in 0..L /\ Defined(n - 1)
    <3>1. n \in 0..L /\ n # 0
      BY <2>2, <2>3
    <3>2. n \in 1..L /\ n - 1 \in 0..L /\ ~(n <= n - 1)
      BY <1>2, <3>1
    <3>3. n - 1 \notin Undefined
      BY <2>2, <3>2
    <3> QED
      BY <3>2, <3>3
  <2>5. PICK f : f = [m \in 0..(n - 1) |-> Step(f, m)]
    BY <2>4 DEF Defined
  <2>8. \A m \in 0..(n - 1) : f[m] = Step(f, m)
    <3> HIDE DEF Step
    <3> QED
      BY <2>5
  <2> DEFINE g == [m \in 0..n |-> IF m = n THEN Step(f, n) ELSE f[m]]
  <2>6. ASSUME NEW m \in 0..n PROVE g[m] = Step(g, m)
    <3>1. CASE m = 0
      <4>1. 0 \in 0..(n - 1) /\ 0 # n
        BY <1>2, <2>4
      <4> QED
        BY <2>8, <3>1, <4>1
    <3>2. CASE m # 0
      <4>1. m - 1 \in 0..(n - 1) /\ g[m - 1] = f[m - 1]
        BY <1>2, <2>4, <3>2
      <4>2. Step(g, m) = Step(f, m)
        BY <4>1
      <4>3. m # n => m \in 0..(n - 1) /\ g[m] = f[m] /\ f[m] = Step(f, m)
        <5>1. m # n => m \in 0..(n - 1)
          BY <1>2, <2>4
        <5>2. m # n => g[m] = f[m]
          OBVIOUS
        <5> HIDE DEF g, Step
        <5> QED
          BY <2>8, <5>1, <5>2
      <4> QED
        BY <4>2, <4>3
    <3> QED
      BY <3>1, <3>2
  <2>7. g = [m \in 0..n |-> Step(g, m)]
    <3> HIDE DEF Step
    <3>1. [m \in 0..n |-> Step(g, m)] = [m \in 0..n |-> g[m]]
      BY <2>6
    <3> QED
      BY <3>1
  <2> HIDE DEF g
  <2>9. Defined(n)
    BY <2>7 DEF Defined
  <2> QED
    BY <2>2, <2>9
<1>4. /\ kept[0] = <<>>
      /\ \A n \in 1..L : kept[n] = IF list[n] \in set THEN Append(kept[n - 1], list[n]) ELSE kept[n - 1]
  <2> HIDE DEF Step
  <2>1. kept = [n \in 0..L |-> Step(kept, n)]
    <3>1. L \in 0..L
      BY <1>2
    <3>2. \E f : f = [n \in 0..L |-> Step(f, n)]
      BY <1>3, <3>1
    <3> QED
      BY <3>2
  <2> HIDE DEF kept
  <2>2. \A n \in 0..L : kept[n] = Step(kept, n)
    BY <2>1
  <2>3. kept[0] = Step(kept, 0) /\ \A n \in 1..L : kept[n] = Step(kept, n) /\ n # 0
    BY <1>2, <2>2
  <2> QED
    BY <2>3 DEF Step
<1> HIDE DEF kept
\* ... and holds the members so far.
<1> DEFINE Fine(n) ==
      /\ kept[n] \in Seq(Svcs)
      /\ \A s : s \in Members(kept[n]) <=> s \in set /\ \E a \in 1..n : list[a] = s
      /\ Sorted(list) => Sorted(kept[n])
<1>5. \A n \in 0..L : Fine(n)
  <2> HIDE DEF Fine
  <2> DEFINE Wrong == {n \in 0..L : ~Fine(n)}
  <2>1. SUFFICES ASSUME Wrong # {} PROVE FALSE
    BY <2>1
  <2>2. PICK n \in Wrong : \A m \in Wrong : n <= m
    <3>1. Wrong \subseteq Nat
      BY <1>2
    <3> HIDE DEF Wrong
    <3> QED
      BY <2>1, <3>1, LeastNumber
  <2>3. n # 0
    <3>1. Fine(0)
      BY <1>4 DEF Fine, Members, Sorted
    <3> QED
      BY <2>2, <3>1
  <2>4. n \in 1..L /\ n \in Nat /\ n - 1 \in 0..L /\ Fine(n - 1)
    <3>1. n \in 0..L
      BY <2>2
    <3>2. n \in 1..L /\ n \in Nat /\ n - 1 \in 0..L /\ ~(n <= n - 1)
      BY <1>2, <2>3, <3>1
    <3>3. n - 1 \notin Wrong
      BY <2>2, <3>2
    <3> QED
      BY <3>2, <3>3
  <2> DEFINE before == kept[n - 1]
             now == kept[n]
             here == list[n]
  <2>5. /\ before \in Seq(Svcs)
        /\ \A s : s \in Members(before) <=> s \in set /\ \E a \in 1..(n - 1) : list[a] = s
        /\ Sorted(list) => Sorted(before)
    BY <2>4 DEF Fine
  <2>6. now = (IF here \in set THEN Append(before, here) ELSE before) /\ here \in Svcs
    BY <1>2, <1>4, <2>4
  <2>7. \A a : a \in 1..n <=> a \in 1..(n - 1) \/ a = n
    BY <2>4
  <2>8. \A s : (\E a \in 1..n : list[a] = s) <=> (\E a \in 1..(n - 1) : list[a] = s) \/ here = s
    BY <2>7
  <2>9. ASSUME now \in Seq(Svcs), Sorted(list) => Sorted(now),
               \A s : s \in Members(now) <=> s \in set /\ \E a \in 1..n : list[a] = s
        PROVE  Fine(n)
    BY <2>9 DEF Fine
  <2> HIDE DEF before, now
  <2>10. CASE here \notin set
    BY <2>2, <2>5, <2>6, <2>8, <2>9, <2>10
  <2>11. CASE here \in set
    <3>1. now = Append(before, here)
      BY <2>6, <2>11
    <3>2. /\ now \in Seq(Svcs) /\ Len(now) = Len(before) + 1 /\ Len(before) \in Nat
          /\ now[Len(now)] = here /\ \A i \in 1..Len(before) : now[i] = before[i]
          /\ DOMAIN now = 1..Len(now) /\ DOMAIN before = 1..Len(before)
      BY <2>5, <2>6, <3>1
    <3>3. \A s : s \in Members(now) <=> s \in Members(before) \/ s = here
      <4>1. \A i : i \in DOMAIN now <=> i \in DOMAIN before \/ i = Len(now)
        BY <3>2
      <4> QED
        BY <3>2, <4>1 DEF Members
    <3>4. \A s : s \in Members(now) <=> s \in set /\ \E a \in 1..n : list[a] = s
      BY <2>5, <2>8, <2>11, <3>3
    <3>5. ASSUME Sorted(list) PROVE Sorted(now)
      <4>1. SUFFICES ASSUME NEW i \in DOMAIN now, NEW j \in DOMAIN now, i < j
                     PROVE  Rank(now[i]) < Rank(now[j])
        BY <4>1 DEF Sorted
      <4>2. i \in DOMAIN before /\ now[i] = before[i]
        BY <3>2, <4>1
      <4>3. CASE j \in DOMAIN before
        BY <2>5, <3>2, <3>5, <4>1, <4>2, <4>3 DEF Sorted
      <4>4. CASE j \notin DOMAIN before
        <5>1. now[j] = here
          BY <3>2, <4>4
        <5>2. before[i] \in Members(before)
          BY <4>2 DEF Members
        <5>3. PICK a \in 1..(n - 1) : list[a] = before[i]
          BY <2>5, <5>2
        <5>4. a \in DOMAIN list /\ n \in DOMAIN list /\ a < n
          BY <1>2, <2>4
        <5> QED
          BY <3>5, <4>2, <5>1, <5>3, <5>4 DEF Sorted
      <4> QED
        BY <4>3, <4>4
    <3> QED
      BY <2>2, <2>9, <3>2, <3>4, <3>5
  <2> QED
    BY <2>10, <2>11
<1> HIDE DEF Fine
<1>6. L \in 0..L /\ Fine(L)
  BY <1>2, <1>5
<1>7. /\ kept[L] \in Seq(Svcs)
      /\ \A s : s \in Members(kept[L]) <=> s \in set /\ \E a \in 1..L : list[a] = s
      /\ Sorted(list) => Sorted(kept[L])
  BY <1>6 DEF Fine
<1>8. \A s : s \in Members(list) <=> \E a \in 1..L : list[a] = s
  BY <1>2 DEF Members
<1> QED
  BY <1>1, <1>7, <1>8

\* The code's lists: who excludes, requires and is required by whom, and the two orders.
LEMMA Relations ==
    /\ \A s \in Svcs : /\ Incompatible(s) \in Seq(Svcs) /\ Required(s) \in Seq(Svcs)
                       /\ Dependents(s) \in Seq(Svcs) /\ Sorted(Dependents(s))
                       /\ Rivals(s) = CASE s = "fips" -> {"livepatch", "fips-updates", "realtime-kernel"}
                                        [] s = "fips-updates" -> {"fips", "realtime-kernel"}
                                        [] s = "fips-preview" -> {"livepatch", "fips-updates", "realtime-kernel", "fips"}
                                        [] s = "livepatch" -> {"fips", "realtime-kernel"}
                                        [] s = "realtime-kernel" -> {"fips", "fips-updates", "livepatch"}
                                        [] OTHER -> {}
                       /\ Needs(s) = CASE s = "ros" -> {"esm-infra", "esm-apps"}
                                       [] s = "ros-updates" -> {"esm-infra", "esm-apps", "ros"}
                                       [] OTHER -> {}
                       /\ Users(s) = CASE s \in {"esm-infra", "esm-apps"} -> {"ros-updates", "ros"}
                                       [] s = "ros" -> {"ros-updates"}
                                       [] OTHER -> {}
    /\ EnableOrder \in Seq(Svcs) /\ Members(EnableOrder) = Svcs
    /\ DisableOrder \in Seq(Svcs) /\ Members(DisableOrder) = Svcs /\ Sorted(DisableOrder)
<1>1. ASSUME NEW a PROVE Members(<<a>>) = {a}
  BY DEF Members
<1>2. ASSUME NEW a, NEW b PROVE Members(<<a, b>>) = {a, b}
  BY DEF Members
<1>3. ASSUME NEW a, NEW b, NEW c PROVE Members(<<a, b, c>>) = {a, b, c}
  BY DEF Members
<1>4. ASSUME NEW a, NEW b, NEW c, NEW d PROVE Members(<<a, b, c, d>>) = {a, b, c, d}
  BY DEF Members
<1>5. Members(<<>>) = {} /\ Sorted(<<>>) /\ \A a : Sorted(<<a>>)
  BY DEF Members, Sorted
<1>6. ASSUME NEW s \in Svcs
      PROVE /\ Incompatible(s) \in Seq(Svcs)
            /\ Rivals(s) = CASE s = "fips" -> {"livepatch", "fips-updates", "realtime-kernel"}
                             [] s = "fips-updates" -> {"fips", "realtime-kernel"}
                             [] s = "fips-preview" -> {"livepatch", "fips-updates", "realtime-kernel", "fips"}
                             [] s = "livepatch" -> {"fips", "realtime-kernel"}
                             [] s = "realtime-kernel" -> {"fips", "fips-updates", "livepatch"}
                             [] OTHER -> {}
  <2>1. CASE s = "fips"
    BY <1>3, <2>1 DEF Incompatible, Rivals, Svcs
  <2>2. CASE s = "fips-updates"
    BY <1>2, <2>2 DEF Incompatible, Rivals, Svcs
  <2>3. CASE s = "fips-preview"
    BY <1>4, <2>3 DEF Incompatible, Rivals, Svcs
  <2>4. CASE s = "livepatch"
    BY <1>2, <2>4 DEF Incompatible, Rivals, Svcs
  <2>5. CASE s = "realtime-kernel"
    BY <1>3, <2>5 DEF Incompatible, Rivals, Svcs
  <2>6. CASE s \notin {"fips", "fips-updates", "fips-preview", "livepatch", "realtime-kernel"}
    <3>1. Incompatible(s) = <<>>
      BY <2>6 DEF Incompatible, Svcs
    <3>2. Rivals(s) = {} /\ <<>> \in Seq(Svcs)
      BY <1>5, <3>1 DEF Rivals
    <3> QED
      BY <1>5, <2>6, <3>1, <3>2
  <2> QED
    BY <2>1, <2>2, <2>3, <2>4, <2>5, <2>6
<1>7. ASSUME NEW s \in Svcs
      PROVE /\ Required(s) \in Seq(Svcs)
            /\ Needs(s) = CASE s = "ros" -> {"esm-infra", "esm-apps"}
                            [] s = "ros-updates" -> {"esm-infra", "esm-apps", "ros"}
                            [] OTHER -> {}
  <2>1. CASE s = "ros"
    BY <1>2, <2>1 DEF Required, Needs, Svcs
  <2>2. CASE s = "ros-updates"
    BY <1>3, <2>2 DEF Required, Needs, Svcs
  <2>3. CASE s \notin {"ros", "ros-updates"}
    <3>1. Required(s) = <<>>
      BY <2>3 DEF Required, Svcs
    <3>2. Needs(s) = {} /\ <<>> \in Seq(Svcs)
      BY <1>5, <3>1 DEF Needs
    <3> QED
      BY <1>5, <2>3, <3>1, <3>2
  <2> QED
    BY <2>1, <2>2, <2>3
<1>8. ASSUME NEW s \in Svcs
      PROVE /\ Dependents(s) \in Seq(Svcs) /\ Sorted(Dependents(s))
            /\ Users(s) = CASE s \in {"esm-infra", "esm-apps"} -> {"ros-updates", "ros"}
                            [] s = "ros" -> {"ros-updates"}
                            [] OTHER -> {}
  <2>0. Sorted(<<"ros-updates", "ros">>)
    BY DEF Sorted, Rank
  <2>1. CASE s \in {"esm-infra", "esm-apps"}
    <3>1. Dependents(s) = <<"ros-updates", "ros">>
      BY <2>1 DEF Dependents
    <3> QED
      BY <1>2, <2>0, <2>1, <3>1 DEF Users, Svcs
  <2>2. CASE s = "ros"
    BY <1>1, <1>5, <2>2 DEF Dependents, Users, Svcs
  <2>3. CASE s \notin {"esm-infra", "esm-apps", "ros"}
    <3>1. Dependents(s) = <<>>
      BY <2>3 DEF Dependents, Svcs
    <3>2. Users(s) = {} /\ <<>> \in Seq(Svcs)
      BY <1>5, <3>1 DEF Users
    <3> QED
      BY <1>5, <2>3, <3>1, <3>2
  <2> QED
    BY <2>1, <2>2, <2>3
<1>9. /\ EnableOrder \in Seq(Svcs) /\ Members(EnableOrder) = Svcs
      /\ DisableOrder \in Seq(Svcs) /\ Members(DisableOrder) = Svcs
  BY DEF EnableOrder, DisableOrder, Svcs, Members
<1>10. Sorted(DisableOrder)
  <2>1. /\ DOMAIN DisableOrder = 1..9
        /\ \A i \in 1..9 : Rank(DisableOrder[i]) = i
    BY DEF DisableOrder, Rank
  <2> QED
    BY <2>1 DEF Sorted
<1> QED
  BY <1>6, <1>7, <1>8, <1>9, <1>10

-----------------------------------------------------------------------------
(* What a step does to the stack. *)

LEMMA FrameTypes ==
    ASSUME NEW f \in Frames
    PROVE  /\ f.op \in Ops /\ f.svc \in Svcs /\ f.at \in Places /\ f.access \in BOOLEAN
           /\ f.todo \in Seq(Svcs)
BY DEF Frames

LEMMA NewFrame ==
    ASSUME NEW op \in Ops, NEW s \in Svcs, NEW place \in Places, NEW access \in BOOLEAN
    PROVE  /\ Frame(op, s, place, access, <<>>) \in Frames
           /\ Frame(op, s, place, access, <<>>).op = op
           /\ Frame(op, s, place, access, <<>>).svc = s
           /\ Frame(op, s, place, access, <<>>).at = place
           /\ Frame(op, s, place, access, <<>>).access = access
           /\ Frame(op, s, place, access, <<>>).todo = <<>>
<1>1. <<>> \in Seq(Svcs)
  OBVIOUS
<1> QED
  BY <1>1 DEF Frame, Frames

LEMMA TopTypes ==
    ASSUME TypeOK, stack # <<>>
    PROVE  /\ Top = stack[1] /\ Top \in Frames /\ 1 \in DOMAIN stack /\ DOMAIN stack = 1..Len(stack)
           /\ Len(stack) \in Nat /\ Len(stack) >= 1
           /\ Top.op \in Ops /\ Top.svc \in Svcs /\ Top.at \in Places /\ Top.access \in BOOLEAN
           /\ Top.todo \in Seq(Svcs)
<1>1. stack \in Seq(Frames)
  BY DEF TypeOK
<1>2. /\ Top = stack[1] /\ Top \in Frames /\ 1 \in DOMAIN stack /\ DOMAIN stack = 1..Len(stack)
      /\ Len(stack) \in Nat /\ Len(stack) >= 1
  <2> HIDE DEF Frames
  <2> QED
    BY <1>1, HeadAndTail DEF Top
<1> QED
  BY <1>2, FrameTypes

\* What is known of the operation on top.
LEMMA TopFits ==
    ASSUME TypeOK, StackFits, stack # <<>>
    PROVE  /\ PlaceFits(Top.op, Top.svc, Top.at) /\ ListFits(Top.svc, Top.at, Top.todo)
           /\ Top.op \notin {"enable", "disable"} => Len(stack) = 1
<1>1. /\ Top = stack[1] /\ 1 \in DOMAIN stack /\ DOMAIN stack = 1..Len(stack) /\ Len(stack) \in Nat
  BY TopTypes
<1>2. PlaceFits(Top.op, Top.svc, Top.at) /\ ListFits(Top.svc, Top.at, Top.todo)
  BY <1>1 DEF StackFits
<1>3. ASSUME Len(stack) # 1 PROVE Top.op \in {"enable", "disable"}
  <2>1. 2 \in DOMAIN stack /\ 2 > 1 /\ 2 - 1 = 1
    BY <1>1, <1>3
  <2>2. Called(stack[2], stack[1])
    BY <2>1 DEF StackFits
  <2> QED
    BY <1>1, <2>2 DEF Called
<1> QED
  BY <1>2, <1>3

\* The operation on top goes on to a place of its own.
LEMMA StackAdvances ==
    ASSUME TypeOK, StackFits, stack # <<>>, NEW place \in Places, NEW list \in Seq(Svcs),
           Now(place, list), PlaceFits(Top.op, Top.svc, place), ListFits(Top.svc, place, list)
    PROVE  /\ stack' \in Seq(Frames) /\ stack' # <<>> /\ Len(stack') = Len(stack)
           /\ Top' = stack'[1] /\ stack'[1].op = Top.op /\ stack'[1].svc = Top.svc
           /\ stack'[1].at = place /\ stack'[1].todo = list /\ stack'[1].access = Top.access
           /\ \A k \in 2..Len(stack) : stack'[k] = stack[k]
           /\ StackFits'
<1> DEFINE g == [Top EXCEPT !.at = place, !.todo = list]
<1>1. /\ Top = stack[1] /\ DOMAIN stack = 1..Len(stack) /\ Len(stack) \in Nat
      /\ stack \in Seq(Frames) /\ Top \in Frames
  BY TopTypes DEF TypeOK
<1>2. /\ g \in Frames /\ g.op = Top.op /\ g.svc = Top.svc /\ g.at = place /\ g.todo = list
      /\ g.access = Top.access
  BY <1>1 DEF Frames
<1>3. stack' = <<g>> \o Tail(stack)
  BY DEF Now
<1> HIDE DEF g
<1>4. /\ stack' \in Seq(Frames) /\ stack' # <<>> /\ Len(stack') = Len(stack) /\ stack'[1] = g
      /\ \A k \in 2..Len(stack) : stack'[k] = stack[k]
  <2> HIDE DEF Frames
  <2> QED
    BY <1>1, <1>2, <1>3, PutOn
<1>5. Top' = stack'[1] /\ DOMAIN stack' = 1..Len(stack)
  <2>1. DOMAIN stack' = 1..Len(stack') /\ Head(stack') = stack'[1]
    <3> HIDE DEF Frames
    <3> QED
      BY <1>4, HeadAndTail
  <2> QED
    BY <1>4, <2>1 DEF Top
<1>6. ASSUME NEW k \in 1..Len(stack)
      PROVE  /\ PlaceFits(stack'[k].op, stack'[k].svc, stack'[k].at)
             /\ ListFits(stack'[k].svc, stack'[k].at, stack'[k].todo)
             /\ k > 1 => Called(stack'[k], stack'[k - 1])
             /\ \A j \in 1..(k - 1) : Above(stack'[k], stack'[j])
  <2>1. CASE k = 1
    BY <1>2, <1>4, <2>1
  <2>2. CASE k # 1
    <3>1. k \in 2..Len(stack) /\ k > 1 /\ k - 1 \in 1..Len(stack)
      BY <1>1, <2>2
    <3>2. stack'[k] = stack[k] /\ PlaceFits(stack[k].op, stack[k].svc, stack[k].at)
          /\ ListFits(stack[k].svc, stack[k].at, stack[k].todo) /\ Called(stack[k], stack[k - 1])
          /\ \A j \in 1..(k - 1) : Above(stack[k], stack[j])
      BY <1>1, <1>4, <3>1 DEF StackFits
    <3>3. \A j \in 1..(k - 1) : /\ j = 1 \/ j \in 2..Len(stack)
                                /\ stack'[j].op = stack[j].op /\ stack'[j].svc = stack[j].svc
      BY <1>1, <1>2, <1>4
    <3>4. k - 1 \in 1..(k - 1)
      BY <3>1
    <3>5. Called(stack[k], stack'[k - 1])
      BY <3>2, <3>3, <3>4 DEF Called
    <3>6. \A j \in 1..(k - 1) : Above(stack[k], stack'[j])
      BY <3>2, <3>3 DEF Above
    <3> QED
      BY <3>2, <3>5, <3>6
  <2> QED
    BY <2>1, <2>2
<1>7. StackFits'
  BY <1>5, <1>6 DEF StackFits
<1> QED
  BY <1>2, <1>4, <1>5, <1>7

\* The operation on top returns to the one that called it.
LEMMA StackReturns ==
    ASSUME TypeOK, StackFits, stack # <<>>, stack' = Tail(stack)
    PROVE  /\ stack' \in Seq(Frames) /\ Len(stack') = Len(stack) - 1
           /\ \A k \in 1..(Len(stack) - 1) : stack'[k] = stack[k + 1] /\ k + 1 \in DOMAIN stack
           /\ StackFits'
<1>1. /\ DOMAIN stack = 1..Len(stack) /\ Len(stack) \in Nat /\ stack \in Seq(Frames)
  BY TopTypes DEF TypeOK
<1>2. /\ stack' \in Seq(Frames) /\ Len(stack') = Len(stack) - 1
      /\ \A k \in 1..(Len(stack) - 1) : stack'[k] = stack[k + 1] /\ k + 1 \in DOMAIN stack
  <2> HIDE DEF Frames
  <2> QED
    BY <1>1, HeadAndTail
<1>3. DOMAIN stack' = 1..(Len(stack) - 1)
  <2> HIDE DEF Frames
  <2> QED
    BY <1>2
<1>4. ASSUME NEW k \in 1..(Len(stack) - 1)
      PROVE  /\ PlaceFits(stack'[k].op, stack'[k].svc, stack'[k].at)
             /\ ListFits(stack'[k].svc, stack'[k].at, stack'[k].todo)
             /\ k > 1 => Called(stack'[k], stack'[k - 1])
             /\ \A j \in 1..(k - 1) : Above(stack'[k], stack'[j])
  <2>1. /\ stack'[k] = stack[k + 1] /\ k + 1 \in DOMAIN stack /\ k + 1 > 1 /\ (k + 1) - 1 = k
        /\ k \in Nat
    BY <1>1, <1>2
  <2>2. /\ PlaceFits(stack[k + 1].op, stack[k + 1].svc, stack[k + 1].at)
        /\ ListFits(stack[k + 1].svc, stack[k + 1].at, stack[k + 1].todo)
        /\ Called(stack[k + 1], stack[k]) /\ \A j \in 1..k : Above(stack[k + 1], stack[j])
    BY <2>1 DEF StackFits
  <2>3. \A j \in 1..(k - 1) : j + 1 \in 1..k /\ j \in 1..(Len(stack) - 1) /\ stack'[j] = stack[j + 1]
    BY <1>1, <1>2, <2>1
  <2>4. k > 1 => k - 1 \in 1..(k - 1) /\ (k - 1) + 1 = k
    BY <2>1
  <2> QED
    BY <2>1, <2>2, <2>3, <2>4
<1>5. StackFits'
  BY <1>3, <1>4 DEF StackFits
<1> QED
  BY <1>2, <1>5

\* The operation on top calls another one for the next service of its list.
LEMMA StackCalls ==
    ASSUME TypeOK, StackFits, stack # <<>>, Top.at \in Callers, Top.todo # <<>>,
           NEW op, op = (IF Top.at = "provide" THEN "enable" ELSE "disable"),
           NEW h, h = Head(Top.todo),
           NEW f \in Frames, f.op = op, f.svc = h, f.at = op, f.todo = <<>>,
           NEW g \in Frames, g.op = Top.op, g.svc = Top.svc, g.at = Top.at, g.todo = Tail(Top.todo),
           stack' = <<f, g>> \o Tail(stack)
    PROVE  /\ stack' \in Seq(Frames) /\ stack' # <<>> /\ Len(stack') = Len(stack) + 1
           /\ Top' = stack'[1] /\ stack'[1].op = op /\ stack'[1].svc = h
           /\ stack'[1].at = op /\ stack'[1].todo = <<>>
           /\ stack'[2].op = Top.op /\ stack'[2].svc = Top.svc /\ stack'[2].at = Top.at
           /\ stack'[2].todo = Tail(Top.todo)
           /\ \A k \in 3..(Len(stack) + 1) : k - 1 \in 2..Len(stack) /\ stack'[k] = stack[k - 1]
           /\ StackFits'
<1>1. /\ Top = stack[1] /\ DOMAIN stack = 1..Len(stack) /\ Len(stack) \in Nat /\ Len(stack) >= 1
      /\ stack \in Seq(Frames) /\ Top \in Frames /\ Top.todo \in Seq(Svcs) /\ Top.svc \in Svcs
  BY TopTypes DEF TypeOK
<1>2. /\ h \in Svcs /\ h \in Members(Top.todo) /\ Tail(Top.todo) \in Seq(Svcs)
      /\ Members(Tail(Top.todo)) \subseteq Members(Top.todo)
  BY <1>1, MembersOf
<1>7. /\ stack' \in Seq(Frames) /\ stack' # <<>> /\ Len(stack') = Len(stack) + 1
      /\ stack'[1] = f /\ stack'[2] = g
      /\ \A k \in 3..(Len(stack) + 1) : k - 1 \in 2..Len(stack) /\ stack'[k] = stack[k - 1]
  <2> HIDE DEF Frames
  <2> QED
    BY <1>1, PutTwo
<1>8. DOMAIN stack' = 1..(Len(stack) + 1) /\ Top' = stack'[1]
  <2>1. DOMAIN stack' = 1..Len(stack') /\ Head(stack') = stack'[1]
    <3> HIDE DEF Frames
    <3> QED
      BY <1>7, HeadAndTail
  <2> QED
    BY <1>7, <2>1 DEF Top
<1>9. PlaceFits(Top.op, Top.svc, Top.at) /\ ListFits(Top.svc, Top.at, Top.todo)
  BY TopFits
<1>10. PlaceFits(op, h, op) /\ ListFits(h, op, <<>>)
  BY DEF PlaceFits, ListFits
<1>11. ListFits(Top.svc, Top.at, Tail(Top.todo))
  BY <1>2, <1>9 DEF ListFits
<1>12. Called(g, f) /\ Above(g, f)
  <2>1. Top.at = "make_room" => h \in Rivals(Top.svc)
    BY <1>2, <1>9 DEF ListFits
  <2>2. Top.at = "provide" => h \in Needs(Top.svc)
    BY <1>2, <1>9 DEF ListFits
  <2>3. Top.at = "clear" => h \in Users(Top.svc)
    BY <1>2, <1>9 DEF ListFits
  <2>4. Top.at = "provide" => h \in {"esm-infra", "esm-apps", "ros"}
    <3>1. Needs(Top.svc) \subseteq {"esm-infra", "esm-apps", "ros"}
      BY <1>1, Relations
    <3> QED
      BY <2>2, <3>1
  <2> QED
    BY <2>1, <2>2, <2>3, <2>4 DEF Called, Above, Callers
<1>13. ASSUME NEW e, Above(e, Top), e.at \in Callers PROVE Above(e, f)
  <2>1. CASE e.at = "provide"
    <3>1. Top.op = "enable" /\ Top.svc \in {"esm-infra", "esm-apps", "ros"}
      BY <1>13, <2>1 DEF Above
    <3>2. Top.at # "make_room"
      <4>1. Rivals(Top.svc) = {}
        BY <1>1, <3>1, Relations
      <4> QED
        BY <1>2, <1>9, <4>1 DEF ListFits
    <3>3. Top.at = "provide"
      BY <1>9, <3>1, <3>2 DEF PlaceFits, Callers
    <3> QED
      BY <1>12, <2>1, <3>3 DEF Above
  <2>2. CASE e.at \in {"make_room", "clear"}
    <3>1. Top.op = "disable"
      BY <1>13, <2>2 DEF Above
    <3>2. Top.at = "clear"
      BY <1>9, <3>1 DEF PlaceFits, Callers
    <3> QED
      BY <2>2, <3>2 DEF Above
  <2> QED
    BY <1>13, <2>1, <2>2 DEF Callers
<1>14. ASSUME NEW k \in 1..(Len(stack) + 1)
      PROVE  /\ PlaceFits(stack'[k].op, stack'[k].svc, stack'[k].at)
             /\ ListFits(stack'[k].svc, stack'[k].at, stack'[k].todo)
             /\ k > 1 => Called(stack'[k], stack'[k - 1])
             /\ \A j \in 1..(k - 1) : Above(stack'[k], stack'[j])
  <2>1. CASE k = 1
    <3>1. stack'[k] = f /\ ~(k > 1) /\ \A j \in 1..(k - 1) : FALSE
      BY <1>7, <2>1
    <3> QED
      BY <1>10, <3>1
  <2>2. CASE k = 2
    <3>1. stack'[k] = g /\ stack'[k - 1] = f /\ \A j \in 1..(k - 1) : stack'[j] = f
      BY <1>7, <2>2
    <3> QED
      BY <1>9, <1>11, <1>12, <3>1
  <2>3. CASE k \notin {1, 2}
    <3>1. k \in 3..(Len(stack) + 1) /\ k - 1 \in 2..Len(stack) /\ k - 1 > 1 /\ stack'[k] = stack[k - 1]
          /\ k \in Nat
      BY <1>1, <1>7, <2>3
    <3>2. /\ PlaceFits(stack[k - 1].op, stack[k - 1].svc, stack[k - 1].at)
          /\ ListFits(stack[k - 1].svc, stack[k - 1].at, stack[k - 1].todo)
          /\ Called(stack[k - 1], stack[(k - 1) - 1])
          /\ \A j \in 1..((k - 1) - 1) : Above(stack[k - 1], stack[j])
      <4>1. k - 1 \in DOMAIN stack
        BY <1>1, <3>1
      <4> QED
        BY <3>1, <4>1 DEF StackFits
    <3>3. stack[k - 1].at \in Callers
      BY <3>2 DEF Called, Callers
    <3>4. 1 \in 1..((k - 1) - 1)
      BY <3>1
    <3>5. Above(stack[k - 1], g) /\ Above(stack[k - 1], f)
      <4>1. Above(stack[k - 1], Top)
        BY <1>1, <3>2, <3>4
      <4> QED
        BY <1>13, <3>3, <4>1 DEF Above
    <3>6. ASSUME NEW j \in 1..(k - 1) PROVE Above(stack[k - 1], stack'[j])
      <4>1. CASE j \in {1, 2}
        BY <1>7, <3>5, <4>1
      <4>2. CASE j \notin {1, 2}
        <5>1. j \in 3..(Len(stack) + 1) /\ j - 1 \in 1..((k - 1) - 1)
          BY <1>1, <3>1, <4>2
        <5> QED
          BY <1>7, <3>2, <5>1
      <4> QED
        BY <4>1, <4>2
    <3>7. Called(stack[k - 1], stack'[k - 1])
      <4>1. CASE k = 3
        <5>1. stack'[k - 1] = g /\ stack[(k - 1) - 1] = Top
          BY <1>1, <1>7, <4>1
        <5> QED
          BY <3>2, <5>1 DEF Called
      <4>2. CASE k # 3
        <5>1. k - 1 \in 3..(Len(stack) + 1)
          BY <1>1, <3>1, <4>2
        <5> QED
          BY <1>7, <3>2, <5>1
      <4> QED
        BY <4>1, <4>2
    <3> QED
      BY <3>1, <3>2, <3>6, <3>7
  <2> QED
    BY <2>1, <2>2, <2>3
<1>15. StackFits'
  BY <1>8, <1>14 DEF StackFits
<1> QED
  BY <1>7, <1>8, <1>15

\* A command starts an operation.
LEMMA StackStarts ==
    ASSUME TypeOK, stack = <<>>, NEW op \in Ops, NEW s \in Svcs, NEW place \in Places,
           NEW access \in BOOLEAN, Push(Frame(op, s, place, access, <<>>)), PlaceFits(op, s, place)
    PROVE  /\ stack' \in Seq(Frames) /\ stack' # <<>> /\ Len(stack') = 1 /\ DOMAIN stack' = 1..1
           /\ Top' = stack'[1] /\ stack'[1].op = op /\ stack'[1].svc = s /\ stack'[1].at = place
           /\ stack'[1].todo = <<>>
           /\ StackFits'
<1> DEFINE f == Frame(op, s, place, access, <<>>)
<1>1. <<>> \in Seq(Svcs)
  OBVIOUS
<1>2. f \in Frames /\ f.op = op /\ f.svc = s /\ f.at = place /\ f.todo = <<>>
  BY <1>1, NewFrame
<1>3. stack' = <<f>>
  BY DEF Push
<1> HIDE DEF f
<1>4. /\ stack' \in Seq(Frames) /\ stack' # <<>> /\ Len(stack') = 1 /\ DOMAIN stack' = 1..1
      /\ Head(stack') = f /\ stack'[1] = f
  <2> HIDE DEF Frames
  <2> QED
    BY <1>2, <1>3
<1>5. Top' = stack'[1]
  BY <1>4 DEF Top
<1>6. ListFits(s, place, <<>>)
  BY DEF ListFits, Members
<1>7. StackFits'
  BY <1>2, <1>4, <1>6 DEF StackFits
<1> QED
  BY <1>2, <1>4, <1>5, <1>7

LEMMA StackEmpties ==
    ASSUME stack' = <<>> PROVE stack' \in Seq(Frames) /\ StackFits' /\ Len(stack') = 0
<1> HIDE DEF Frames
<1> QED
  BY DEF StackFits

-----------------------------------------------------------------------------
(* The shape of the stack, of the command and of the token at every step of an operation. *)

\* What the shape invariant says of an operation that runs.
LEMMA Inner ==
    ASSUME ShapeInv, stack # <<>>
    PROVE  /\ TypeOK /\ StackFits /\ CommandFits /\ GrantsFit
           /\ Top = stack[1] /\ Top \in Frames /\ 1 \in DOMAIN stack /\ DOMAIN stack = 1..Len(stack)
           /\ Len(stack) \in Nat /\ Len(stack) >= 1
           /\ Top.op \in Ops /\ Top.svc \in Svcs /\ Top.at \in Places /\ Top.access \in BOOLEAN
           /\ Top.todo \in Seq(Svcs)
           /\ PlaceFits(Top.op, Top.svc, Top.at) /\ ListFits(Top.svc, Top.at, Top.todo)
           /\ Top.op \notin {"enable", "disable"} => Len(stack) = 1
           /\ attached
<1>1. TypeOK /\ StackFits /\ CommandFits /\ GrantsFit
  BY DEF ShapeInv
<1>2. attached
  BY <1>1 DEF CommandFits
<1> QED
  BY <1>1, <1>2, TopTypes, TopFits

\* It goes on: its command fits.
LEMMA Advances ==
    ASSUME ShapeInv, stack # <<>>, NEW place \in Places, NEW list \in Seq(Svcs),
           Now(place, list), PlaceFits(Top.op, Top.svc, place), ListFits(Top.svc, place, list),
           at' = at, attached' = attached,
           at = "upgrade" => place \in {"uninstall", "unconfigure"}
    PROVE  /\ stack' \in Seq(Frames) /\ StackFits' /\ CommandFits' /\ stack' # <<>>
           /\ Top'.op = Top.op /\ Top'.svc = Top.svc /\ Top'.at = place
<1>1. /\ stack' \in Seq(Frames) /\ stack' # <<>> /\ Len(stack') = Len(stack)
      /\ Top' = stack'[1] /\ stack'[1].op = Top.op /\ stack'[1].svc = Top.svc
      /\ stack'[1].at = place
      /\ \A k \in 2..Len(stack) : stack'[k] = stack[k]
      /\ StackFits'
  BY StackAdvances DEF ShapeInv
<1>2. Top = stack[1] /\ DOMAIN stack = 1..Len(stack) /\ Len(stack) \in Nat /\ CommandFits
  BY Inner
<1>3. DOMAIN stack' = 1..Len(stack)
  <2> HIDE DEF Frames
  <2> QED
    BY <1>1
<1>4. at = "detach" => \A k \in DOMAIN stack' : stack'[k].op = "disable"
  <2>1. \A k \in 1..Len(stack) : k = 1 \/ k \in 2..Len(stack)
    BY <1>2
  <2>2. \A k \in 1..Len(stack) : stack'[k].op = stack[k].op
    BY <1>1, <1>2, <2>1
  <2> QED
    BY <1>2, <1>3, <2>2 DEF CommandFits
<1>5. at = "upgrade" => Len(stack') = 1 /\ Top'.op = "disable"
                        /\ Top'.at \in {"uninstall", "unconfigure"}
  BY <1>1, <1>2 DEF CommandFits
<1>6. CommandFits'
  BY <1>2, <1>4, <1>5 DEF CommandFits
<1> QED
  BY <1>1, <1>6

\* It returns.
LEMMA Returns ==
    ASSUME ShapeInv, stack # <<>>, stack' = Tail(stack), at' = at, attached' = attached
    PROVE  /\ stack' \in Seq(Frames) /\ StackFits' /\ CommandFits'
           /\ stack' # <<>> => Top'.at \in Callers
<1>1. /\ stack' \in Seq(Frames) /\ Len(stack') = Len(stack) - 1
      /\ \A k \in 1..(Len(stack) - 1) : stack'[k] = stack[k + 1] /\ k + 1 \in DOMAIN stack
      /\ StackFits'
  BY StackReturns DEF ShapeInv
<1>2. /\ Top = stack[1] /\ DOMAIN stack = 1..Len(stack) /\ Len(stack) \in Nat /\ Len(stack) >= 1
      /\ CommandFits /\ StackFits
  BY Inner
<1>3. DOMAIN stack' = 1..(Len(stack) - 1)
  <2> HIDE DEF Frames
  <2> QED
    BY <1>1
<1>4. at = "detach" => \A k \in DOMAIN stack' : stack'[k].op = "disable"
  BY <1>1, <1>2, <1>3 DEF CommandFits
<1>5. at = "upgrade" => stack' = <<>>
  <2>1. at = "upgrade" => Len(stack) = 1
    BY <1>2 DEF CommandFits
  <2> HIDE DEF Frames
  <2> QED
    BY <1>1, <2>1
<1>6. CommandFits'
  BY <1>2, <1>4, <1>5 DEF CommandFits
<1>7. ASSUME stack' # <<>> PROVE Top'.at \in Callers
  <2>1. /\ Head(stack') = stack'[1] /\ Len(stack') >= 1
    <3> HIDE DEF Frames
    <3> QED
      BY <1>1, <1>7, HeadAndTail
  <2>2. 1 \in 1..(Len(stack) - 1) /\ 2 \in DOMAIN stack /\ 2 > 1 /\ 1 + 1 = 2 /\ 2 - 1 = 1
    BY <1>1, <1>2, <2>1
  <2>3. stack'[1] = stack[2] /\ Called(stack[2], stack[1])
    BY <1>1, <1>2, <2>2 DEF StackFits
  <2> QED
    BY <2>1, <2>3 DEF Top, Called, Callers
<1> QED
  BY <1>1, <1>6, <1>7

\* It ends, and all that called it.
LEMMA Unwinds ==
    ASSUME ShapeInv, stack # <<>>, stack' = <<>>, at' = at, attached' = attached
    PROVE  stack' \in Seq(Frames) /\ StackFits' /\ CommandFits'
<1>1. CommandFits /\ DOMAIN stack' = {}
  BY Inner
<1>2. CommandFits'
  BY <1>1 DEF CommandFits
<1> QED
  BY <1>2, StackEmpties

\* It calls another one.
LEMMA Calls ==
    ASSUME ShapeInv, Descend, Top.todo # <<>>
    PROVE  /\ stack' \in Seq(Frames) /\ StackFits' /\ CommandFits' /\ stack' # <<>>
           /\ Len(stack') = Len(stack) + 1 /\ Top' = stack'[1]
           /\ Top'.op = (IF Top.at = "provide" THEN "enable" ELSE "disable")
           /\ Top'.svc = Head(Top.todo) /\ Top'.at = Top'.op /\ Top'.todo = <<>>
           /\ stack'[2].op = Top.op /\ stack'[2].svc = Top.svc /\ stack'[2].at = Top.at
           /\ stack'[2].todo = Tail(Top.todo)
           /\ \A k \in 3..(Len(stack) + 1) : k - 1 \in 2..Len(stack) /\ stack'[k] = stack[k - 1]
<1> DEFINE op == IF Top.at = "provide" THEN "enable" ELSE "disable"
           h == Head(Top.todo)
           f == Frame(op, h, op, FALSE, <<>>)
           g == [Top EXCEPT !.todo = Tail(@)]
<1>1. stack # <<>> /\ Top.at \in Callers /\ at' = at /\ attached' = attached
  BY DEF Descend, Running, Callers, Inside, control
<1>2. stack' = <<f, g>> \o Tail(stack)
  BY DEF Descend
<1>3. /\ Top \in Frames /\ Top.todo \in Seq(Svcs) /\ CommandFits /\ TypeOK /\ StackFits
      /\ PlaceFits(Top.op, Top.svc, Top.at) /\ Top = stack[1] /\ DOMAIN stack = 1..Len(stack)
      /\ Len(stack) \in Nat /\ Len(stack) >= 1
  BY <1>1, Inner
<1>4. h \in Svcs /\ Tail(Top.todo) \in Seq(Svcs)
  BY <1>3, MembersOf
<1>5. /\ g \in Frames /\ g.op = Top.op /\ g.svc = Top.svc /\ g.at = Top.at /\ g.todo = Tail(Top.todo)
  BY <1>3, <1>4 DEF Frames
<1>6. op \in Ops /\ op \in Places /\ op = (IF Top.at = "provide" THEN "enable" ELSE "disable")
      /\ h = Head(Top.todo)
  BY DEF Ops, Places
<1>7. f \in Frames /\ f.op = op /\ f.svc = h /\ f.at = op /\ f.todo = <<>>
  <2>1. <<>> \in Seq(Svcs)
    OBVIOUS
  <2> HIDE DEF h, op
  <2> QED
    BY <1>4, <1>6, <2>1 DEF Frame, Frames
<1> HIDE DEF op, h, f, g
<1>8. /\ stack' \in Seq(Frames) /\ stack' # <<>> /\ Len(stack') = Len(stack) + 1
      /\ Top' = stack'[1] /\ stack'[1].op = op /\ stack'[1].svc = h
      /\ stack'[1].at = op /\ stack'[1].todo = <<>>
      /\ stack'[2].op = Top.op /\ stack'[2].svc = Top.svc /\ stack'[2].at = Top.at
      /\ stack'[2].todo = Tail(Top.todo)
      /\ \A k \in 3..(Len(stack) + 1) : k - 1 \in 2..Len(stack) /\ stack'[k] = stack[k - 1]
      /\ StackFits'
  <2> HIDE DEF Frames
  <2> QED
    BY <1>1, <1>2, <1>3, <1>5, <1>6, <1>7, StackCalls
<1>9. ASSUME at = "detach" PROVE \A k \in DOMAIN stack' : stack'[k].op = "disable"
  <2>1. \A k \in DOMAIN stack : stack[k].op = "disable"
    BY <1>3, <1>9 DEF CommandFits
  <2>2. Top.op = "disable" /\ op = "disable"
    BY <1>3, <1>6, <2>1 DEF PlaceFits
  <2>3. DOMAIN stack' = 1..(Len(stack) + 1)
    <3> HIDE DEF Frames
    <3> QED
      BY <1>8
  <2>4. ASSUME NEW k \in 1..(Len(stack) + 1) PROVE stack'[k].op = "disable"
    <3>1. CASE k \in {1, 2}
      BY <1>8, <2>2, <3>1
    <3>2. CASE k \notin {1, 2}
      <4>1. k \in 3..(Len(stack) + 1)
        BY <1>3, <3>2
      <4>2. k - 1 \in DOMAIN stack /\ stack'[k] = stack[k - 1]
        BY <1>3, <1>8, <4>1
      <4> QED
        BY <2>1, <4>2
    <3> QED
      BY <3>1, <3>2
  <2> QED
    BY <2>3, <2>4
<1>10. at # "upgrade"
  BY <1>1, <1>3 DEF CommandFits, Callers
<1>11. CommandFits'
  BY <1>1, <1>3, <1>9, <1>10 DEF CommandFits
<1> QED
  BY <1>6, <1>8, <1>11

Causes == {"nothing", "lost_source", "stale_cache", "kernel", "preview", "contract", "upgrade", "crash"}
Sources == [Svcs -> Urls \cup {Absent, "commented"}]

\* A step of an operation, from its parts.
LEMMA ShapeInside ==
    ASSUME ShapeInv, Inside,
           stack' \in Seq(Frames), StackFits', CommandFits', result' \in {"ok", "no", "raise"},
           source' \in Sources, listed' \subseteq Listed(source'), packages' \subseteq Packages,
           livepatch' \in BOOLEAN, once' \in BOOLEAN, hidden' \in Causes,
           Running("update")' => Present(Top.svc)',
           Running("unconfigure")' => Brings(Top'.svc) \cap packages' = {}
    PROVE  ShapeInv'
<1>1. TypeOK /\ GrantsFit
  BY DEF ShapeInv
<1>2. TypeOK'
  BY <1>1 DEF TypeOK, Inside, token, host, control, Causes, Sources
<1>3. GrantsFit'
  BY <1>1 DEF GrantsFit, Inside, token
<1> QED
  BY <1>2, <1>3 DEF ShapeInv

\* The same when the machine stays as it is and the operation does not touch its source.
LEMMA ShapeSteady ==
    ASSUME ShapeInv, Inside, UNCHANGED <<machine, once, hidden>>,
           stack' \in Seq(Frames), StackFits', CommandFits', result' \in {"ok", "no", "raise"},
           stack' # <<>> => Top'.at \notin {"update", "unconfigure"}
    PROVE  ShapeInv'
<1>1. /\ source' \in Sources /\ listed' \subseteq Listed(source') /\ packages' \subseteq Packages
      /\ livepatch' \in BOOLEAN /\ once' \in BOOLEAN /\ hidden' \in Causes
  BY DEF ShapeInv, TypeOK, Causes, Sources, machine
<1>2. ~Running("update")' /\ ~Running("unconfigure")'
  BY DEF Running
<1> QED
  BY <1>1, <1>2, ShapeInside

\* The operation that runs keeps its command.
LEMMA Stays ==
    ASSUME Inside PROVE at' = at /\ attached' = attached /\ world' = world /\ grant' = grant
                        /\ url' = url /\ kernel' = kernel /\ upgraded' = upgraded /\ todo' = todo
                        /\ command' = command
BY DEF Inside, control, token, host

\* An operation that is not of the kind "disable" does not run for a release upgrade.
LEMMA NotUpgrade ==
    ASSUME ShapeInv, stack # <<>>, at = "upgrade"
    PROVE  Top.op = "disable" /\ Top.at \in {"uninstall", "unconfigure"} /\ Len(stack) = 1
BY Inner DEF CommandFits

LEMMA TryEnableShape == ASSUME ShapeInv, TryEnable PROVE ShapeInv'
<1>1. stack # <<>> /\ Top.at = "enable" /\ Inside /\ UNCHANGED <<machine, once, hidden>>
  BY DEF TryEnable, Running
<1>2. at' = at /\ attached' = attached /\ at # "upgrade" /\ result \in {"ok", "no", "raise"}
  BY <1>1, Stays, NotUpgrade DEF ShapeInv, TypeOK
<1>3. Top.svc \in Svcs /\ PlaceFits(Top.op, Top.svc, Top.at)
  BY <1>1, Inner
<1>4. Top.op = "enable"
  BY <1>1, <1>3 DEF PlaceFits
<1>5. CASE Unwind("no")
  BY <1>1, <1>2, <1>5, Unwinds, ShapeSteady DEF Unwind
<1>6. CASE /\ Now("make_room", BlockingIncompatible(Top.svc)) /\ UNCHANGED result
           /\ BlockingIncompatible(Top.svc) # <<>>
  <2>1. /\ BlockingIncompatible(Top.svc) \in Seq(Svcs)
        /\ Members(BlockingIncompatible(Top.svc)) \subseteq Rivals(Top.svc) /\ Rivals(Top.svc) # {}
    BY <1>3, <1>6, Relations, Selected, MembersOf DEF BlockingIncompatible, Rivals
  <2>2. /\ PlaceFits(Top.op, Top.svc, "make_room") /\ "make_room" \in Places
        /\ ListFits(Top.svc, "make_room", BlockingIncompatible(Top.svc))
    BY <1>4, <2>1 DEF PlaceFits, ListFits, Places
  <2> QED
    BY <1>1, <1>2, <1>6, <2>1, <2>2, Advances, ShapeSteady
<1>7. CASE /\ Now("provide", BlockingRequired(Top.svc)) /\ UNCHANGED result
           /\ BlockingRequired(Top.svc) # <<>>
  <2>1. /\ BlockingRequired(Top.svc) \in Seq(Svcs)
        /\ Members(BlockingRequired(Top.svc)) \subseteq Needs(Top.svc) /\ Needs(Top.svc) # {}
    BY <1>3, <1>7, Relations, Selected, MembersOf DEF BlockingRequired, Needs
  <2>2. /\ PlaceFits(Top.op, Top.svc, "provide") /\ "provide" \in Places
        /\ ListFits(Top.svc, "provide", BlockingRequired(Top.svc))
    BY <1>4, <2>1 DEF PlaceFits, ListFits, Places
  <2> QED
    BY <1>1, <1>2, <1>7, <2>1, <2>2, Advances, ShapeSteady
<1>8. CASE Now("apply", <<>>) /\ UNCHANGED result
  <2>1. /\ PlaceFits(Top.op, Top.svc, "apply") /\ "apply" \in Places /\ <<>> \in Seq(Svcs)
        /\ ListFits(Top.svc, "apply", <<>>)
    BY <1>4 DEF PlaceFits, ListFits, Places
  <2> QED
    BY <1>1, <1>2, <1>8, <2>1, Advances, ShapeSteady
<1> QED
  BY <1>5, <1>6, <1>7, <1>8 DEF TryEnable

LEMMA DescendShape == ASSUME ShapeInv, Descend PROVE ShapeInv'
<1>1. /\ stack # <<>> /\ Top.at \in Callers /\ Inside /\ UNCHANGED <<machine, once, hidden>>
      /\ result' = result
  BY DEF Descend, Running, Callers
<1>2. at' = at /\ attached' = attached /\ at # "upgrade" /\ result \in {"ok", "no", "raise"}
  BY <1>1, Stays, NotUpgrade DEF ShapeInv, TypeOK, Callers
<1>3. Top.svc \in Svcs /\ PlaceFits(Top.op, Top.svc, Top.at)
  BY <1>1, Inner
<1>4. CASE Top.todo = <<>>
  <2> DEFINE place == IF Top.at = "clear" THEN "uninstall" ELSE "apply"
  <2>1. Now(place, <<>>)
    BY <1>4 DEF Descend
  <2>2. /\ PlaceFits(Top.op, Top.svc, place) /\ place \in Places /\ <<>> \in Seq(Svcs)
        /\ ListFits(Top.svc, place, <<>>) /\ place \notin {"update", "unconfigure"}
    BY <1>1, <1>3 DEF PlaceFits, ListFits, Places, Callers
  <2> HIDE DEF place
  <2> QED
    BY <1>1, <1>2, <2>1, <2>2, Advances, ShapeSteady
<1>5. CASE Top.todo # <<>>
  <2>1. /\ stack' \in Seq(Frames) /\ StackFits' /\ CommandFits'
        /\ Top'.at \in {"enable", "disable"}
    BY <1>5, Calls
  <2> QED
    BY <1>1, <1>2, <2>1, ShapeSteady
<1> QED
  BY <1>4, <1>5

\* What the type invariant says of the machine.
LEMMA MachineTypes ==
    ASSUME ShapeInv
    PROVE  /\ source \in Sources /\ listed \subseteq Listed(source) /\ packages \subseteq Packages
           /\ livepatch \in BOOLEAN /\ once \in BOOLEAN /\ hidden \in Causes
           /\ result \in {"ok", "no", "raise"} /\ grant \in [Svcs -> Grants]
           /\ url \in [Svcs -> Urls] /\ world \subseteq Svcs /\ todo \in Seq(Svcs)
           /\ stack \in Seq(Frames)
BY DEF ShapeInv, TypeOK, Causes, Sources

LEMMA SourceGoes ==
    ASSUME ShapeInv, NEW t \in Svcs, source' = [source EXCEPT ![t] = Absent],
           listed' \in {listed \ {t}, Listed(source')}
    PROVE  /\ source' \in Sources /\ listed' \subseteq Listed(source')
           /\ source'[t] = Absent /\ \A s \in Svcs \ {t} : source'[s] = source[s]
<1>1. source \in Sources /\ listed \subseteq Listed(source)
  BY MachineTypes
<1>2. source' \in Sources /\ source'[t] = Absent /\ \A s \in Svcs \ {t} : source'[s] = source[s]
  BY <1>1 DEF Sources
<1>3. listed \ {t} \subseteq Listed(source')
  BY <1>1, <1>2 DEF Listed, Repos
<1> QED
  BY <1>2, <1>3

LEMMA SourceComes ==
    ASSUME ShapeInv, NEW t \in Repos, source' = [source EXCEPT ![t] = url[t]]
    PROVE  /\ source' \in Sources /\ listed \subseteq Listed(source')
           /\ source'[t] = url[t] /\ source'[t] \in Urls
           /\ \A s \in Svcs \ {t} : source'[s] = source[s]
<1>1. source \in Sources /\ listed \subseteq Listed(source) /\ url \in [Svcs -> Urls] /\ t \in Svcs
  BY MachineTypes DEF Repos
<1>2. /\ source' \in Sources /\ source'[t] = url[t] /\ url[t] \in Urls
      /\ \A s \in Svcs \ {t} : source'[s] = source[s]
  BY <1>1 DEF Sources
<1>3. listed \subseteq Listed(source')
  BY <1>1, <1>2 DEF Listed, Repos
<1> QED
  BY <1>2, <1>3

LEMMA HideTypes ==
    ASSUME hidden \in Causes, NEW cause \in Causes, NEW cond, Hide(cause, cond)
    PROVE  hidden' \in Causes
BY DEF Hide

LEMMA BringsTypes == \A s \in Svcs : Brings(s) \subseteq Packages
BY DEF Brings, Packages

LEMMA EnableLivepatchShape == ASSUME ShapeInv, EnableLivepatch PROVE ShapeInv'
<1>1. /\ stack # <<>> /\ Top.at = "apply" /\ Top.svc = "livepatch" /\ Inside
      /\ UNCHANGED <<source, listed, packages, once, hidden>>
  BY DEF EnableLivepatch, Running
<1>2. at' = at /\ attached' = attached
  BY <1>1, Stays
<1>3. /\ source' \in Sources /\ listed' \subseteq Listed(source') /\ packages' \subseteq Packages
      /\ once' \in BOOLEAN /\ hidden' \in Causes /\ livepatch \in BOOLEAN
  BY <1>1, MachineTypes
<1>4. CASE livepatch' = TRUE /\ Done
  <2>1. /\ stack' \in Seq(Frames) /\ StackFits' /\ CommandFits' /\ result' \in {"ok", "no", "raise"}
        /\ stack' # <<>> => Top'.at \in Callers
    BY <1>1, <1>2, <1>4, Returns DEF Done
  <2>2. ~Running("update")' /\ ~Running("unconfigure")'
    BY <2>1 DEF Running, Callers
  <2> QED
    BY <1>1, <1>3, <1>4, <2>1, <2>2, ShapeInside
<1>5. CASE \E how \in {"no", "raise"} : Unwind(how) /\ livepatch' \in {livepatch, FALSE}
  <2>1. /\ stack' = <<>> /\ stack' \in Seq(Frames) /\ StackFits' /\ CommandFits'
        /\ result' \in {"ok", "no", "raise"} /\ livepatch' \in BOOLEAN
    BY <1>1, <1>2, <1>3, <1>5, Unwinds DEF Unwind
  <2>2. ~Running("update")' /\ ~Running("unconfigure")'
    BY <2>1 DEF Running
  <2> QED
    BY <1>1, <1>3, <2>1, <2>2, ShapeInside
<1> QED
  BY <1>4, <1>5 DEF EnableLivepatch

\* Removing the source ends everything.
LEMMA DropSourceShape ==
    ASSUME ShapeInv, stack # <<>>, Inside, DropSource, UNCHANGED <<packages, livepatch, once>>
    PROVE  ShapeInv'
<1>1. Top.svc \in Svcs /\ at' = at /\ attached' = attached
  BY Inner, Stays
<1>2. /\ source' = [source EXCEPT ![Top.svc] = Absent]
      /\ listed' \in {listed \ {Top.svc}, Listed(source')} /\ Unwind("raise")
      /\ Hide("lost_source", Brings(Top.svc) \cap packages # {})
  BY DEF DropSource
<1>3. source' \in Sources /\ listed' \subseteq Listed(source')
  BY <1>1, <1>2, SourceGoes
<1>4. /\ packages' \subseteq Packages /\ once' \in BOOLEAN /\ livepatch' \in BOOLEAN
      /\ hidden \in Causes /\ "lost_source" \in Causes
  BY MachineTypes DEF Causes
<1>5. hidden' \in Causes
  BY <1>2, <1>4, HideTypes
<1>6. /\ stack' = <<>> /\ stack' \in Seq(Frames) /\ StackFits' /\ CommandFits'
      /\ result' \in {"ok", "no", "raise"}
  BY <1>1, <1>2, Unwinds DEF Unwind
<1>7. ~Running("update")' /\ ~Running("unconfigure")'
  BY <1>6 DEF Running
<1> QED
  BY <1>3, <1>4, <1>5, <1>6, <1>7, ShapeInside

LEMMA WriteSourceShape == ASSUME ShapeInv, WriteSource PROVE ShapeInv'
<1>1. /\ stack # <<>> /\ Top.at = "apply" /\ Top.svc \in Repos /\ Inside
      /\ UNCHANGED <<packages, livepatch, once>>
  BY DEF WriteSource, Running
<1>2. at' = at /\ attached' = attached /\ at # "upgrade" /\ Top.svc \in Svcs
      /\ PlaceFits(Top.op, Top.svc, Top.at)
  BY <1>1, Stays, NotUpgrade, Inner
<1>3. /\ packages' \subseteq Packages /\ once' \in BOOLEAN /\ livepatch' \in BOOLEAN
      /\ result \in {"ok", "no", "raise"} /\ hidden \in Causes
      /\ source \in Sources /\ listed \subseteq Listed(source)
  BY <1>1, MachineTypes
<1>4. CASE /\ source' = [source EXCEPT ![Top.svc] = url[Top.svc]]
           /\ Now("update", <<>>) /\ UNCHANGED <<listed, result>>
           /\ LET preview == Top.svc = "fips-updates" /\ Present("fips-preview")
              IN  Hide(IF preview THEN "preview" ELSE "kernel",
                       preview \/ (kernel = "0" /\ Top.svc \in Fips))
  <2>1. /\ source' \in Sources /\ listed' \subseteq Listed(source') /\ source'[Top.svc] \in Urls
    BY <1>1, <1>4, SourceComes
  <2>2. hidden' \in Causes
    BY <1>3, <1>4 DEF Hide, Causes
  <2>3. /\ PlaceFits(Top.op, Top.svc, "update") /\ "update" \in Places /\ <<>> \in Seq(Svcs)
        /\ ListFits(Top.svc, "update", <<>>)
    BY <1>1, <1>2 DEF PlaceFits, ListFits, Places, Repos
  <2>4. /\ stack' \in Seq(Frames) /\ StackFits' /\ CommandFits' /\ stack' # <<>>
        /\ Top'.svc = Top.svc /\ Top'.at = "update"
    BY <1>1, <1>2, <1>4, <2>3, Advances
  <2>5. Running("update")' => Present(Top.svc)'
    BY <1>1, <2>1, <2>4 DEF Present, Repos
  <2>6. ~Running("unconfigure")'
    BY <2>4 DEF Running
  <2> QED
    BY <1>1, <1>3, <1>4, <2>1, <2>2, <2>4, <2>5, <2>6, ShapeInside
<1>5. CASE Unwind("raise") /\ UNCHANGED <<source, listed, hidden>>
  BY <1>1, <1>2, <1>5, Unwinds, ShapeSteady DEF Unwind, machine
<1>6. CASE DropSource
  BY <1>1, <1>6, DropSourceShape
<1> QED
  BY <1>4, <1>5, <1>6 DEF WriteSource

LEMMA UpdateListsShape == ASSUME ShapeInv, UpdateLists PROVE ShapeInv'
<1>1. /\ stack # <<>> /\ Top.at = "update" /\ Inside /\ UNCHANGED <<packages, livepatch, once>>
  BY DEF UpdateLists, Running
<1>2. /\ at' = at /\ attached' = attached /\ at # "upgrade" /\ Top.svc \in Svcs
      /\ PlaceFits(Top.op, Top.svc, Top.at)
  BY <1>1, Stays, NotUpgrade, Inner
<1>3. /\ packages' \subseteq Packages /\ once' \in BOOLEAN /\ livepatch' \in BOOLEAN
      /\ result \in {"ok", "no", "raise"} /\ hidden \in Causes
      /\ source \in Sources /\ listed \subseteq Listed(source)
  BY <1>1, MachineTypes
<1>4. Top.svc # "livepatch" /\ Present(Top.svc)
  BY <1>1, <1>2 DEF PlaceFits, ShapeInv, GrantsFit, Running
<1>5. ASSUME listed' = listed \cup {Top.svc}, UNCHANGED <<source, hidden>>
      PROVE  /\ source' \in Sources /\ listed' \subseteq Listed(source') /\ hidden' \in Causes
  BY <1>2, <1>3, <1>4, <1>5 DEF Listed, Present, Repos
<1>6. CASE /\ listed' = listed \cup {Top.svc} /\ Top.op = "set_up" /\ Done
           /\ UNCHANGED <<source, hidden>>
  <2>1. /\ stack' \in Seq(Frames) /\ StackFits' /\ CommandFits' /\ result' \in {"ok", "no", "raise"}
        /\ stack' # <<>> => Top'.at \in Callers
    BY <1>1, <1>2, <1>6, Returns DEF Done
  <2>2. ~Running("update")' /\ ~Running("unconfigure")'
    BY <2>1 DEF Running, Callers
  <2> QED
    BY <1>1, <1>3, <1>5, <1>6, <2>1, <2>2, ShapeInside
<1>7. CASE /\ listed' = listed \cup {Top.svc} /\ Top.op # "set_up" /\ UNCHANGED result
           /\ Now(IF Top.access THEN "record" ELSE "install", <<>>)
           /\ UNCHANGED <<source, hidden>>
  <2> DEFINE place == IF Top.access THEN "record" ELSE "install"
  <2>1. Now(place, <<>>) /\ place \in {"record", "install"}
    BY <1>7
  <2> HIDE DEF place
  <2>2. /\ PlaceFits(Top.op, Top.svc, place) /\ place \in Places /\ <<>> \in Seq(Svcs)
        /\ ListFits(Top.svc, place, <<>>)
    BY <1>1, <1>2, <1>4, <1>7, <2>1 DEF PlaceFits, ListFits, Places
  <2>3. /\ stack' \in Seq(Frames) /\ StackFits' /\ CommandFits' /\ Top'.at = place
    BY <1>1, <1>2, <2>1, <2>2, Advances
  <2>4. ~Running("update")' /\ ~Running("unconfigure")'
    BY <2>1, <2>3 DEF Running
  <2> QED
    BY <1>1, <1>3, <1>5, <1>7, <2>3, <2>4, ShapeInside
<1>8. CASE /\ source' = [source EXCEPT ![Top.svc] = Absent] /\ listed' = listed \ {Top.svc}
           /\ Hide("lost_source", Brings(Top.svc) \cap packages # {}) /\ Unwind("raise")
  <2>1. DropSource
    BY <1>8 DEF DropSource
  <2> QED
    BY <1>1, <2>1, DropSourceShape
<1> QED
  BY <1>6, <1>7, <1>8 DEF UpdateLists

LEMMA InstallPackagesShape == ASSUME ShapeInv, InstallPackages PROVE ShapeInv'
<1>1. /\ stack # <<>> /\ Top.at = "install" /\ Inside /\ UNCHANGED <<livepatch, once>>
  BY DEF InstallPackages, Running
<1>2. /\ at' = at /\ attached' = attached /\ at # "upgrade" /\ Top.svc \in Svcs
      /\ PlaceFits(Top.op, Top.svc, Top.at)
  BY <1>1, Stays, NotUpgrade, Inner
<1>3. /\ packages \subseteq Packages /\ once' \in BOOLEAN /\ livepatch' \in BOOLEAN
      /\ result \in {"ok", "no", "raise"} /\ hidden \in Causes
      /\ source \in Sources /\ listed \subseteq Listed(source) /\ Brings(Top.svc) \subseteq Packages
  BY <1>1, <1>2, MachineTypes, BringsTypes
<1>4. CASE /\ packages' = packages \cup Brings(Top.svc) /\ Top.op = "enable"
           /\ Now("record", <<>>) /\ UNCHANGED <<source, listed, hidden, result>>
  <2>1. /\ PlaceFits(Top.op, Top.svc, "record") /\ "record" \in Places /\ <<>> \in Seq(Svcs)
        /\ ListFits(Top.svc, "record", <<>>)
    BY <1>1, <1>2, <1>4 DEF PlaceFits, ListFits, Places
  <2>2. /\ stack' \in Seq(Frames) /\ StackFits' /\ CommandFits' /\ Top'.at = "record"
    BY <1>1, <1>2, <1>4, <2>1, Advances
  <2>3. ~Running("update")' /\ ~Running("unconfigure")'
    BY <2>2 DEF Running
  <2> QED
    BY <1>1, <1>3, <1>4, <2>2, <2>3, ShapeInside
<1>5. CASE /\ packages' = packages \cup Brings(Top.svc) /\ Done
           /\ UNCHANGED <<source, listed, hidden>>
  <2>1. /\ stack' \in Seq(Frames) /\ StackFits' /\ CommandFits' /\ result' \in {"ok", "no", "raise"}
        /\ stack' # <<>> => Top'.at \in Callers
    BY <1>1, <1>2, <1>5, Returns DEF Done
  <2>2. ~Running("update")' /\ ~Running("unconfigure")'
    BY <2>1 DEF Running, Callers
  <2> QED
    BY <1>1, <1>3, <1>5, <2>1, <2>2, ShapeInside
<1>6. CASE DropSource /\ UNCHANGED packages
  BY <1>1, <1>6, DropSourceShape
<1> QED
  BY <1>4, <1>5, <1>6 DEF InstallPackages

LEMMA RecordOnceShape == ASSUME ShapeInv, RecordOnce PROVE ShapeInv'
<1>1. stack # <<>> /\ Inside /\ UNCHANGED <<machine, hidden>>
  BY DEF RecordOnce, Running
<1>2. at' = at /\ attached' = attached
  BY <1>1, Stays
<1>3. CASE once' = (once \/ Top.svc = "fips-updates") /\ Done
  <2>1. /\ source' \in Sources /\ listed' \subseteq Listed(source') /\ packages' \subseteq Packages
        /\ livepatch' \in BOOLEAN /\ hidden' \in Causes /\ once' \in BOOLEAN
    BY <1>1, <1>3, MachineTypes DEF machine
  <2>2. /\ stack' \in Seq(Frames) /\ StackFits' /\ CommandFits' /\ result' \in {"ok", "no", "raise"}
        /\ stack' # <<>> => Top'.at \in Callers
    BY <1>1, <1>2, <1>3, Returns DEF Done
  <2>3. ~Running("update")' /\ ~Running("unconfigure")'
    BY <2>2 DEF Running, Callers
  <2> QED
    BY <1>1, <2>1, <2>2, <2>3, ShapeInside
<1>4. CASE Unwind("raise") /\ UNCHANGED once
  BY <1>1, <1>2, <1>4, Unwinds, ShapeSteady DEF Unwind
<1> QED
  BY <1>3, <1>4 DEF RecordOnce

LEMMA TryDisableShape == ASSUME ShapeInv, TryDisable PROVE ShapeInv'
<1>1. stack # <<>> /\ Top.at = "disable" /\ Inside /\ UNCHANGED <<machine, once, hidden>>
  BY DEF TryDisable, Running
<1>2. /\ at' = at /\ attached' = attached /\ at # "upgrade" /\ result \in {"ok", "no", "raise"}
      /\ Top.svc \in Svcs /\ PlaceFits(Top.op, Top.svc, Top.at)
  BY <1>1, Stays, NotUpgrade, Inner, MachineTypes
<1>3. CASE Now("clear", BlockingDependents(Top.svc)) /\ UNCHANGED result
  <2>1. /\ BlockingDependents(Top.svc) \in Seq(Svcs)
        /\ Members(BlockingDependents(Top.svc)) \subseteq Users(Top.svc)
    BY <1>2, Relations, Selected DEF BlockingDependents, Users
  <2>2. /\ PlaceFits(Top.op, Top.svc, "clear") /\ "clear" \in Places
        /\ ListFits(Top.svc, "clear", BlockingDependents(Top.svc))
    BY <1>1, <1>2, <2>1 DEF PlaceFits, ListFits, Places
  <2> QED
    BY <1>1, <1>2, <1>3, <2>1, <2>2, Advances, ShapeSteady
<1>4. CASE Unwind("no")
  BY <1>1, <1>2, <1>4, Unwinds, ShapeSteady DEF Unwind
<1> QED
  BY <1>3, <1>4 DEF TryDisable

LEMMA UninstallShape == ASSUME ShapeInv, Uninstall PROVE ShapeInv'
<1>1. /\ stack # <<>> /\ Top.at = "uninstall" /\ Top.svc \in Repos /\ Inside
      /\ UNCHANGED <<source, listed, livepatch, once, hidden>>
  BY DEF Uninstall, Running
<1>2. /\ at' = at /\ attached' = attached /\ result \in {"ok", "no", "raise"}
      /\ Top.svc \in Svcs /\ PlaceFits(Top.op, Top.svc, Top.at)
  BY <1>1, Stays, Inner, MachineTypes
<1>3. /\ source' \in Sources /\ listed' \subseteq Listed(source') /\ packages \subseteq Packages
      /\ livepatch' \in BOOLEAN /\ hidden' \in Causes /\ once' \in BOOLEAN
  BY <1>1, MachineTypes
<1>4. CASE packages' = packages \ Brings(Top.svc) /\ Now("unconfigure", <<>>) /\ UNCHANGED result
  <2>1. /\ PlaceFits(Top.op, Top.svc, "unconfigure") /\ "unconfigure" \in Places
        /\ <<>> \in Seq(Svcs) /\ ListFits(Top.svc, "unconfigure", <<>>)
    BY <1>1, <1>2 DEF PlaceFits, ListFits, Places, Repos
  <2>2. /\ stack' \in Seq(Frames) /\ StackFits' /\ CommandFits' /\ stack' # <<>>
        /\ Top'.at = "unconfigure" /\ Top'.svc = Top.svc
    BY <1>1, <1>2, <1>4, <2>1, Advances
  <2>3. ~Running("update")' /\ Brings(Top'.svc) \cap packages' = {}
    BY <1>4, <2>2 DEF Running
  <2> QED
    BY <1>1, <1>2, <1>3, <1>4, <2>2, <2>3, ShapeInside
<1>5. CASE Unwind("raise") /\ UNCHANGED packages
  BY <1>1, <1>2, <1>5, Unwinds, ShapeSteady DEF Unwind, machine
<1> QED
  BY <1>4, <1>5 DEF Uninstall

LEMMA RemoveSourceShape == ASSUME ShapeInv, RemoveSource PROVE ShapeInv'
<1>1. /\ stack # <<>> /\ Top.at \in {"unconfigure", "replace"} /\ Inside
      /\ source' = [source EXCEPT ![Top.svc] = Absent]
      /\ UNCHANGED <<packages, livepatch, once, hidden>>
  BY DEF RemoveSource, Running
<1>2. /\ at' = at /\ attached' = attached /\ result \in {"ok", "no", "raise"}
      /\ Top.svc \in Svcs /\ PlaceFits(Top.op, Top.svc, Top.at)
  BY <1>1, Stays, Inner, MachineTypes
<1>3. listed' \in {listed \ {Top.svc}, Listed(source')}
  BY DEF RemoveSource
<1>4. source' \in Sources /\ listed' \subseteq Listed(source')
  BY <1>1, <1>2, <1>3, SourceGoes
<1>5. /\ packages' \subseteq Packages /\ livepatch' \in BOOLEAN /\ hidden' \in Causes
      /\ once' \in BOOLEAN
  BY <1>1, MachineTypes
<1>6. CASE Top.at = "replace" /\ Now("apply", <<>>) /\ UNCHANGED result
  <2>1. /\ PlaceFits(Top.op, Top.svc, "apply") /\ "apply" \in Places
        /\ <<>> \in Seq(Svcs) /\ ListFits(Top.svc, "apply", <<>>)
    BY <1>2, <1>6 DEF PlaceFits, ListFits, Places
  <2>2. at # "upgrade"
    BY <1>1, <1>6, NotUpgrade
  <2>3. stack' \in Seq(Frames) /\ StackFits' /\ CommandFits' /\ Top'.at = "apply"
    BY <1>1, <1>2, <1>6, <2>1, <2>2, Advances
  <2>4. ~Running("update")' /\ ~Running("unconfigure")'
    BY <2>3 DEF Running
  <2> QED
    BY <1>1, <1>2, <1>4, <1>5, <1>6, <2>3, <2>4, ShapeInside
<1>7. CASE Done
  <2>1. /\ stack' \in Seq(Frames) /\ StackFits' /\ CommandFits' /\ result' \in {"ok", "no", "raise"}
        /\ stack' # <<>> => Top'.at \in Callers
    BY <1>1, <1>2, <1>7, Returns DEF Done
  <2>2. ~Running("update")' /\ ~Running("unconfigure")'
    BY <2>1 DEF Running, Callers
  <2> QED
    BY <1>1, <1>4, <1>5, <2>1, <2>2, ShapeInside
<1>8. CASE Unwind("raise")
  <2>1. /\ stack' = <<>> /\ stack' \in Seq(Frames) /\ StackFits' /\ CommandFits'
        /\ result' \in {"ok", "no", "raise"}
    BY <1>1, <1>2, <1>8, Unwinds DEF Unwind
  <2>2. ~Running("update")' /\ ~Running("unconfigure")'
    BY <2>1 DEF Running
  <2> QED
    BY <1>1, <1>4, <1>5, <2>1, <2>2, ShapeInside
<1> QED
  BY <1>6, <1>7, <1>8 DEF RemoveSource

LEMMA DisableLivepatchShape == ASSUME ShapeInv, DisableLivepatch PROVE ShapeInv'
<1>1. /\ stack # <<>> /\ Inside /\ UNCHANGED <<source, listed, packages, once, hidden>>
  BY DEF DisableLivepatch, Running
<1>2. at' = at /\ attached' = attached
  BY <1>1, Stays
<1>3. /\ source' \in Sources /\ listed' \subseteq Listed(source') /\ packages' \subseteq Packages
      /\ once' \in BOOLEAN /\ hidden' \in Causes /\ livepatch' \in BOOLEAN
  BY <1>1, MachineTypes DEF DisableLivepatch
<1>4. CASE Done
  <2>1. /\ stack' \in Seq(Frames) /\ StackFits' /\ CommandFits' /\ result' \in {"ok", "no", "raise"}
        /\ stack' # <<>> => Top'.at \in Callers
    BY <1>1, <1>2, <1>4, Returns DEF Done
  <2>2. ~Running("update")' /\ ~Running("unconfigure")'
    BY <2>1 DEF Running, Callers
  <2> QED
    BY <1>1, <1>3, <2>1, <2>2, ShapeInside
<1>5. CASE Unwind("raise")
  <2>1. /\ stack' = <<>> /\ stack' \in Seq(Frames) /\ StackFits' /\ CommandFits'
        /\ result' \in {"ok", "no", "raise"}
    BY <1>1, <1>2, <1>5, Unwinds DEF Unwind
  <2>2. ~Running("update")' /\ ~Running("unconfigure")'
    BY <2>1 DEF Running
  <2> QED
    BY <1>1, <1>3, <2>1, <2>2, ShapeInside
<1> QED
  BY <1>4, <1>5 DEF DisableLivepatch

-----------------------------------------------------------------------------
(* The shape at the steps of the command and of its environment. *)

CommandNames == {"none", "enable", "disable", "detach_cli", "detach_api", "refresh", "boot", "release"}
Labels == {"idle", "end", "status", "detach", "token", "deltas", "holds", "installed", "upgrade"}
Entitlements == [grant : [Svcs -> Grants], url : [Svcs -> Urls]]

\* The parts of the types.
MachineFits ==
    /\ world \subseteq Svcs /\ source \in Sources /\ listed \subseteq Listed(source)
    /\ packages \subseteq Packages /\ livepatch \in BOOLEAN /\ once \in BOOLEAN
    /\ kernel \in {"absent", "0", "1"} /\ upgraded \in BOOLEAN
TokenFits ==
    /\ attached \in BOOLEAN /\ grant \in [Svcs -> Grants] /\ url \in [Svcs -> Urls]
    /\ \A s \in Svcs : grant[s] # Absent => attached /\ s \in world
ControlFits ==
    /\ command \in CommandNames /\ at \in Labels /\ todo \in Seq(Svcs) /\ failed \in BOOLEAN
    /\ old \in Entitlements /\ result \in {"ok", "no", "raise"} /\ (at # "idle" => attached)
RestFits ==
    /\ cached = NoCache \/ cached \subseteq Svcs
    /\ marker \in BOOLEAN /\ moved \in BOOLEAN /\ hidden \in Causes

LEMMA Parts == ASSUME ShapeInv PROVE MachineFits /\ TokenFits /\ ControlFits /\ RestFits
BY DEF ShapeInv, TypeOK, GrantsFit, CommandFits, MachineFits, TokenFits, ControlFits, RestFits,
       CommandNames, Labels, Entitlements, Causes, Sources

\* Between operations the stack is empty, ...
LEMMA ShapeRests ==
    ASSUME MachineFits', TokenFits', ControlFits', RestFits', stack' = <<>>
    PROVE  ShapeInv'
<1>1. stack' \in Seq(Frames) /\ StackFits' /\ DOMAIN stack' = {}
  BY StackEmpties
<1>2. TypeOK'
  BY <1>1 DEF TypeOK, MachineFits, TokenFits, ControlFits, RestFits, CommandNames, Labels,
     Entitlements,
              Causes, Sources
<1>3. CommandFits' /\ GrantsFit'
  BY DEF CommandFits, GrantsFit, ControlFits, TokenFits, Running
<1> QED
  BY <1>1, <1>2, <1>3 DEF ShapeInv

\* ... or the command begins an operation.
LEMMA ShapeBegins ==
    ASSUME ShapeInv, MachineFits', TokenFits', ControlFits', RestFits', stack = <<>>,
           NEW op \in Ops, NEW s \in Svcs, NEW place \in Places, NEW access \in BOOLEAN,
           Push(Frame(op, s, place, access, <<>>)), PlaceFits(op, s, place),
           place \notin {"update", "unconfigure"},
           at' \in {"end", "detach", "deltas", "holds", "installed", "upgrade"},
           at' = "detach" => op = "disable",
           at' = "upgrade" => op = "disable" /\ place = "uninstall"
    PROVE  ShapeInv'
<1>1. /\ stack' \in Seq(Frames) /\ stack' # <<>> /\ Len(stack') = 1 /\ DOMAIN stack' = 1..1
      /\ Top' = stack'[1] /\ stack'[1].op = op /\ stack'[1].svc = s /\ stack'[1].at = place
      /\ StackFits'
  BY StackStarts DEF ShapeInv
<1>2. TypeOK'
  BY <1>1 DEF TypeOK, MachineFits, TokenFits, ControlFits, RestFits, CommandNames, Labels,
     Entitlements,
              Causes, Sources
<1>3. CommandFits'
  BY <1>1 DEF CommandFits, ControlFits
<1>4. GrantsFit'
  BY <1>1 DEF GrantsFit, TokenFits, Running
<1> QED
  BY <1>1, <1>2, <1>3, <1>4 DEF ShapeInv

\* What the parts are made of, after the steps that most commands take.
LEMMA MachineKept == ASSUME MachineFits, Outside PROVE MachineFits' /\ marker' = marker
BY DEF MachineFits, Outside, machine, host

LEMMA TokenKept ==
    ASSUME TokenFits, UNCHANGED <<attached, token>>, world' = world
    PROVE  TokenFits' /\ attached' = attached
BY DEF TokenFits, token

LEMMA IdleFits == ASSUME Idle PROVE ControlFits' /\ stack' = <<>>
<1>1. Nobody \in Entitlements
  BY DEF Nobody, Entitlements, Grants, Urls
<1>2. <<>> \in Seq(Svcs)
  OBVIOUS
<1>3. /\ command' = "none" /\ at' = "idle" /\ todo' = <<>> /\ failed' = FALSE /\ old' = Nobody
      /\ stack' = <<>> /\ result' = "ok"
  BY DEF Idle
<1>4. command' \in CommandNames /\ at' \in Labels /\ failed' \in BOOLEAN
  BY <1>3 DEF CommandNames, Labels
<1> QED
  BY <1>1, <1>2, <1>3, <1>4 DEF ControlFits

LEMMA StartFits ==
    ASSUME ControlFits, NEW name \in CommandNames, NEW label \in Labels, NEW list \in Seq(Svcs),
           Start(name, label, list), old' = old, attached'
    PROVE  ControlFits' /\ stack = <<>>
BY DEF Start, Between, ControlFits

LEMMA SameFits ==
    ASSUME RestFits, Same, marker' = marker
    PROVE  RestFits' /\ UNCHANGED <<attached, token>> /\ old' = old /\ hidden' = hidden
           /\ cached' = cached
BY DEF Same, RestFits

\* Whatever order the services are taken in, they are all there.
LEMMA Orders ==
    /\ EnableOrder \in Seq(Svcs) /\ DisableOrder \in Seq(Svcs)
    /\ Members(EnableOrder) = Svcs /\ Members(DisableOrder) = Svcs /\ Sorted(DisableOrder)
<1>1. EnableOrder \in Seq(Svcs) /\ DisableOrder \in Seq(Svcs)
  BY DEF EnableOrder, DisableOrder, Svcs
<1>2. Len(EnableOrder) = 9 /\ Len(DisableOrder) = 9
  BY DEF EnableOrder, DisableOrder
<1>3. DOMAIN EnableOrder = 1..9 /\ DOMAIN DisableOrder = 1..9
  BY <1>1, <1>2
<1>4. \A k \in 1..9 : k \in {1, 2, 3, 4, 5, 6, 7, 8, 9}
  OBVIOUS
<1>5. Members(EnableOrder) = Svcs
  BY <1>3, <1>4 DEF Members, EnableOrder, Svcs
<1>6. Members(DisableOrder) = Svcs
  BY <1>3, <1>4 DEF Members, DisableOrder, Svcs
<1>7. \A k \in 1..9 : Rank(DisableOrder[k]) = k
  BY <1>4 DEF Rank, DisableOrder
<1>8. Sorted(DisableOrder)
  BY <1>3, <1>7 DEF Sorted
<1> QED
  BY <1>1, <1>5, <1>6, <1>8

LEMMA EndShape == ASSUME ShapeInv, End PROVE ShapeInv'
<1>1. /\ stack = <<>> /\ at = "end" /\ Outside /\ UNCHANGED <<attached, token, cached, moved, hidden>>
      /\ MachineFits /\ TokenFits /\ ControlFits /\ RestFits
  BY Parts DEF End, Between
<1>2. MachineFits' /\ TokenFits' /\ RestFits' /\ attached' = attached
  BY <1>1, MachineKept, TokenKept DEF RestFits, Outside
<1>3. CASE at' = "status" /\ UNCHANGED <<command, todo, failed, old, result, stack>>
  <2>1. ControlFits'
    BY <1>1, <1>2, <1>3 DEF ControlFits, Labels
  <2> QED
    BY <1>1, <1>2, <1>3, <2>1, ShapeRests
<1>4. CASE Idle
  BY <1>2, <1>4, IdleFits, ShapeRests
<1> QED
  BY <1>3, <1>4 DEF End

LEMMA WriteStatusShape == ASSUME ShapeInv, WriteStatus PROVE ShapeInv'
<1>1. /\ Outside /\ UNCHANGED <<attached, token, moved, hidden>> /\ Idle
      /\ cached' = {s \in Svcs : attached /\ Active(s)}
      /\ MachineFits /\ TokenFits /\ ControlFits /\ RestFits
  BY Parts DEF WriteStatus
<1>2. MachineFits' /\ TokenFits' /\ RestFits'
  BY <1>1, MachineKept, TokenKept DEF RestFits, Outside
<1> QED
  BY <1>1, <1>2, IdleFits, ShapeRests

LEMMA DetachNextShape == ASSUME ShapeInv, DetachNext PROVE ShapeInv'
<1>1. /\ stack = <<>> /\ at = "detach" /\ todo # <<>> /\ todo' = Tail(todo) /\ Outside /\ Same
      /\ UNCHANGED <<command, at, failed, result>>
      /\ MachineFits /\ TokenFits /\ ControlFits /\ RestFits
  BY Parts DEF DetachNext, Between
<1>2. MachineFits' /\ TokenFits' /\ RestFits' /\ attached' = attached /\ old' = old
  BY <1>1, MachineKept, TokenKept, SameFits DEF Outside
<1>3. Head(todo) \in Svcs /\ Tail(todo) \in Seq(Svcs)
  BY <1>1, MembersOf DEF ControlFits
<1>4. ControlFits'
  BY <1>1, <1>2, <1>3 DEF ControlFits
<1>5. CASE Push(Frame("disable", Head(todo), "disable", FALSE, <<>>))
  <2>1. /\ "disable" \in Ops /\ "disable" \in Places /\ FALSE \in BOOLEAN
        /\ PlaceFits("disable", Head(todo), "disable")
    BY DEF Ops, Places, PlaceFits
  <2> QED
    BY <1>1, <1>2, <1>3, <1>4, <1>5, <2>1, ShapeBegins
<1>6. CASE UNCHANGED stack
  BY <1>1, <1>2, <1>4, <1>6, ShapeRests
<1> QED
  BY <1>5, <1>6 DEF DetachNext

LEMMA DetachEndShape == ASSUME ShapeInv, DetachEnd PROVE ShapeInv'
<1>1. /\ Idle /\ UNCHANGED <<world, machine, kernel, upgraded, once, moved, hidden>>
      /\ MachineFits /\ TokenFits /\ ControlFits /\ RestFits
  BY Parts DEF DetachEnd
<1>2. MachineFits'
  BY <1>1 DEF MachineFits, machine
<1>3. CASE UNCHANGED <<attached, token, cached, marker>>
  <2>1. TokenFits' /\ RestFits'
    BY <1>1, <1>3, TokenKept DEF RestFits
  <2> QED
    BY <1>1, <1>2, <2>1, IdleFits, ShapeRests
<1>4. CASE /\ attached' = FALSE /\ grant' = Nobody.grant /\ url' = Nobody.url
           /\ cached' = NoCache /\ marker' = FALSE
  <2>1. /\ Nobody.grant \in [Svcs -> Grants] /\ Nobody.url \in [Svcs -> Urls]
        /\ \A s \in Svcs : Nobody.grant[s] = Absent
    BY DEF Nobody, Grants, Urls
  <2>2. TokenFits'
    BY <1>4, <2>1 DEF TokenFits
  <2>3. RestFits'
    BY <1>1, <1>4 DEF RestFits
  <2> QED
    BY <1>1, <1>2, <2>2, <2>3, IdleFits, ShapeRests
<1> QED
  BY <1>3, <1>4 DEF DetachEnd

\* The server's word on one service.
LEMMA ContractFits ==
    ASSUME ShapeInv, Contract, world' = world, attached' = attached, attached
    PROVE  TokenFits' /\ hidden' \in Causes
<1>1. PICK s \in world, g \in Grants, u \in Urls :
          /\ grant' = [grant EXCEPT ![s] = g] /\ url' = [url EXCEPT ![s] = u]
          /\ Hide("contract", Present(s) /\ (g = Absent \/ u # url[s]))
  BY DEF Contract
<1>2. hidden' \in Causes
  <2>1. "contract" \in Causes
    BY DEF Causes
  <2> QED
    BY <1>1, <2>1, HideTypes, MachineTypes
<1>3. s \in Svcs /\ TokenFits
  BY Parts, MachineTypes
<1>4. TokenFits'
  BY <1>1, <1>3 DEF TokenFits
<1> QED
  BY <1>2, <1>4

LEMMA RefreshTokenShape == ASSUME ShapeInv, RefreshToken PROVE ShapeInv'
<1>1. /\ stack = <<>> /\ at = "token" /\ Outside /\ UNCHANGED <<attached, cached>>
      /\ MachineFits /\ TokenFits /\ ControlFits /\ RestFits /\ attached
  BY Parts DEF RefreshToken, Between, ControlFits
<1>2. MachineFits' /\ marker' = marker /\ world' = world
  BY <1>1, MachineKept DEF Outside
<1>3. CASE Idle /\ UNCHANGED <<token, moved, hidden>>
  <2>1. TokenFits' /\ RestFits'
    BY <1>1, <1>2, <1>3, TokenKept DEF RestFits
  <2> QED
    BY <1>2, <1>3, <2>1, IdleFits, ShapeRests
<1>4. CASE /\ old' = [grant |-> grant, url |-> url]
           /\ \/ world \in ContractMoves /\ ~moved /\ Contract /\ moved' = TRUE
              \/ UNCHANGED <<token, moved, hidden>>
           /\ todo' = Select(EnableOrder, {s \in world : /\ grant'[s] # Absent
                                                        /\ \/ grant'[s] # grant[s]
                                                           \/ url'[s] # url[s]})
           /\ at' = "deltas" /\ UNCHANGED <<command, failed, result, stack>>
  <2>3. TokenFits' /\ RestFits' /\ attached' = attached
    <3>1. TokenFits'
      <4>1. CASE Contract
        BY <1>1, <1>2, <4>1, ContractFits
      <4>2. CASE UNCHANGED token
        BY <1>1, <1>2, <4>2, TokenKept
      <4> QED
        BY <1>4, <4>1, <4>2
    <3>2. hidden' \in Causes /\ moved' \in BOOLEAN
      <4>1. CASE Contract /\ moved' = TRUE
        BY <1>1, <1>2, <4>1, ContractFits
      <4>2. CASE UNCHANGED <<moved, hidden>>
        BY <1>1, <4>2 DEF RestFits
      <4> QED
        BY <1>4, <4>1, <4>2
    <3> QED
      BY <1>1, <1>2, <3>1, <3>2 DEF RestFits
  <2>4. todo' \in Seq(Svcs)
    BY <1>4, Orders, Selected
  <2>5. old' \in Entitlements
    BY <1>1, <1>4 DEF Entitlements, TokenFits
  <2>6. ControlFits'
    BY <1>1, <1>4, <2>3, <2>4, <2>5 DEF ControlFits, Labels
  <2> QED
    BY <1>1, <1>2, <1>4, <2>3, <2>6, ShapeRests
<1> QED
  BY <1>3, <1>4 DEF RefreshToken

LEMMA DeltaNextShape == ASSUME ShapeInv, DeltaNext PROVE ShapeInv'
<1>1. /\ stack = <<>> /\ at = "deltas" /\ todo # <<>> /\ todo' = Tail(todo) /\ result' = "ok"
      /\ Outside /\ Same /\ UNCHANGED <<command, at>> /\ failed' \in BOOLEAN
      /\ MachineFits /\ TokenFits /\ ControlFits /\ RestFits
  BY Parts DEF DeltaNext, Between, ControlFits
<1>2. MachineFits' /\ TokenFits' /\ RestFits' /\ attached' = attached /\ old' = old
  BY <1>1, MachineKept, TokenKept, SameFits DEF Outside
<1>3. Head(todo) \in Svcs /\ Tail(todo) \in Seq(Svcs)
  BY <1>1, MembersOf DEF ControlFits
<1>4. ControlFits'
  BY <1>1, <1>2, <1>3 DEF ControlFits
<1>5. /\ "disable" \in Ops /\ "disable" \in Places /\ FALSE \in BOOLEAN
      /\ PlaceFits("disable", Head(todo), "disable")
      /\ "set_up" \in Ops /\ "replace" \in Places /\ "apply" \in Places
      /\ PlaceFits("set_up", Head(todo), "apply")
      /\ Head(todo) # "livepatch" => PlaceFits("set_up", Head(todo), "replace")
  BY DEF Ops, Places, PlaceFits
<1>6. CASE Push(Frame("disable", Head(todo), "disable", FALSE, <<>>))
  BY <1>1, <1>2, <1>3, <1>4, <1>5, <1>6, ShapeBegins
<1>7. CASE Push(Frame("set_up", Head(todo), "replace", FALSE, <<>>)) /\ Head(todo) \in Repos
  <2>1. PlaceFits("set_up", Head(todo), "replace")
    BY <1>5, <1>7 DEF Repos
  <2> QED
    BY <1>1, <1>2, <1>3, <1>4, <1>5, <1>7, <2>1, ShapeBegins
<1>8. CASE Push(Frame("set_up", Head(todo), "apply", FALSE, <<>>))
  BY <1>1, <1>2, <1>3, <1>4, <1>5, <1>8, ShapeBegins
<1>9. CASE UNCHANGED stack
  BY <1>1, <1>2, <1>4, <1>9, ShapeRests
<1>10. CASE Push(Frame("enable", Head(todo), "enable", FALSE, <<>>))
  <2>1. "enable" \in Ops /\ "enable" \in Places /\ PlaceFits("enable", Head(todo), "enable")
    BY DEF Ops, Places, PlaceFits
  <2> QED
    BY <1>1, <1>2, <1>3, <1>4, <1>5, <1>10, <2>1, ShapeBegins
<1> QED
  BY <1>6, <1>7, <1>8, <1>9, <1>10 DEF DeltaNext

LEMMA DeltasEndShape == ASSUME ShapeInv, DeltasEnd PROVE ShapeInv'
<1>1. /\ stack = <<>> /\ at = "deltas" /\ Outside
      /\ UNCHANGED <<attached, token, cached, moved, hidden>>
      /\ MachineFits /\ TokenFits /\ ControlFits /\ RestFits
  BY Parts DEF DeltasEnd, Between
<1>2. MachineFits' /\ TokenFits' /\ RestFits' /\ attached' = attached
  BY <1>1, MachineKept, TokenKept DEF RestFits, Outside
<1>3. CASE /\ todo' = Select(EnableOrder, world) /\ at' = "upgrade" /\ old' = Nobody
           /\ result' = "ok" /\ UNCHANGED <<command, failed, stack>>
  <2>1. todo' \in Seq(Svcs)
    BY <1>3, Orders, Selected
  <2>2. Nobody \in Entitlements
    BY DEF Nobody, Entitlements, Grants, Urls
  <2>3. ControlFits'
    BY <1>1, <1>2, <1>3, <2>1, <2>2 DEF ControlFits, Labels
  <2> QED
    BY <1>1, <1>2, <1>3, <2>3, ShapeRests
<1>4. CASE Idle
  BY <1>2, <1>4, IdleFits, ShapeRests
<1> QED
  BY <1>3, <1>4 DEF DeltasEnd

LEMMA BootInstallsShape == ASSUME ShapeInv, BootInstalls PROVE ShapeInv'
<1>1. /\ stack = <<>> /\ at = "holds" /\ Outside /\ Same /\ at' = "installed"
      /\ UNCHANGED <<command, todo, failed, result>>
      /\ Push(Frame("install", "fips", "install", FALSE, <<>>))
      /\ MachineFits /\ TokenFits /\ ControlFits /\ RestFits
  BY Parts DEF BootInstalls, Between
<1>2. MachineFits' /\ TokenFits' /\ RestFits' /\ attached' = attached /\ old' = old
  BY <1>1, MachineKept, TokenKept, SameFits DEF Outside
<1>3. ControlFits'
  BY <1>1, <1>2 DEF ControlFits, Labels
<1>4. /\ "install" \in Ops /\ "install" \in Places /\ FALSE \in BOOLEAN /\ "fips" \in Svcs
      /\ PlaceFits("install", "fips", "install")
  BY DEF Ops, Places, PlaceFits, Svcs
<1> QED
  BY <1>1, <1>2, <1>3, <1>4, ShapeBegins

LEMMA BootRefreshesShape == ASSUME ShapeInv, BootRefreshes PROVE ShapeInv'
<1>1. /\ stack = <<>> /\ at = "installed" /\ Outside
      /\ UNCHANGED <<attached, token, cached, moved, hidden>>
      /\ MachineFits /\ TokenFits /\ ControlFits /\ RestFits
  BY Parts DEF BootRefreshes, Between
<1>2. MachineFits' /\ TokenFits' /\ RestFits' /\ attached' = attached
  BY <1>1, MachineKept, TokenKept DEF RestFits, Outside
<1>3. CASE at' = "token" /\ UNCHANGED <<command, todo, failed, old, result, stack>>
  <2>1. ControlFits'
    BY <1>1, <1>2, <1>3 DEF ControlFits, Labels
  <2> QED
    BY <1>1, <1>2, <1>3, <2>1, ShapeRests
<1>4. CASE Idle
  BY <1>2, <1>4, IdleFits, ShapeRests
<1> QED
  BY <1>3, <1>4 DEF BootRefreshes

LEMMA UpgradeNextShape == ASSUME ShapeInv, UpgradeNext PROVE ShapeInv'
<1>1. /\ stack = <<>> /\ at = "upgrade" /\ todo # <<>> /\ todo' = Tail(todo) /\ Outside /\ Same
      /\ UNCHANGED <<command, at, failed, result>>
      /\ MachineFits /\ TokenFits /\ ControlFits /\ RestFits
  BY Parts DEF UpgradeNext, Between
<1>2. MachineFits' /\ TokenFits' /\ RestFits' /\ attached' = attached /\ old' = old
  BY <1>1, MachineKept, TokenKept, SameFits DEF Outside
<1>3. Head(todo) \in Svcs /\ Tail(todo) \in Seq(Svcs)
  BY <1>1, MembersOf DEF ControlFits
<1>4. ControlFits'
  BY <1>1, <1>2, <1>3 DEF ControlFits
<1>5. CASE Push(Frame("disable", Head(todo), "uninstall", FALSE, <<>>))
  <2>1. /\ "disable" \in Ops /\ "uninstall" \in Places /\ FALSE \in BOOLEAN
        /\ PlaceFits("disable", Head(todo), "uninstall")
    BY DEF Ops, Places, PlaceFits
  <2> QED
    BY <1>1, <1>2, <1>3, <1>4, <1>5, <2>1, ShapeBegins
<1>6. CASE UNCHANGED stack
  BY <1>1, <1>2, <1>4, <1>6, ShapeRests
<1> QED
  BY <1>5, <1>6 DEF UpgradeNext

LEMMA UpgradeEndShape == ASSUME ShapeInv, UpgradeEnd PROVE ShapeInv'
<1>1. /\ marker' = (marker /\ (command # "boot" \/ result = "raise")) /\ Idle
      /\ UNCHANGED <<world, attached, token, machine, kernel, upgraded, once, cached, moved, hidden>>
      /\ MachineFits /\ TokenFits /\ ControlFits /\ RestFits
  BY Parts DEF UpgradeEnd
<1>2. MachineFits' /\ TokenFits' /\ RestFits'
  BY <1>1 DEF MachineFits, TokenFits, RestFits, machine, token
<1> QED
  BY <1>1, <1>2, IdleFits, ShapeRests

LEMMA AttachShape == ASSUME ShapeInv, Attach PROVE ShapeInv'
<1>1. /\ stack = <<>> /\ attached' = TRUE /\ Outside
      /\ grant' = [s \in Svcs |-> IF s \in world THEN "yes" ELSE Absent]
      /\ UNCHANGED <<url, cached, control, stack, result, moved, hidden>>
      /\ MachineFits /\ TokenFits /\ ControlFits /\ RestFits
  BY Parts DEF Attach, Between
<1>2. MachineFits' /\ marker' = marker /\ world' = world
  BY <1>1, MachineKept DEF Outside
<1>3. TokenFits'
  BY <1>1, <1>2 DEF TokenFits, Grants
<1>4. ControlFits' /\ RestFits'
  BY <1>1, <1>2 DEF ControlFits, RestFits, control
<1> QED
  BY <1>1, <1>2, <1>3, <1>4, ShapeRests

LEMMA EnableShape ==
    ASSUME ShapeInv, NEW s \in Svcs, NEW access \in BOOLEAN, Enable(s, access) PROVE ShapeInv'
<1>1. /\ attached /\ Outside /\ Same /\ Start("enable", "end", <<>>)
      /\ Push(Frame("enable", s, "enable", access, <<>>))
      /\ MachineFits /\ TokenFits /\ ControlFits /\ RestFits
  BY Parts DEF Enable
<1>2. MachineFits' /\ TokenFits' /\ RestFits' /\ attached' = attached /\ old' = old
  BY <1>1, MachineKept, TokenKept, SameFits DEF Outside
<1>3. ControlFits' /\ stack = <<>> /\ at' = "end"
  <2>1. "enable" \in CommandNames /\ "end" \in Labels /\ <<>> \in Seq(Svcs)
    BY DEF CommandNames, Labels
  <2> QED
    BY <1>1, <1>2, <2>1, StartFits DEF Start
<1>4. "enable" \in Ops /\ "enable" \in Places /\ PlaceFits("enable", s, "enable")
  BY DEF Ops, Places, PlaceFits
<1> QED
  BY <1>1, <1>2, <1>3, <1>4, ShapeBegins

LEMMA DisableShape == ASSUME ShapeInv, NEW s \in Svcs, Disable(s) PROVE ShapeInv'
<1>1. /\ attached /\ Outside /\ Same /\ Start("disable", "end", <<>>)
      /\ Push(Frame("disable", s, "disable", FALSE, <<>>))
      /\ MachineFits /\ TokenFits /\ ControlFits /\ RestFits
  BY Parts DEF Disable
<1>2. MachineFits' /\ TokenFits' /\ RestFits' /\ attached' = attached /\ old' = old
  BY <1>1, MachineKept, TokenKept, SameFits DEF Outside
<1>3. ControlFits' /\ stack = <<>> /\ at' = "end"
  <2>1. "disable" \in CommandNames /\ "end" \in Labels /\ <<>> \in Seq(Svcs)
    BY DEF CommandNames, Labels
  <2> QED
    BY <1>1, <1>2, <2>1, StartFits DEF Start
<1>4. /\ "disable" \in Ops /\ "disable" \in Places /\ FALSE \in BOOLEAN
      /\ PlaceFits("disable", s, "disable")
  BY DEF Ops, Places, PlaceFits
<1> QED
  BY <1>1, <1>2, <1>3, <1>4, ShapeBegins

LEMMA DetachCliShape == ASSUME ShapeInv, DetachCli PROVE ShapeInv'
<1>1. /\ attached /\ Outside /\ Same /\ UNCHANGED stack
      /\ Start("detach_cli", "detach", Select(DisableOrder, {s \in world : CanDisable(s)}))
      /\ MachineFits /\ TokenFits /\ ControlFits /\ RestFits
  BY Parts DEF DetachCli
<1>2. MachineFits' /\ TokenFits' /\ RestFits' /\ attached' = attached /\ old' = old
  BY <1>1, MachineKept, TokenKept, SameFits DEF Outside
<1>3. ControlFits' /\ stack = <<>>
  <2>1. /\ "detach_cli" \in CommandNames /\ "detach" \in Labels
        /\ Select(DisableOrder, {s \in world : CanDisable(s)}) \in Seq(Svcs)
    BY Orders, Selected DEF CommandNames, Labels
  <2> QED
    BY <1>1, <1>2, <2>1, StartFits
<1> QED
  BY <1>1, <1>2, <1>3, ShapeRests

LEMMA DetachApiShape == ASSUME ShapeInv, DetachApi PROVE ShapeInv'
<1>1. /\ attached /\ Outside /\ Same /\ UNCHANGED stack
      /\ Start("detach_api", "detach", Select(DisableOrder, world))
      /\ MachineFits /\ TokenFits /\ ControlFits /\ RestFits
  BY Parts DEF DetachApi
<1>2. MachineFits' /\ TokenFits' /\ RestFits' /\ attached' = attached /\ old' = old
  BY <1>1, MachineKept, TokenKept, SameFits DEF Outside
<1>3. ControlFits' /\ stack = <<>>
  <2>1. /\ "detach_api" \in CommandNames /\ "detach" \in Labels
        /\ Select(DisableOrder, world) \in Seq(Svcs)
    BY Orders, Selected DEF CommandNames, Labels
  <2> QED
    BY <1>1, <1>2, <2>1, StartFits
<1> QED
  BY <1>1, <1>2, <1>3, ShapeRests

LEMMA RefreshShape == ASSUME ShapeInv, Refresh PROVE ShapeInv'
<1>1. /\ attached /\ Outside /\ Same /\ UNCHANGED stack /\ Start("refresh", "token", <<>>)
      /\ MachineFits /\ TokenFits /\ ControlFits /\ RestFits
  BY Parts DEF Refresh
<1>2. MachineFits' /\ TokenFits' /\ RestFits' /\ attached' = attached /\ old' = old
  BY <1>1, MachineKept, TokenKept, SameFits DEF Outside
<1>3. ControlFits' /\ stack = <<>>
  <2>1. "refresh" \in CommandNames /\ "token" \in Labels /\ <<>> \in Seq(Svcs)
    BY DEF CommandNames, Labels
  <2> QED
    BY <1>1, <1>2, <2>1, StartFits
<1> QED
  BY <1>1, <1>2, <1>3, ShapeRests

LEMMA BootShape == ASSUME ShapeInv, Boot PROVE ShapeInv'
<1>1. /\ attached /\ Outside /\ UNCHANGED <<attached, token, cached, old, moved>>
      /\ MachineFits /\ TokenFits /\ ControlFits /\ RestFits
  BY Parts DEF Boot
<1>2. MachineFits' /\ TokenFits' /\ attached' = attached /\ old' = old /\ marker' = marker
  BY <1>1, MachineKept, TokenKept DEF Outside
<1>5. ControlFits /\ attached' /\ old' = old
  BY <1>1, <1>2
<1>3. CASE /\ Start("boot", "holds", <<>>) /\ Push(Frame("set_up", "fips", "apply", FALSE, <<>>))
           /\ Hide("stale_cache", source["fips"] \notin Urls)
  <2>1. RestFits'
    BY <1>1, <1>2, <1>3 DEF RestFits, Hide, Causes
  <2>2. ControlFits' /\ stack = <<>> /\ at' = "holds"
    <3>1. "boot" \in CommandNames /\ "holds" \in Labels /\ <<>> \in Seq(Svcs)
      BY DEF CommandNames, Labels
    <3> QED
      BY <1>3, <1>5, <3>1, StartFits DEF Start
  <2>3. /\ "set_up" \in Ops /\ "apply" \in Places /\ FALSE \in BOOLEAN /\ "fips" \in Svcs
        /\ PlaceFits("set_up", "fips", "apply")
    BY DEF Ops, Places, PlaceFits, Svcs
  <2> QED
    BY <1>2, <1>3, <2>1, <2>2, <2>3, ShapeBegins
<1>4. CASE Start("boot", "token", <<>>) /\ UNCHANGED <<stack, hidden>>
  <2>1. RestFits'
    BY <1>1, <1>2, <1>4 DEF RestFits
  <2>2. ControlFits' /\ stack = <<>>
    <3>1. "boot" \in CommandNames /\ "token" \in Labels /\ <<>> \in Seq(Svcs)
      BY DEF CommandNames, Labels
    <3> QED
      BY <1>4, <1>5, <3>1, StartFits
  <2> QED
    BY <1>2, <1>4, <2>1, <2>2, ShapeRests
<1> QED
  BY <1>3, <1>4 DEF Boot

LEMMA ReleaseUpgradeShape == ASSUME ShapeInv, ReleaseUpgrade PROVE ShapeInv'
<1>1. /\ attached /\ Start("release", "upgrade", Select(EnableOrder, world)) /\ upgraded' = TRUE
      /\ Hide("upgrade", source # [s \in Svcs |-> Absent] \/ livepatch)
      /\ UNCHANGED <<world, attached, token, packages, livepatch, kernel, marker, once, cached, old,
                     moved, stack>>
      /\ MachineFits /\ TokenFits /\ ControlFits /\ RestFits
  BY Parts DEF ReleaseUpgrade
<1>2. source' \in Sources /\ listed' = Listed(source')
  <2>1. listed' = Listed(source')
    BY DEF ReleaseUpgrade
  <2>2. CASE UNCHANGED source
    BY <1>1, <2>1, <2>2 DEF MachineFits
  <2>3. CASE source' = [s \in Svcs |-> IF source[s] = Absent THEN Absent ELSE "commented"]
    BY <2>1, <2>3 DEF Sources
  <2> QED
    BY <2>2, <2>3 DEF ReleaseUpgrade
<1>3. MachineFits' /\ TokenFits'
  BY <1>1, <1>2 DEF MachineFits, TokenFits, token
<1>4. RestFits'
  BY <1>1 DEF RestFits, Hide, Causes
<1>5. ControlFits' /\ stack = <<>>
  <2>1. "release" \in CommandNames /\ "upgrade" \in Labels /\ Select(EnableOrder, world) \in Seq(Svcs)
    BY Orders, Selected DEF CommandNames, Labels
  <2> QED
    BY <1>1, <2>1, StartFits
<1> QED
  BY <1>1, <1>3, <1>4, <1>5, ShapeRests

LEMMA QuietShape == ASSUME ShapeInv, Reboot \/ MarkBoot \/ AptUpdate PROVE ShapeInv'
<1>1. MachineFits /\ TokenFits /\ ControlFits /\ RestFits
  BY Parts
<1>2. CASE Reboot
  <2>1. stack' = <<>> /\ hidden' \in Causes
    BY <1>1, <1>2 DEF Reboot, Between, RestFits, Hide, Causes
  <2>2. kernel' \in {"absent", "0", "1"}
    BY <1>2 DEF Reboot
  <2>3. MachineFits' /\ TokenFits' /\ ControlFits' /\ RestFits'
    BY <1>1, <1>2, <2>1, <2>2
       DEF Reboot, MachineFits, TokenFits, ControlFits, RestFits, machine, token, control
  <2> QED
    BY <2>1, <2>3, ShapeRests
<1>3. CASE MarkBoot
  <2>1. stack' = <<>> /\ MachineFits' /\ TokenFits' /\ ControlFits' /\ RestFits'
    BY <1>1, <1>3 DEF MarkBoot, Between, MachineFits, TokenFits, ControlFits, RestFits, machine,
       token,
                      control
  <2> QED
    BY <2>1, ShapeRests
<1>4. CASE AptUpdate
  <2>1. stack' = <<>> /\ MachineFits' /\ TokenFits' /\ ControlFits' /\ RestFits'
    BY <1>1, <1>4 DEF AptUpdate, Between, MachineFits, TokenFits, ControlFits, RestFits, host,
       token,
                      control
  <2> QED
    BY <2>1, ShapeRests
<1> QED
  BY <1>2, <1>3, <1>4

LEMMA KillShape == ASSUME ShapeInv, Kill PROVE ShapeInv'
<1>1. /\ Idle /\ Hide("crash", listed # Listed(source)) /\ Outside
      /\ UNCHANGED <<attached, token, cached, moved>>
      /\ MachineFits /\ TokenFits /\ ControlFits /\ RestFits
  BY Parts DEF Kill
<1>2. MachineFits' /\ TokenFits' /\ marker' = marker
  BY <1>1, MachineKept, TokenKept DEF Outside
<1>3. RestFits'
  BY <1>1, <1>2 DEF RestFits, Hide, Causes
<1> QED
  BY <1>1, <1>2, <1>3, IdleFits, ShapeRests

LEMMA ShapeStep == ASSUME ShapeInv, [Next]_vars PROVE ShapeInv'
<1>1. CASE Operate
  BY <1>1, TryEnableShape, DescendShape, EnableLivepatchShape, WriteSourceShape, UpdateListsShape,
     InstallPackagesShape, RecordOnceShape, TryDisableShape, UninstallShape, RemoveSourceShape,
     DisableLivepatchShape DEF Operate
<1>2. CASE Conduct
  BY <1>2, EndShape, WriteStatusShape, DetachNextShape, DetachEndShape, RefreshTokenShape,
     DeltaNextShape, DeltasEndShape, BootInstallsShape, BootRefreshesShape, UpgradeNextShape,
     UpgradeEndShape DEF Conduct
<1>3. CASE Command
  BY <1>3, AttachShape, DetachCliShape, DetachApiShape, RefreshShape, BootShape, DisableShape,
     EnableShape DEF Command
<1>4. CASE Environment
  BY <1>4, ReleaseUpgradeShape, QuietShape, KillShape DEF Environment
<1>5. CASE UNCHANGED vars
  BY <1>5 DEF vars, token, machine, host, control, ShapeInv, TypeOK, StackFits, CommandFits,
     GrantsFit,
              Running, Top, Present
<1> QED
  BY <1>1, <1>2, <1>3, <1>4, <1>5 DEF Next

LEMMA ShapeInit == ASSUME Init PROVE ShapeInv
<1>1. MachineFits
  BY WorldsAssumption DEF Init, MachineFits, Sources, Listed
<1>2. /\ Nobody.grant \in [Svcs -> Grants] /\ Nobody.url \in [Svcs -> Urls] /\ Nobody \in Entitlements
      /\ \A s \in Svcs : Nobody.grant[s] = Absent
  BY DEF Nobody, Grants, Urls, Entitlements
<1>3. TokenFits
  BY <1>2 DEF Init, TokenFits
<1>4. ControlFits
  <2>1. <<>> \in Seq(Svcs)
    OBVIOUS
  <2>2. command = "none" /\ at = "idle" /\ todo = <<>> /\ failed = FALSE /\ old = Nobody /\ result = "ok"
    BY DEF Init
  <2>3. command \in CommandNames /\ at \in Labels /\ failed \in BOOLEAN
    BY <2>2 DEF CommandNames, Labels
  <2> QED
    BY <1>2, <2>1, <2>2, <2>3 DEF ControlFits
<1>5. RestFits
  BY DEF Init, RestFits, Causes
<1>6. stack = <<>> /\ stack \in Seq(Frames) /\ DOMAIN stack = {}
  <2>1. stack = <<>>
    BY DEF Init
  <2> HIDE DEF Frames
  <2> QED
    BY <2>1
<1>7. TypeOK
  BY <1>1, <1>3, <1>4, <1>5, <1>6 DEF TypeOK, MachineFits, TokenFits, ControlFits, RestFits,
     CommandNames,
                                      Labels, Entitlements, Causes, Sources
<1>8. StackFits /\ CommandFits /\ GrantsFit
  BY <1>3, <1>4, <1>6 DEF StackFits, CommandFits, GrantsFit, TokenFits, ControlFits, Running
<1> QED
  BY <1>7, <1>8 DEF ShapeInv

\* Whatever is enabled, disabled, refreshed or upgraded, and wherever it fails: the variables keep
\* their types, and apt policy knows no repository that has no source.
THEOREM TypesHold == Spec => []TypeOK
<1>1. Init => ShapeInv
  BY ShapeInit
<1>2. ShapeInv /\ [Next]_vars => ShapeInv'
  BY ShapeStep
<1>3. ShapeInv => TypeOK
  BY DEF ShapeInv
<1> QED
  BY <1>1, <1>2, <1>3, PTL DEF Spec

-----------------------------------------------------------------------------
(* What the client sees is what is there. *)

\* Who requires, uses and excludes whom.
LEMMA Kin ==
    /\ \A s \in Svcs : /\ Rivals(s) \subseteq Svcs /\ Needs(s) \subseteq Svcs /\ Users(s) \subseteq Svcs
                       /\ s \notin Rivals(s) /\ s \notin Needs(s) /\ s \notin Users(s)
                       /\ Rivals(s) # {} => Needs(s) = {} /\ Users(s) = {}
    /\ \A s, t \in Svcs : t \in Users(s) <=> s \in Needs(t)
    /\ \A s, t \in Svcs : Excludes(s, t) <=> t \in Rivals(s)
    /\ Rivals("fips") \cup Rivals("fips-preview") \cup Rivals("livepatch") \subseteq Svcs
    /\ "fips-updates" \in Rivals("fips") /\ "fips" \in Rivals("fips-updates")
    /\ "livepatch" \in Rivals("fips") /\ "fips" \in Rivals("livepatch")
    /\ \A s \in Fips \cup {"livepatch"} : Users(s) = {} /\ Needs(s) = {}
<1>1. \A s \in Svcs :
          /\ Rivals(s) = CASE s = "fips" -> {"livepatch", "fips-updates", "realtime-kernel"}
                           [] s = "fips-updates" -> {"fips", "realtime-kernel"}
                           [] s = "fips-preview" -> {"livepatch", "fips-updates", "realtime-kernel", "fips"}
                           [] s = "livepatch" -> {"fips", "realtime-kernel"}
                           [] s = "realtime-kernel" -> {"fips", "fips-updates", "livepatch"}
                           [] OTHER -> {}
          /\ Needs(s) = CASE s = "ros" -> {"esm-infra", "esm-apps"}
                          [] s = "ros-updates" -> {"esm-infra", "esm-apps", "ros"}
                          [] OTHER -> {}
          /\ Users(s) = CASE s \in {"esm-infra", "esm-apps"} -> {"ros-updates", "ros"}
                          [] s = "ros" -> {"ros-updates"}
                          [] OTHER -> {}
  BY Relations
<1>2. \A s \in Svcs : /\ Rivals(s) \subseteq Svcs /\ Needs(s) \subseteq Svcs /\ Users(s) \subseteq Svcs
                      /\ s \notin Rivals(s) /\ s \notin Needs(s) /\ s \notin Users(s)
                      /\ Rivals(s) # {} => Needs(s) = {} /\ Users(s) = {}
  BY <1>1 DEF Svcs
<1>3. \A s, t \in Svcs : t \in Users(s) <=> s \in Needs(t)
  BY <1>1 DEF Svcs
<1>4. \A s, t \in Svcs : Excludes(s, t) <=> t \in Rivals(s)
  BY DEF Excludes, Rivals, Members
<1>5. /\ "fips-updates" \in Rivals("fips") /\ "fips" \in Rivals("fips-updates")
      /\ "livepatch" \in Rivals("fips") /\ "fips" \in Rivals("livepatch")
  BY <1>1 DEF Svcs
<1>6. \A s \in Fips \cup {"livepatch"} : Users(s) = {} /\ Needs(s) = {}
  BY <1>1 DEF Svcs, Fips
<1>7. Rivals("fips") \cup Rivals("fips-preview") \cup Rivals("livepatch") \subseteq Svcs
  BY <1>2 DEF Svcs
<1> QED
  BY <1>2, <1>3, <1>4, <1>5, <1>6, <1>7

\* The client's status of a service agrees with the machine.
LEMMA StatusSeen ==
    ASSUME ShapeInv, Seen, NEW s \in Svcs
    PROVE  /\ ~Present(s) => Status(s) = "disabled" /\ (s \in Repos => source[s] = Absent)
           /\ Present(s) => grant[s] # Absent
           /\ Present(s) /\ ~(Running("update") /\ Top.svc = s) =>
                  Status(s) # "disabled" /\ (s \notin Fips => Status(s) = "enabled")
           /\ s \in Repos => (Present(s) <=> source[s] # Absent)
<1>1. url \in [Svcs -> Urls] /\ livepatch \in BOOLEAN
  BY MachineTypes DEF ShapeInv, TypeOK
<1>2. CASE s = "livepatch"
  BY <1>1, <1>2 DEF Present, Status, Seen, Fips, Repos
<1>3. CASE s # "livepatch"
  <2>1. s \in Repos /\ url[s] \in Urls /\ Absent \notin Urls
    BY <1>1, <1>3 DEF Repos, Urls, Absent
  <2>2. source[s] = Absent \/ (source[s] = url[s] /\ grant[s] # Absent)
    BY <2>1 DEF Seen
  <2>3. Present(s) <=> source[s] # Absent
    BY <1>3, <2>1, <2>2 DEF Present
  <2>4. ASSUME ~Present(s) PROVE Status(s) = "disabled"
    <3>1. ~RepoOn(s)
      BY <2>1, <2>3, <2>4 DEF RepoOn
    <3> QED
      BY <1>3, <3>1 DEF Status
  <2>5. ASSUME Present(s), ~(Running("update") /\ Top.svc = s)
        PROVE  Status(s) # "disabled" /\ (s \notin Fips => Status(s) = "enabled")
    <3>1. RepoOn(s)
      BY <2>1, <2>2, <2>3, <2>5 DEF RepoOn, Seen
    <3>2. ~(s \in Fips /\ kernel = "0")
      BY <2>3, <2>5 DEF Seen
    <3> QED
      BY <1>3, <3>1, <3>2 DEF Status
  <2> QED
    BY <2>1, <2>2, <2>3, <2>4, <2>5
<1> QED
  BY <1>2, <1>3

\* What is there can be disabled.
LEMMA Disables ==
    ASSUME ShapeInv, Seen, Apart, Stand, ~Running("update"), NEW s \in Svcs, Present(s)
    PROVE  CanDisable(s) /\ Applicable(s) /\ s \in world
<1>1. grant[s] # Absent /\ Status(s) # "disabled"
  BY StatusSeen
<1>2. ~(upgraded /\ s \in Unfit)
  BY DEF Seen
<1>3. ASSUME s \in {"fips", "fips-preview"} PROVE Status("fips-updates") = "disabled" /\ ~once
  <2>1. ~once
    BY <1>3 DEF Apart
  <2>2. ~Present("fips-updates")
    <3>1. CASE s = "fips"
      BY <3>1, Kin DEF Stand, Svcs
    <3>2. CASE s = "fips-preview"
      BY <3>2 DEF Apart
    <3> QED
      BY <1>3, <3>1, <3>2
  <2>3. "fips-updates" \in Svcs
    BY DEF Svcs
  <2> QED
    BY <2>1, <2>2, <2>3, StatusSeen
<1>4. ASSUME s = "livepatch" PROVE Status("fips") # "enabled"
  <2>1. ~Present("fips") /\ "fips" \in Svcs
    BY <1>4, Kin DEF Stand, Svcs
  <2> QED
    BY <2>1, StatusSeen
<1>5. s \in world
  BY <1>1 DEF ShapeInv, GrantsFit
<1> QED
  BY <1>1, <1>2, <1>3, <1>4, <1>5 DEF CanDisable, Applicable

\* A step does to the services what the operation on top is there to do.
TopOnly ==
    /\ grant' = grant /\ upgraded' = upgraded
    /\ \A s \in Svcs : s # Top.svc => (Present(s)' <=> Present(s))
    /\ Top.op = "enable" => \A s \in Svcs : Present(s) => Present(s)'
    /\ Top.op = "disable" => once' = once /\ \A s \in Svcs : Present(s)' => Present(s)

\* The operations below the one on top are not surprised.
LEMMA Kept ==
    ASSUME ShapeInv, stack # <<>>, NEW j \in 2..Len(stack), NEW k \in Nat, EnableFits(j), DisableFits(j),
           TopOnly, stack'[k] = stack[j],
           \A s \in Svcs : s \in Left(j) =>
               s \in Left(k)' \/ (s = Top.svc /\ (Top.op = "enable" <=> Present(s)'))
    PROVE  EnableFits(k)' /\ DisableFits(k)' /\ SetUpFits(k)'
<1>1. /\ stack \in Seq(Frames) /\ Top = stack[1] /\ DOMAIN stack = 1..Len(stack) /\ Len(stack) \in Nat
      /\ j \in DOMAIN stack /\ j > 1 /\ 1 \in 1..(j - 1) /\ StackFits /\ Top.svc \in Svcs
  BY Inner, MachineTypes
<1>2. /\ Above(stack[j], Top) /\ Called(stack[j], stack[j - 1])
      /\ PlaceFits(stack[j].op, stack[j].svc, stack[j].at)
  BY <1>1 DEF StackFits
<1>3. stack[j].svc \in Svcs
  <2>1. stack[j] \in Frames
    <3> HIDE DEF Frames
    <3> QED
      BY <1>1
  <2> QED
    BY <2>1, FrameTypes
<1>4. Needs(stack[j].svc) \subseteq Svcs /\ Users(stack[j].svc) \subseteq Svcs /\ Rivals(stack[j].svc) \subseteq Svcs
  BY <1>3, Kin
<1>5. CASE stack[j].at = "provide"
  <2>1. /\ Top.op = "enable" /\ Top.svc \in {"esm-infra", "esm-apps", "ros"} /\ stack[j].op = "enable"
        /\ Needs(stack[j].svc) # {}
    BY <1>2, <1>5 DEF Above, Called, PlaceFits
  <2>2. stack[j].svc \in {"ros", "ros-updates"} /\ Top.svc \notin Users(stack[j].svc)
    BY <1>3, <2>1, Relations
  <2>3. EnableFits(k)'
    BY <1>4, <1>5, <2>1, <2>2 DEF EnableFits, TopOnly
  <2> QED
    BY <1>5, <2>1, <2>3 DEF DisableFits, SetUpFits
<1>6. CASE stack[j].at = "make_room"
  <2>1. Top.op = "disable" /\ stack[j].op = "enable"
    BY <1>2, <1>6 DEF Above, PlaceFits
  <2>2. EnableFits(k)'
    BY <1>4, <1>6, <2>1, Kin DEF EnableFits, TopOnly, Svcs
  <2> QED
    BY <1>6, <2>1, <2>2 DEF DisableFits, SetUpFits
<1>7. CASE stack[j].at = "clear"
  <2>1. Top.op = "disable" /\ stack[j].op = "disable"
    BY <1>2, <1>7 DEF Above, PlaceFits
  <2>2. DisableFits(k)'
    BY <1>4, <1>7, <2>1 DEF DisableFits, TopOnly
  <2> QED
    BY <1>7, <2>1, <2>2 DEF EnableFits, SetUpFits
<1> QED
  BY <1>2, <1>5, <1>6, <1>7 DEF Called

\* With the operation on top changed, ...
LEMMA CallsAdvance ==
    ASSUME ShapeInv, CallsFit, stack # <<>>, NEW place \in Places, NEW list \in Seq(Svcs),
           Now(place, list), PlaceFits(Top.op, Top.svc, place), ListFits(Top.svc, place, list), TopOnly,
           EnableFits(1)', DisableFits(1)', SetUpFits(1)'
    PROVE  CallsFit'
<1>1. /\ stack' \in Seq(Frames) /\ Len(stack') = Len(stack) /\ stack'[1].svc = Top.svc
      /\ \A k \in 2..Len(stack) : stack'[k] = stack[k]
  BY StackAdvances DEF ShapeInv
<1>2. Top = stack[1] /\ DOMAIN stack = 1..Len(stack) /\ Len(stack) \in Nat
  BY Inner
<1>3. DOMAIN stack' = 1..Len(stack)
  <2> HIDE DEF Frames
  <2> QED
    BY <1>1
<1>4. ASSUME NEW j \in 2..Len(stack) PROVE EnableFits(j)' /\ DisableFits(j)' /\ SetUpFits(j)'
  <2>1. j \in Nat /\ j \in DOMAIN stack /\ j > 1 /\ (j - 1 = 1 \/ j - 1 \in 2..Len(stack))
    BY <1>2
  <2>2. stack'[j] = stack[j] /\ stack'[j - 1].svc = stack[j - 1].svc
    BY <1>1, <1>2, <2>1
  <2>3. Left(j)' = Left(j)
    BY <2>1, <2>2 DEF Left
  <2>4. EnableFits(j) /\ DisableFits(j)
    BY <2>1 DEF CallsFit
  <2> QED
    BY <2>1, <2>2, <2>3, <2>4, Kept
<1>5. \A j \in 1..Len(stack) : j = 1 \/ j \in 2..Len(stack)
  BY <1>2
<1> QED
  BY <1>3, <1>4, <1>5 DEF CallsFit

\* ... with it returned, having done what it was called for, ...
LEMMA CallsReturn ==
    ASSUME ShapeInv, CallsFit, stack # <<>>, stack' = Tail(stack), TopOnly,
           \A s \in Svcs : s = Top.svc => (Top.op = "enable" <=> Present(s)')
    PROVE  CallsFit'
<1>1. /\ stack' \in Seq(Frames) /\ Len(stack') = Len(stack) - 1
      /\ \A k \in 1..(Len(stack) - 1) : stack'[k] = stack[k + 1] /\ k + 1 \in DOMAIN stack
  BY StackReturns DEF ShapeInv
<1>2. Top = stack[1] /\ DOMAIN stack = 1..Len(stack) /\ Len(stack) \in Nat
  BY Inner
<1>3. DOMAIN stack' = 1..(Len(stack) - 1)
  <2> HIDE DEF Frames
  <2> QED
    BY <1>1
<1>4. ASSUME NEW k \in 1..(Len(stack) - 1) PROVE EnableFits(k)' /\ DisableFits(k)' /\ SetUpFits(k)'
  <2>1. /\ k \in Nat /\ k + 1 \in 2..Len(stack) /\ k + 1 > 1 /\ (k + 1) - 1 = k
        /\ stack'[k] = stack[k + 1] /\ k + 1 \in DOMAIN stack
    BY <1>1, <1>2
  <2>2. EnableFits(k + 1) /\ DisableFits(k + 1)
    BY <2>1 DEF CallsFit
  <2>3. \A s \in Svcs : s \in Left(k + 1) =>
            s \in Left(k)' \/ (s = Top.svc /\ (Top.op = "enable" <=> Present(s)'))
    <3>1. CASE k = 1
      BY <1>2, <2>1, <3>1 DEF Left
    <3>2. CASE k # 1
      <4>1. k - 1 \in 1..(Len(stack) - 1) /\ (k - 1) + 1 = k /\ k > 1
        BY <1>2, <3>2
      <4>2. stack'[k - 1] = stack[k]
        BY <1>1, <4>1
      <4> QED
        BY <2>1, <4>1, <4>2 DEF Left
    <3> QED
      BY <3>1, <3>2
  <2> QED
    BY <2>1, <2>2, <2>3, Kept
<1> QED
  BY <1>3, <1>4 DEF CallsFit

\* ... or with another one called, the operations fit.
LEMMA CallsCall ==
    ASSUME ShapeInv, CallsFit, Descend, Top.todo # <<>>, TopOnly
    PROVE  CallsFit'
<1>1. /\ stack' \in Seq(Frames) /\ Len(stack') = Len(stack) + 1 /\ Top' = stack'[1]
      /\ Top'.op \in {"enable", "disable"} /\ Top'.svc = Head(Top.todo) /\ Top'.at = Top'.op
      /\ stack'[2].op = Top.op /\ stack'[2].svc = Top.svc /\ stack'[2].at = Top.at
      /\ stack'[2].todo = Tail(Top.todo)
      /\ \A k \in 3..(Len(stack) + 1) : k - 1 \in 2..Len(stack) /\ stack'[k] = stack[k - 1]
  BY Calls
<1>2. stack # <<>> /\ Top.at \in Callers /\ UNCHANGED <<machine, once>> /\ Inside
  BY DEF Descend, Running, Callers
<1>3. /\ Top = stack[1] /\ DOMAIN stack = 1..Len(stack) /\ Len(stack) \in Nat /\ Len(stack) >= 1
      /\ Top.todo \in Seq(Svcs) /\ PlaceFits(Top.op, Top.svc, Top.at) /\ Top.svc \in Svcs
  BY <1>2, Inner
<1>4. DOMAIN stack' = 1..(Len(stack) + 1)
  <2> HIDE DEF Frames
  <2> QED
    BY <1>1
<1>5. EnableFits(1)' /\ DisableFits(1)' /\ SetUpFits(1)'
  BY <1>1 DEF EnableFits, DisableFits, SetUpFits
<1>6. EnableFits(2)' /\ DisableFits(2)' /\ SetUpFits(2)'
  <2>1. EnableFits(1) /\ DisableFits(1)
    BY <1>3 DEF CallsFit
  <2>2. Members(Top.todo) = {Head(Top.todo)} \cup Members(Tail(Top.todo))
    BY <1>3, MembersOf
  <2>3. Left(1) = Members(Top.todo) /\ Left(2)' = Members(Tail(Top.todo)) \cup {Head(Top.todo)}
    BY <1>1, <1>3 DEF Left
  <2>4. Left(2)' = Left(1)
    BY <2>2, <2>3
  <2>5. /\ source' = source /\ livepatch' = livepatch /\ once' = once /\ grant' = grant
        /\ upgraded' = upgraded
    BY <1>2, Stays DEF machine
  <2>6. EnableFits(2)' /\ DisableFits(2)'
    BY <1>1, <1>3, <2>1, <2>4, <2>5 DEF EnableFits, DisableFits, Present
  <2> QED
    BY <1>1, <1>2, <1>3, <2>6 DEF SetUpFits, PlaceFits, Callers
<1>7. ASSUME NEW k \in 3..(Len(stack) + 1) PROVE EnableFits(k)' /\ DisableFits(k)' /\ SetUpFits(k)'
  <2>1. /\ k \in Nat /\ k > 1 /\ k - 1 \in 2..Len(stack) /\ k - 1 > 1 /\ stack'[k] = stack[k - 1]
        /\ k - 1 \in DOMAIN stack
    BY <1>1, <1>3
  <2>2. stack'[k - 1].svc = stack[(k - 1) - 1].svc
    <3>1. CASE k = 3
      BY <1>1, <1>3, <3>1
    <3>2. CASE k # 3
      <4>1. k - 1 \in 3..(Len(stack) + 1)
        BY <1>3, <3>2
      <4> QED
        BY <1>1, <4>1
    <3> QED
      BY <3>1, <3>2
  <2>3. Left(k)' = Left(k - 1)
    BY <2>1, <2>2 DEF Left
  <2>4. EnableFits(k - 1) /\ DisableFits(k - 1)
    BY <2>1 DEF CallsFit
  <2> QED
    BY <1>2, <2>1, <2>3, <2>4, Kept
<1>8. \A k \in 1..(Len(stack) + 1) : k = 1 \/ k = 2 \/ k \in 3..(Len(stack) + 1)
  BY <1>3
<1> QED
  BY <1>4, <1>5, <1>6, <1>7, <1>8 DEF CallsFit

LEMMA CallsEmpty == ASSUME stack' = <<>> PROVE CallsFit'
BY DEF CallsFit

\* A step that leaves the machine and the token alone.
LEMMA SightSteady ==
    ASSUME ShapeInv, Sight, ~Running("update"), UNCHANGED <<machine, once, kernel, upgraded>>,
           UNCHANGED <<attached, token>>, CallsFit', DetachFits'
    PROVE  Sight'
<1>1. /\ source' = source /\ listed' = listed /\ packages' = packages /\ livepatch' = livepatch
      /\ once' = once /\ kernel' = kernel /\ upgraded' = upgraded /\ attached' = attached
      /\ grant' = grant /\ url' = url
  BY DEF machine, token
<1>2. Seen /\ Apart /\ Stand /\ Detached /\ Packed
  BY DEF Sight
<1>3. Seen'
  BY <1>1, <1>2 DEF Seen, Present
<1>4. Apart' /\ Stand' /\ Detached' /\ Packed'
  BY <1>1, <1>2 DEF Apart, Stand, Detached, Packed, Present
<1> QED
  BY <1>3, <1>4 DEF Sight

\* A detach has only operations that disable.
LEMMA NotDetach ==
    ASSUME ShapeInv, stack # <<>>, Top.op # "disable" PROVE at # "detach"
BY Inner DEF CommandFits

LEMMA Elsewhere == ASSUME at' # "detach" \/ (result' = "raise" /\ stack' = <<>>) PROVE DetachFits'
BY DEF DetachFits

LEMMA Unmoved == ASSUME Inside, UNCHANGED <<machine, once>> PROVE TopOnly
BY Stays DEF TopOnly, Present, machine

-----------------------------------------------------------------------------
(* The steps of an operation, while nothing is out of sight. *)

LEMMA TryEnableSight == ASSUME ShapeInv, Sight, TryEnable PROVE Sight'
<1>1. stack # <<>> /\ Top.at = "enable" /\ Inside /\ UNCHANGED <<machine, once, hidden>>
  BY DEF TryEnable, Running
<1>2. /\ Top.svc \in Svcs /\ PlaceFits(Top.op, Top.svc, Top.at) /\ Top = stack[1]
      /\ DOMAIN stack = 1..Len(stack) /\ Len(stack) \in Nat /\ Len(stack) >= 1
  BY <1>1, Inner
<1>3. Top.op = "enable"
  BY <1>1, <1>2 DEF PlaceFits
<1>4. at # "detach" /\ at' = at /\ ~Running("update")
  BY <1>1, <1>3, NotDetach, Stays DEF Running
<1>5. UNCHANGED <<machine, once, kernel, upgraded, attached, token>> /\ DetachFits'
  BY <1>1, <1>4, Elsewhere DEF Inside, host
<1>6. CallsFit /\ TopOnly /\ Seen /\ Apart /\ Stand
  BY <1>1, Unmoved DEF Sight
<1>7. CASE Unwind("no")
  BY <1>4, <1>5, <1>7, CallsEmpty, SightSteady DEF Unwind
<1>8. ASSUME NEW place \in {"make_room", "provide", "apply"}, NEW list \in Seq(Svcs), Now(place, list),
             ListFits(Top.svc, place, list),
             grant[Top.svc] = "yes", Status(Top.svc) = "disabled", Applicable(Top.svc),
             place = "make_room" => /\ \A t \in Rivals(Top.svc) : Present(t) => t \in Members(list)
                                    /\ Rivals(Top.svc) # {},
             place = "provide" => /\ \A t \in Needs(Top.svc) : Present(t) \/ t \in Members(list)
                                  /\ Needs(Top.svc) # {},
             place = "apply" => /\ \A t \in Rivals(Top.svc) : ~Present(t)
                                /\ \A t \in Needs(Top.svc) : Present(t)
      PROVE  Sight'
  <2>1. /\ place \in Places /\ PlaceFits(Top.op, Top.svc, place)
    BY <1>3, <1>8 DEF Places, PlaceFits
  <2>2. /\ Len(stack') = Len(stack) /\ stack'[1].op = Top.op /\ stack'[1].svc = Top.svc
        /\ stack'[1].at = place /\ stack'[1].todo = list
    BY <1>1, <1>8, <2>1, StackAdvances DEF ShapeInv
  <2>3. /\ source' = source /\ livepatch' = livepatch /\ once' = once /\ grant' = grant
        /\ upgraded' = upgraded
    BY <1>1, Stays DEF machine
  <2>4. ~(upgraded /\ Top.svc \in Unfit)
    BY <1>8 DEF Applicable, Absent
  <2>5. Top.svc \in {"fips", "fips-preview"} => ~once /\ ~Present("fips-updates")
    <3>1. Top.svc \in {"fips", "fips-preview"} => ~once /\ Status("fips-updates") = "disabled"
      BY <1>8 DEF Applicable, Absent
    <3>2. "fips-updates" \in Svcs
      BY DEF Svcs
    <3> QED
      BY <1>4, <1>6, <3>1, <3>2, StatusSeen
  <2>6. \A o \in Users(Top.svc) : ~Present(o)
    <3>1. ~Present(Top.svc)
      BY <1>2, <1>4, <1>6, <1>8, StatusSeen
    <3> QED
      BY <1>2, <1>6, <3>1, Kin DEF Stand
  <2>7. Left(1)' = Members(list)
    BY <2>2 DEF Left
  <2>8. EnableFits(1)'
    BY <1>8, <2>2, <2>3, <2>4, <2>5, <2>6, <2>7 DEF EnableFits, Present
  <2>9. DisableFits(1)' /\ SetUpFits(1)'
    BY <1>3, <1>8, <2>2 DEF DisableFits, SetUpFits
  <2>10. CallsFit'
    BY <1>1, <1>6, <1>8, <2>1, <2>8, <2>9, CallsAdvance
  <2> QED
    BY <1>4, <1>5, <2>10, SightSteady
<1>9. ASSUME ~Unwind("no")
      PROVE  grant[Top.svc] = "yes" /\ Status(Top.svc) = "disabled" /\ Applicable(Top.svc)
  BY <1>9 DEF TryEnable
<1>10. /\ BlockingIncompatible(Top.svc) \in Seq(Svcs)
       /\ Members(BlockingIncompatible(Top.svc)) = Rivals(Top.svc) \cap {o \in Svcs : Status(o) # "disabled"}
       /\ BlockingRequired(Top.svc) \in Seq(Svcs)
       /\ Members(BlockingRequired(Top.svc)) = Needs(Top.svc) \cap {o \in Svcs : Status(o) = "disabled"}
  BY <1>2, Relations, Selected DEF BlockingIncompatible, BlockingRequired, Rivals, Needs
<1>11. Rivals(Top.svc) \subseteq Svcs /\ Needs(Top.svc) \subseteq Svcs
  BY <1>2, Kin
<1>12. \A o \in Svcs : Status(o) = "disabled" <=> ~Present(o)
  BY <1>4, <1>6, StatusSeen
<1>13. CASE /\ Now("make_room", BlockingIncompatible(Top.svc)) /\ ~Unwind("no")
            /\ BlockingIncompatible(Top.svc) # <<>>
  <2>1. Rivals(Top.svc) # {}
    BY <1>10, <1>13, MembersOf
  <2> QED
    BY <1>8, <1>9, <1>10, <1>11, <1>12, <1>13, <2>1 DEF ListFits
<1>14. CASE /\ Now("provide", BlockingRequired(Top.svc)) /\ ~Unwind("no")
            /\ BlockingRequired(Top.svc) # <<>>
  <2>1. Needs(Top.svc) # {}
    BY <1>10, <1>14, MembersOf
  <2> QED
    BY <1>8, <1>9, <1>10, <1>11, <1>12, <1>14, <2>1 DEF ListFits
<1>15. CASE /\ Now("apply", <<>>) /\ ~Unwind("no")
            /\ BlockingIncompatible(Top.svc) = <<>> /\ BlockingRequired(Top.svc) = <<>>
  <2>1. Members(BlockingIncompatible(Top.svc)) = {} /\ Members(BlockingRequired(Top.svc)) = {}
    BY <1>10, <1>15, MembersOf
  <2>2. <<>> \in Seq(Svcs) /\ ListFits(Top.svc, "apply", <<>>)
    BY DEF ListFits
  <2> QED
    BY <1>8, <1>9, <1>10, <1>11, <1>12, <1>15, <2>1, <2>2
<1> QED
  BY <1>7, <1>13, <1>14, <1>15 DEF TryEnable

LEMMA DescendSight == ASSUME ShapeInv, Sight, Descend PROVE Sight'
<1>1. /\ stack # <<>> /\ Top.at \in Callers /\ Inside /\ UNCHANGED <<machine, once, hidden>>
      /\ result' = result
  BY DEF Descend, Running, Callers
<1>2. /\ Top.svc \in Svcs /\ PlaceFits(Top.op, Top.svc, Top.at) /\ Top = stack[1] /\ Top.todo \in Seq(Svcs)
      /\ DOMAIN stack = 1..Len(stack) /\ Len(stack) \in Nat /\ Len(stack) >= 1
  BY <1>1, Inner
<1>3. /\ at' = at /\ todo' = todo /\ ~Running("update")
      /\ UNCHANGED <<machine, once, kernel, upgraded, attached, token>>
  BY <1>1, Stays DEF Running, Callers, Inside, host
<1>4. CallsFit /\ TopOnly /\ Seen /\ Apart /\ Stand /\ DetachFits
  BY <1>1, Unmoved DEF Sight
<1>5. CASE Top.todo # <<>>
  <2>1. CallsFit'
    BY <1>4, <1>5, CallsCall
  <2>2. at # "detach"
    <3>1. ASSUME at = "detach" PROVE FALSE
      <4>1. Top.at = "clear" => Top.todo = <<>>
        BY <1>1, <1>4, <3>1 DEF DetachFits
      <4>2. Top.op = "disable"
        BY <1>1, <3>1, NotDetach
      <4> QED
        BY <1>1, <1>2, <1>5, <4>1, <4>2 DEF PlaceFits, Callers
    <3> QED
      BY <3>1
  <2>3. DetachFits'
    BY <1>1, <1>3, <2>2, Elsewhere
  <2> QED
    BY <1>3, <2>1, <2>3, SightSteady
<1>6. CASE Top.todo = <<>>
  <2> DEFINE place == IF Top.at = "clear" THEN "uninstall" ELSE "apply"
  <2>1. Now(place, <<>>)
    BY <1>6 DEF Descend
  <2>2. /\ PlaceFits(Top.op, Top.svc, place) /\ place \in Places /\ <<>> \in Seq(Svcs)
        /\ ListFits(Top.svc, place, <<>>)
    BY <1>1, <1>2 DEF PlaceFits, ListFits, Places, Callers
  <2>3. /\ Len(stack') = Len(stack) /\ stack'[1].op = Top.op /\ stack'[1].svc = Top.svc
        /\ stack'[1].at = place /\ stack'[1].todo = <<>> /\ Top' = stack'[1] /\ stack' # <<>>
    <3> HIDE DEF place
    <3> QED
      BY <1>1, <2>1, <2>2, StackAdvances DEF ShapeInv
  <2>4. /\ source' = source /\ livepatch' = livepatch /\ once' = once /\ grant' = grant
        /\ upgraded' = upgraded
    BY <1>1, Stays DEF machine
  <2>5. EnableFits(1) /\ DisableFits(1) /\ Left(1) = {}
    BY <1>2, <1>4, <1>6 DEF CallsFit, Left, Members
  <2>6. EnableFits(1)'
    <3>1. CASE Top.op # "enable"
      BY <2>3, <3>1 DEF EnableFits
    <3>2. CASE Top.op = "enable"
      <4>1. place = "apply" /\ Top.at \in {"make_room", "provide"}
        BY <1>1, <1>2, <3>2 DEF PlaceFits, Callers
      <4>2. \A t \in Rivals(Top.svc) : ~Present(t)
        <5>1. CASE Top.at = "make_room"
          BY <1>2, <2>5, <3>2, <5>1 DEF EnableFits
        <5>2. CASE Top.at = "provide"
          <6>1. Needs(Top.svc) # {}
            BY <1>2, <5>2 DEF PlaceFits
          <6> QED
            BY <1>2, <6>1, Kin
        <5> QED
          BY <4>1, <5>1, <5>2
      <4>3. \A t \in Needs(Top.svc) : Present(t)
        <5>1. CASE Top.at = "provide"
          BY <1>2, <2>5, <3>2, <5>1 DEF EnableFits
        <5>2. CASE Top.at = "make_room"
          <6>1. Rivals(Top.svc) # {}
            BY <1>2, <5>2 DEF PlaceFits
          <6> QED
            BY <1>2, <6>1, Kin
        <5> QED
          BY <4>1, <5>1, <5>2
      <4> QED
        BY <1>2, <2>3, <2>4, <2>5, <3>2, <4>1, <4>2, <4>3 DEF EnableFits, Present
    <3> QED
      BY <3>1, <3>2
  <2>7. DisableFits(1)'
    BY <1>1, <1>2, <2>3, <2>4, <2>5 DEF DisableFits, Present, PlaceFits, Callers
  <2>8. SetUpFits(1)'
    BY <1>1, <1>2, <2>3 DEF SetUpFits, PlaceFits, Callers
  <2>9. CallsFit'
    <3> HIDE DEF place
    <3> QED
      BY <1>1, <1>4, <2>1, <2>2, <2>6, <2>7, <2>8, CallsAdvance
  <2>10. DetachFits'
    <3>1. place # "clear"
      OBVIOUS
    <3> HIDE DEF place
    <3> QED
      BY <1>1, <1>2, <1>3, <1>4, <2>3, <2>4, <3>1 DEF DetachFits, Present
  <2> QED
    BY <1>3, <2>9, <2>10, SightSteady
<1> QED
  BY <1>5, <1>6

\* A service that comes, with those it requires there and its rivals gone, ...
LEMMA Gains ==
    ASSUME ShapeInv, Sight, NEW t \in Svcs, \A s \in Svcs : s # t => (Present(s)' <=> Present(s)),
           Present(t) => Present(t)', \A r \in Rivals(t) : ~Present(r), \A r \in Needs(t) : Present(r),
           attached, attached' = attached, once' = once, packages' = packages,
           t \in {"fips", "fips-preview"} => ~once,
           t = "fips-updates" => ~Present("fips-preview"),
           t = "fips-preview" => ~Present("fips-updates")
    PROVE  Apart' /\ Stand' /\ Detached' /\ Packed'
<1>1. Apart /\ Stand /\ Packed
  BY DEF Sight
<1>2. Apart'
  BY <1>1 DEF Apart, Svcs
<1>3. Stand'
  <2>1. ASSUME NEW s \in Svcs, Present(s)', NEW r \in Needs(s) PROVE Present(r)'
    <3>1. r \in Svcs /\ r # s
      BY <2>1, Kin
    <3>2. Present(r)
      BY <1>1, <2>1 DEF Stand
    <3> QED
      BY <3>1, <3>2
  <2>2. ASSUME NEW s \in Svcs, NEW r \in Rivals(s), s \in Rivals(r), Present(s)', Present(r)' PROVE FALSE
    <3>1. r \in Svcs /\ r # s
      BY <2>2, Kin
    <3>2. s # t /\ r # t
      BY <2>2, <3>1
    <3> QED
      BY <1>1, <2>2, <3>1, <3>2 DEF Stand
  <2> QED
    BY <2>1, <2>2 DEF Stand
<1>4. Packed'
  BY <1>1 DEF Packed
<1> QED
  BY <1>2, <1>3, <1>4 DEF Detached

\* ... and one that goes, with nobody left that requires it, leave the others in order.
LEMMA Loses ==
    ASSUME ShapeInv, Sight, NEW t \in Svcs, \A s \in Svcs : s # t => (Present(s)' <=> Present(s)),
           Present(t)' => Present(t), \A o \in Users(t) : ~Present(o), Brings(t) \cap packages = {},
           packages' = packages, attached' = attached, once' = once
    PROVE  Apart' /\ Stand' /\ Detached' /\ Packed'
<1>1. Apart /\ Stand /\ Packed /\ Detached
  BY DEF Sight
<1>2. \A s \in Svcs : Present(s)' => Present(s)
  OBVIOUS
<1>3. Apart' /\ Detached'
  BY <1>1, <1>2 DEF Apart, Detached, Svcs
<1>4. Stand'
  <2>1. ASSUME NEW s \in Svcs, Present(s)', NEW r \in Needs(s) PROVE Present(r)'
    <3>1. r \in Svcs /\ Present(r)
      BY <1>1, <1>2, <2>1, Kin DEF Stand
    <3>2. r # t
      BY <1>2, <2>1, Kin
    <3> QED
      BY <3>1, <3>2
  <2>2. ASSUME NEW s \in Svcs, NEW r \in Rivals(s), s \in Rivals(r), Present(s)', Present(r)' PROVE FALSE
    <3>1. r \in Svcs
      BY <2>2, Kin
    <3> QED
      BY <1>1, <1>2, <2>2, <3>1 DEF Stand
  <2> QED
    BY <2>1, <2>2 DEF Stand
<1>5. Packed'
  <2>1. ASSUME NEW p \in packages PROVE \E s \in Svcs : p \in Brings(s) /\ Present(s)'
    <3>1. PICK s \in Svcs : p \in Brings(s) /\ Present(s)
      BY <1>1, <2>1 DEF Packed
    <3>2. s # t
      BY <2>1, <3>1
    <3> QED
      BY <3>1, <3>2
  <2> QED
    BY <2>1 DEF Packed
<1> QED
  BY <1>3, <1>4, <1>5

\* What is there remains.
LEMMA Remains ==
    ASSUME Sight, \A s \in Svcs : Present(s)' <=> Present(s), packages' = packages,
           attached' = attached, once' = once
    PROVE  Apart' /\ Stand' /\ Detached' /\ Packed'
<1>1. Apart /\ Stand /\ Packed /\ Detached
  BY DEF Sight
<1>2. Apart' /\ Detached' /\ Packed'
  BY <1>1 DEF Apart, Detached, Packed, Svcs
<1>3. \A s \in Svcs : Needs(s) \subseteq Svcs /\ Rivals(s) \subseteq Svcs
  BY Kin
<1>4. Stand'
  BY <1>1, <1>3 DEF Stand
<1> QED
  BY <1>2, <1>4

\* The source of one service goes.
LEMMA SeenLoses ==
    ASSUME ShapeInv, Seen, NEW t \in Svcs, source' = [source EXCEPT ![t] = Absent],
           listed' \in {listed \ {t}, Listed(source')}, Running("update") => Top.svc = t,
           UNCHANGED <<kernel, upgraded, grant, url, livepatch>>
    PROVE  /\ Seen' /\ \A s \in Svcs : s # t => (Present(s)' <=> Present(s))
           /\ t \in Repos => ~Present(t)'
<1>1. /\ source'[t] = Absent /\ \A s \in Svcs : s # t => source'[s] = source[s]
  BY SourceGoes
<1>2. /\ \A s \in Svcs : s # t => (Present(s)' <=> Present(s))
      /\ t \in Repos => ~Present(t)'
  BY <1>1 DEF Present, Repos, Urls, Absent
<1>3. \A s \in Repos : s \in Svcs
  BY DEF Repos
<1>4. \A s \in Repos : source'[s] = Absent \/ (source'[s] = url'[s] /\ grant'[s] # Absent)
  BY <1>1, <1>3 DEF Seen
<1>5. \A s \in Repos : source'[s] # Absent => s \in listed'
  <2>1. ASSUME NEW s \in Repos, source'[s] # Absent PROVE s \in listed'
    <3>1. s # t /\ source[s] # Absent
      BY <1>1, <1>3, <2>1
    <3>2. s \in listed
      BY <2>1, <3>1 DEF Seen
    <3>3. source'[s] \in Urls
      BY <1>3, <1>4, <2>1, MachineTypes
    <3> QED
      BY <2>1, <3>1, <3>2, <3>3 DEF Listed
  <2> QED
    BY <2>1
<1>6. kernel' = "0" => \A s \in Fips : source'[s] = Absent
  BY <1>1 DEF Seen, Fips, Svcs
<1>7. upgraded' => \A s \in Unfit : ~Present(s)'
  <2>1. Unfit \subseteq Svcs
    BY WorldsAssumption
  <2>2. \A s \in Svcs : Present(s)' => Present(s)
    BY <1>1, <1>2 DEF Present, Urls, Absent
  <2> QED
    BY <2>1, <2>2 DEF Seen
<1>8. livepatch' => grant'["livepatch"] # Absent
  BY DEF Seen
<1> QED
  BY <1>2, <1>4, <1>5, <1>6, <1>7, <1>8 DEF Seen

\* Where an operation that adds to the machine stands.
LEMMA Adding ==
    ASSUME ShapeInv, Sight, stack # <<>>, Top.at \in {"apply", "update", "install", "record"}
    PROVE  /\ Top.op \in {"enable", "set_up", "install"} /\ at # "detach" /\ attached /\ Top.svc \in Svcs
           /\ \A o \in Users(Top.svc) : ~Present(o)
           /\ Top.op = "enable" =>
                  /\ ~(upgraded /\ Top.svc \in Unfit) /\ grant[Top.svc] = "yes"
                  /\ Top.svc \in {"fips", "fips-preview"} => ~once /\ ~Present("fips-updates")
                  /\ \A t \in Rivals(Top.svc) : ~Present(t)
                  /\ \A t \in Needs(Top.svc) : Present(t)
                  /\ Top.at # "apply" => Present(Top.svc)
           /\ Top.op = "set_up" => Present(Top.svc) /\ Top.svc \in {"fips", "livepatch"}
           /\ Top.op = "install" => Top.svc = "fips"
           /\ Top.op # "enable" => Len(stack) = 1 /\ Tail(stack) = <<>>
           /\ Top.svc \in Repos \/ Top.svc = "livepatch"
<1>1. /\ PlaceFits(Top.op, Top.svc, Top.at) /\ Top = stack[1] /\ 1 \in DOMAIN stack /\ Top.svc \in Svcs
      /\ Len(stack) \in Nat /\ attached /\ stack \in Seq(Frames)
      /\ Top.op \notin {"enable", "disable"} => Len(stack) = 1
  BY Inner, MachineTypes
<1>2. /\ Top.op \in {"enable", "set_up", "install"}
      /\ Top.op = "install" => Top.svc = "fips"
  BY <1>1 DEF PlaceFits
<1>3. at # "detach"
  BY <1>2, NotDetach
<1>4. EnableFits(1) /\ SetUpFits(1)
  BY <1>1 DEF Sight, CallsFit
<1>5. /\ Top.op = "enable" =>
             /\ ~(upgraded /\ Top.svc \in Unfit) /\ grant[Top.svc] = "yes"
             /\ Top.svc \in {"fips", "fips-preview"} => ~once /\ ~Present("fips-updates")
             /\ \A t \in Rivals(Top.svc) : ~Present(t)
             /\ \A t \in Needs(Top.svc) : Present(t)
             /\ Top.at # "apply" => Present(Top.svc)
             /\ \A o \in Users(Top.svc) : ~Present(o)
      /\ Top.op = "set_up" => Present(Top.svc) /\ Top.svc \in {"fips", "livepatch"}
  BY <1>1, <1>4 DEF EnableFits, SetUpFits
<1>6. \A o \in Users(Top.svc) : ~Present(o)
  <2>1. "fips" \in Fips \cup {"livepatch"} /\ "livepatch" \in Fips \cup {"livepatch"}
    BY DEF Fips
  <2> QED
    BY <1>2, <1>5, <2>1, Kin
<1>7. Top.op # "enable" => Len(stack) = 1 /\ Tail(stack) = <<>>
  <2>1. Len(stack) = 1 => Tail(stack) = <<>>
    <3> HIDE DEF Frames
    <3>1. Tail(stack) \in Seq(Frames) /\ Len(Tail(stack)) = Len(stack) - 1
      BY <1>1, HeadAndTail
    <3>2. Len(stack) = 1 => Len(Tail(stack)) = 0
      BY <3>1
    <3> QED
      BY <3>1, <3>2, NoLength
  <2> QED
    BY <1>1, <1>2, <2>1
<1> QED
  BY <1>1, <1>2, <1>3, <1>5, <1>6, <1>7 DEF Repos

\* What a step that adds something may assume of the rest, and what it comes to.
LEMMA SightFrom ==
    ASSUME Seen', Apart', Stand', CallsFit', DetachFits', Detached', Packed' PROVE Sight'
BY DEF Sight

LEMMA EnableLivepatchSight == ASSUME ShapeInv, Sight, EnableLivepatch PROVE Sight'
<1>1. /\ stack # <<>> /\ Top.at = "apply" /\ Top.svc = "livepatch" /\ Inside
      /\ UNCHANGED <<source, listed, packages, once, hidden>>
  BY DEF EnableLivepatch, Running
<1>2. /\ at # "detach" /\ attached /\ Top.svc \in Svcs
      /\ Top.op = "enable" => /\ ~(upgraded /\ Top.svc \in Unfit) /\ grant[Top.svc] = "yes"
                              /\ \A t \in Rivals(Top.svc) : ~Present(t)
      /\ Top.op \in {"enable", "set_up", "install"} /\ Top.op # "install"
      /\ Top.op = "set_up" => Present(Top.svc) /\ Tail(stack) = <<>>
  BY <1>1, Adding
<1>3. /\ at' = at /\ attached' = attached /\ grant' = grant /\ url' = url /\ kernel' = kernel
      /\ upgraded' = upgraded /\ ~Running("update")
  BY <1>1, Stays DEF Running
<1>4. /\ Seen /\ Apart /\ Stand /\ Packed /\ CallsFit /\ livepatch \in BOOLEAN
      /\ "livepatch" \in Svcs /\ "livepatch" \notin Repos /\ Unfit \subseteq Svcs
      /\ Users("livepatch") = {} /\ Needs("livepatch") = {} /\ Brings("livepatch") = {}
  BY Kin, MachineTypes, WorldsAssumption DEF Sight, Svcs, Repos, Brings, Fips
<1>5. /\ \A s \in Svcs : s # "livepatch" => (Present(s)' <=> Present(s))
      /\ Present("livepatch") <=> livepatch
      /\ Present("livepatch")' <=> livepatch'
  BY <1>1 DEF Present
<1>6. DetachFits'
  BY <1>2, <1>3, Elsewhere
<1>7. CASE livepatch' = TRUE /\ Done
  <2>1. Seen'
    <3>1. \A s \in Repos : source'[s] = Absent \/ (source'[s] = url'[s] /\ grant'[s] # Absent)
      BY <1>1, <1>3, <1>4 DEF Seen
    <3>2. livepatch' => grant'["livepatch"] # Absent
      BY <1>1, <1>2, <1>3, <1>4, <1>5 DEF Seen, Absent
    <3>3. /\ \A s \in Repos : source'[s] # Absent => s \in listed'
          /\ kernel' = "0" => \A s \in Fips : source'[s] = Absent
      BY <1>1, <1>3, <1>4 DEF Seen
    <3>4. upgraded' => \A s \in Unfit : ~Present(s)'
      BY <1>1, <1>2, <1>3, <1>4, <1>5 DEF Seen
    <3> QED
      BY <3>1, <3>2, <3>3, <3>4 DEF Seen
  <2>2. Apart' /\ Stand' /\ Detached' /\ Packed'
    <3>1. CASE Top.op = "enable"
      BY <1>1, <1>2, <1>3, <1>4, <1>5, <1>7, <3>1, Gains
    <3>2. CASE Top.op # "enable"
      <4>1. \A s \in Svcs : Present(s)' <=> Present(s)
        BY <1>1, <1>2, <1>5, <1>7, <3>2
      <4> QED
        BY <1>1, <1>2, <1>3, <1>4, <4>1, Loses
    <3> QED
      BY <3>1, <3>2
  <2>3. CallsFit'
    <3>1. CASE Top.op = "enable"
      <4>1. TopOnly
        BY <1>1, <1>3, <1>5, <1>7, <3>1 DEF TopOnly
      <4> QED
        BY <1>1, <1>4, <1>5, <1>7, <3>1, <4>1, CallsReturn DEF Done
    <3>2. CASE Top.op # "enable"
      BY <1>2, <1>7, <3>2, CallsEmpty DEF Done
    <3> QED
      BY <3>1, <3>2
  <2> QED
    BY <1>6, <2>1, <2>2, <2>3, SightFrom
<1>8. CASE stack' = <<>> /\ livepatch' \in {livepatch, FALSE}
  <2>1. Seen'
    BY <1>1, <1>3, <1>4, <1>5, <1>8 DEF Seen
  <2>2. Apart' /\ Stand' /\ Detached' /\ Packed'
    BY <1>1, <1>3, <1>4, <1>5, <1>8, Loses
  <2> QED
    BY <1>6, <1>8, <2>1, <2>2, CallsEmpty, SightFrom
<1> QED
  BY <1>7, <1>8 DEF EnableLivepatch, Unwind

LEMMA DropSourceSight ==
    ASSUME ShapeInv, Sight, stack # <<>>, Top.at \in {"apply", "update", "install"}, Top.svc \in Repos,
           Inside, DropSource, UNCHANGED <<packages, livepatch, once>>, hidden = "nothing", InSight'
    PROVE  Sight'
<1>1. at # "detach" /\ attached /\ Top.svc \in Svcs /\ \A o \in Users(Top.svc) : ~Present(o)
  BY Adding
<1>6. PICK this \in Svcs : this = Top.svc
  BY <1>1
<1>2. /\ at' = at /\ attached' = attached /\ grant' = grant /\ url' = url /\ kernel' = kernel
      /\ upgraded' = upgraded /\ once' = once /\ packages' = packages /\ livepatch' = livepatch
  BY Stays
<1>3. /\ source' = [source EXCEPT ![this] = Absent]
      /\ listed' \in {listed \ {this}, Listed(source')} /\ stack' = <<>>
      /\ Brings(this) \cap packages = {}
  BY <1>6 DEF DropSource, Hide, InSight, Unwind
<1>4. /\ Seen' /\ \A s \in Svcs : s # this => (Present(s)' <=> Present(s))
      /\ ~Present(this)'
  <2>1. Seen /\ this \in Repos /\ (Running("update") => Top.svc = this)
    BY <1>6 DEF Sight
  <2>2. UNCHANGED <<kernel, upgraded, grant, url, livepatch>>
    BY <1>2
  <2> QED
    BY <1>3, <2>1, <2>2, SeenLoses
<1>5. Apart' /\ Stand' /\ Detached' /\ Packed'
  BY <1>1, <1>2, <1>3, <1>4, <1>6, Loses
<1> QED
  BY <1>1, <1>2, <1>3, <1>4, <1>5, CallsEmpty, Elsewhere, SightFrom

LEMMA WriteSourceSight == ASSUME ShapeInv, Sight, WriteSource, hidden = "nothing", InSight' PROVE Sight'
<1>1. /\ stack # <<>> /\ Top.at = "apply" /\ Top.svc \in Repos /\ Inside
      /\ UNCHANGED <<packages, livepatch, once>>
  BY DEF WriteSource, Running
<1>2. /\ at # "detach" /\ attached /\ Top.svc \in Svcs
      /\ Top.op = "enable" => /\ ~(upgraded /\ Top.svc \in Unfit) /\ grant[Top.svc] = "yes"
                              /\ Top.svc \in {"fips", "fips-preview"} => ~once /\ ~Present("fips-updates")
                              /\ \A t \in Rivals(Top.svc) : ~Present(t)
                              /\ \A t \in Needs(Top.svc) : Present(t)
      /\ Top.op \in {"enable", "set_up", "install"}
      /\ Top.op = "set_up" => Present(Top.svc) /\ Top.svc \in {"fips", "livepatch"}
      /\ \A o \in Users(Top.svc) : ~Present(o)
  BY <1>1, Adding
<1>3. /\ at' = at /\ attached' = attached /\ grant' = grant /\ url' = url /\ kernel' = kernel
      /\ upgraded' = upgraded /\ once' = once /\ packages' = packages /\ livepatch' = livepatch
      /\ ~Running("update")
  BY <1>1, Stays DEF Running
<1>4. /\ Seen /\ Apart /\ Stand /\ Packed /\ CallsFit /\ Unfit \subseteq Svcs
      /\ url \in [Svcs -> Urls] /\ \A s \in Repos : s \in Svcs
  BY MachineTypes, WorldsAssumption DEF Sight, Repos
<1>5. DetachFits'
  BY <1>2, <1>3, Elsewhere
<1>6. CASE Unwind("raise") /\ UNCHANGED <<source, listed, hidden>>
  <2>1. UNCHANGED <<machine, once, kernel, upgraded, attached, token>>
    BY <1>1, <1>6 DEF machine, Inside, host
  <2> QED
    BY <1>3, <1>5, <1>6, <2>1, CallsEmpty, SightSteady DEF Unwind
<1>7. CASE DropSource
  BY <1>1, <1>7, DropSourceSight
<1>8. CASE /\ source' = [source EXCEPT ![Top.svc] = url[Top.svc]]
           /\ Now("update", <<>>) /\ UNCHANGED <<listed, result>>
           /\ LET preview == Top.svc = "fips-updates" /\ Present("fips-preview")
              IN  Hide(IF preview THEN "preview" ELSE "kernel",
                       preview \/ (kernel = "0" /\ Top.svc \in Fips))
  <2>1. /\ ~(Top.svc = "fips-updates" /\ Present("fips-preview"))
        /\ ~(kernel = "0" /\ Top.svc \in Fips)
    BY <1>8 DEF Hide, InSight
  <2>2. /\ source'[Top.svc] = url[Top.svc] /\ source'[Top.svc] \in Urls
        /\ \A s \in Svcs : s # Top.svc => source'[s] = source[s]
    BY <1>1, <1>8, SourceComes
  <2>3. /\ \A s \in Svcs : s # Top.svc => (Present(s)' <=> Present(s))
        /\ \A s \in Svcs : s = Top.svc => Present(s)'
    BY <1>1, <1>3, <2>2 DEF Present, Repos
  <2>4. /\ PlaceFits(Top.op, Top.svc, "update") /\ "update" \in Places /\ <<>> \in Seq(Svcs)
        /\ ListFits(Top.svc, "update", <<>>) /\ Top.op \in {"enable", "set_up"}
    <3>1. PlaceFits(Top.op, Top.svc, Top.at)
      BY <1>1, Inner
    <3> QED
      BY <1>1, <1>2, <3>1 DEF PlaceFits, ListFits, Places, Repos
  <2>5. /\ stack' # <<>> /\ Top' = stack'[1] /\ stack'[1].op = Top.op /\ stack'[1].svc = Top.svc
        /\ stack'[1].at = "update"
    BY <1>1, <1>8, <2>4, StackAdvances DEF ShapeInv
  <2>6. grant[Top.svc] # Absent
    <3>1. CASE Top.op = "enable"
      BY <1>2, <3>1 DEF Absent
    <3>2. CASE Top.op = "set_up"
      BY <1>2, <1>4, <3>2, StatusSeen
    <3> QED
      BY <2>4, <3>1, <3>2
  <2>7. Seen'
    <3>1. \A s \in Repos : source'[s] = Absent \/ (source'[s] = url'[s] /\ grant'[s] # Absent)
      BY <1>3, <1>4, <2>2, <2>6 DEF Seen
    <3>2. livepatch' => grant'["livepatch"] # Absent
      BY <1>3, <1>4 DEF Seen
    <3>3. \A s \in Repos : source'[s] # Absent => s \in listed' \/ (Running("update")' /\ Top'.svc = s)
      BY <1>3, <1>4, <1>8, <2>2, <2>5 DEF Seen, Running
    <3>4. kernel' = "0" => \A s \in Fips : source'[s] = Absent
      BY <1>3, <1>4, <2>1, <2>2 DEF Seen, Fips, Svcs
    <3>5. upgraded' => \A s \in Unfit : ~Present(s)'
      <4>1. upgraded => Top.svc \notin Unfit
        <5>1. CASE Top.op = "enable"
          BY <1>2, <5>1
        <5>2. CASE Top.op = "set_up"
          BY <1>2, <1>4, <5>2 DEF Seen
        <5> QED
          BY <2>4, <5>1, <5>2
      <4> QED
        BY <1>3, <1>4, <2>3, <4>1 DEF Seen
    <3> QED
      BY <3>1, <3>2, <3>3, <3>4, <3>5 DEF Seen
  <2>8. Apart' /\ Stand' /\ Detached' /\ Packed'
    <3>1. CASE Top.op = "enable"
      <4>1. /\ Top.svc \in {"fips", "fips-preview"} => ~once
            /\ Top.svc = "fips-updates" => ~Present("fips-preview")
            /\ Top.svc = "fips-preview" => ~Present("fips-updates")
            /\ \A t \in Rivals(Top.svc) : ~Present(t)
            /\ \A t \in Needs(Top.svc) : Present(t)
        BY <1>2, <1>4, <2>1, <3>1 DEF Apart
      <4>2. PICK this \in Svcs : this = Top.svc
        BY <1>2
      <4>3. /\ \A s \in Svcs : s # this => (Present(s)' <=> Present(s))
            /\ Present(this) => Present(this)'
        BY <2>3, <4>2
      <4> QED
        BY <1>2, <1>3, <4>1, <4>2, <4>3, Gains
    <3>2. CASE Top.op = "set_up"
      <4>1. \A s \in Svcs : Present(s)' <=> Present(s)
        BY <1>2, <2>3, <3>2
      <4> QED
        BY <1>3, <4>1, Remains
    <3> QED
      BY <2>4, <3>1, <3>2
  <2>9. TopOnly
    BY <1>2, <1>3, <2>3, <2>4 DEF TopOnly
  <2>10. EnableFits(1)' /\ DisableFits(1)' /\ SetUpFits(1)'
    <3>1. /\ \A o \in Users(Top.svc) : o \in Svcs /\ o # Top.svc
          /\ \A o \in Rivals(Top.svc) : o \in Svcs /\ o # Top.svc
          /\ \A o \in Needs(Top.svc) : o \in Svcs /\ o # Top.svc
      BY <1>2, Kin
    <3>2. "fips-updates" \in Svcs
      BY DEF Svcs
    <3>3. EnableFits(1)'
      <4>1. CASE Top.op # "enable"
        BY <2>5, <4>1 DEF EnableFits
      <4>2. CASE Top.op = "enable"
        BY <1>2, <1>3, <2>3, <2>5, <3>1, <3>2, <4>2 DEF EnableFits
      <4> QED
        BY <4>1, <4>2
    <3>4. DisableFits(1)' /\ SetUpFits(1)'
      BY <1>2, <2>3, <2>5 DEF DisableFits, SetUpFits
    <3> QED
      BY <3>3, <3>4
  <2>11. CallsFit'
    BY <1>1, <1>4, <1>8, <2>4, <2>9, <2>10, CallsAdvance
  <2> QED
    BY <1>5, <2>7, <2>8, <2>11, SightFrom
<1> QED
  BY <1>6, <1>7, <1>8 DEF WriteSource

LEMMA UpdateListsSight == ASSUME ShapeInv, Sight, UpdateLists, hidden = "nothing", InSight' PROVE Sight'
<1>1. /\ stack # <<>> /\ Top.at = "update" /\ Running("update") /\ Inside
      /\ UNCHANGED <<packages, livepatch, once>>
  BY DEF UpdateLists, Running
<1>2. /\ at # "detach" /\ attached /\ Top.svc \in Svcs /\ Top.op \in {"enable", "set_up", "install"}
      /\ Top.op # "enable" => Tail(stack) = <<>>
  BY <1>1, Adding
<1>3. PlaceFits(Top.op, Top.svc, Top.at) /\ Top = stack[1] /\ 1 \in DOMAIN stack
  BY <1>1, Inner
<1>4. Top.svc \in Repos /\ Top.op \in {"enable", "set_up"}
  BY <1>1, <1>2, <1>3 DEF PlaceFits, Repos
<1>5. /\ at' = at /\ attached' = attached /\ grant' = grant /\ url' = url /\ kernel' = kernel
      /\ upgraded' = upgraded /\ once' = once /\ packages' = packages /\ livepatch' = livepatch
  BY <1>1, Stays
<1>6. Seen /\ Apart /\ Stand /\ Packed /\ CallsFit
  BY DEF Sight
<1>7. DetachFits'
  BY <1>2, <1>5, Elsewhere
<1>8. ASSUME listed' = listed \cup {Top.svc}, source' = source
      PROVE  /\ Seen' /\ Apart' /\ Stand' /\ Detached' /\ Packed'
             /\ \A s \in Svcs : Present(s)' <=> Present(s)
  <2>1. \A s \in Svcs : Present(s)' <=> Present(s)
    BY <1>5, <1>8 DEF Present
  <2>2. Seen'
    BY <1>5, <1>6, <1>8 DEF Seen, Present
  <2> QED
    BY <1>5, <2>1, <2>2, Remains
<1>9. CASE listed' = listed \cup {Top.svc} /\ source' = source /\ Top.op = "set_up" /\ Done
  BY <1>2, <1>7, <1>8, <1>9, CallsEmpty, SightFrom DEF Done
<1>10. CASE /\ listed' = listed \cup {Top.svc} /\ source' = source /\ Top.op # "set_up"
            /\ Now(IF Top.access THEN "record" ELSE "install", <<>>)
  <2> DEFINE place == IF Top.access THEN "record" ELSE "install"
  <2>1. Now(place, <<>>) /\ place \in {"record", "install"}
    BY <1>10
  <2> HIDE DEF place
  <2>2. /\ PlaceFits(Top.op, Top.svc, place) /\ place \in Places /\ <<>> \in Seq(Svcs)
        /\ ListFits(Top.svc, place, <<>>) /\ Top.op = "enable"
    BY <1>1, <1>3, <1>4, <1>10, <2>1 DEF PlaceFits, ListFits, Places, Repos
  <2>3. /\ stack' # <<>> /\ stack'[1].op = Top.op /\ stack'[1].svc = Top.svc
        /\ stack'[1].at = place
    BY <1>1, <2>1, <2>2, StackAdvances DEF ShapeInv
  <2>4. TopOnly
    BY <1>5, <1>8, <1>10 DEF TopOnly
  <2>5. EnableFits(1)' /\ DisableFits(1)' /\ SetUpFits(1)'
    <3>1. EnableFits(1)
      BY <1>3, <1>6 DEF CallsFit
    <3>2. /\ source' = source /\ livepatch' = livepatch
      BY <1>5, <1>10
    <3> QED
      BY <1>1, <1>3, <1>5, <2>1, <2>2, <2>3, <3>1, <3>2 DEF EnableFits, DisableFits, SetUpFits,
         Present
  <2>6. CallsFit'
    BY <1>1, <1>6, <2>1, <2>2, <2>4, <2>5, CallsAdvance
  <2> QED
    BY <1>7, <1>8, <1>10, <2>6, SightFrom
<1>11. CASE /\ source' = [source EXCEPT ![Top.svc] = Absent] /\ listed' = listed \ {Top.svc}
            /\ Hide("lost_source", Brings(Top.svc) \cap packages # {}) /\ Unwind("raise")
  <2>1. DropSource
    BY <1>11 DEF DropSource
  <2> QED
    BY <1>1, <1>4, <2>1, DropSourceSight
<1> QED
  BY <1>9, <1>10, <1>11 DEF UpdateLists

LEMMA InstallPackagesSight ==
    ASSUME ShapeInv, Sight, InstallPackages, hidden = "nothing", InSight' PROVE Sight'
<1>1. /\ stack # <<>> /\ Top.at = "install" /\ ~Running("update") /\ Inside
      /\ UNCHANGED <<livepatch, once>>
  BY DEF InstallPackages, Running
<1>2. /\ at # "detach" /\ attached /\ Top.svc \in Svcs /\ Top.op \in {"enable", "set_up", "install"}
      /\ Top.op = "enable" => Present(Top.svc)
      /\ Top.op # "enable" => Tail(stack) = <<>>
  BY <1>1, Adding
<1>3. PlaceFits(Top.op, Top.svc, Top.at) /\ Top = stack[1] /\ 1 \in DOMAIN stack
  BY <1>1, Inner
<1>4. Top.svc \in Repos
  BY <1>1, <1>2, <1>3 DEF PlaceFits, Repos
<1>5. /\ at' = at /\ attached' = attached /\ grant' = grant /\ url' = url /\ kernel' = kernel
      /\ upgraded' = upgraded /\ once' = once /\ livepatch' = livepatch
  BY <1>1, Stays
<1>6. Seen /\ Apart /\ Stand /\ Packed /\ CallsFit /\ Detached
  BY DEF Sight
<1>7. DetachFits'
  BY <1>2, <1>5, Elsewhere
<1>8. ASSUME Available(Top.svc), packages' = packages \cup Brings(Top.svc),
             UNCHANGED <<source, listed, hidden>>
      PROVE  Seen' /\ Apart' /\ Stand' /\ Detached' /\ Packed'
  <2>1. \A s \in Svcs : Present(s)' <=> Present(s)
    BY <1>5, <1>8 DEF Present
  <2>2. Seen'
    BY <1>1, <1>5, <1>6, <1>8 DEF Seen, Present
  <2>3. Apart' /\ Detached' /\ Stand'
    BY <1>5, <1>6, <1>8 DEF Apart, Detached, Stand, Present
  <2>4. ASSUME NEW p \in packages' PROVE \E s \in Svcs : p \in Brings(s) /\ Present(s)'
    <3>1. CASE p \in packages
      BY <1>6, <2>1, <3>1 DEF Packed
    <3>2. CASE p \notin packages
      <4>1. p \in Brings(Top.svc) \ packages
        BY <1>8, <3>2
      <4>2. PICK r \in listed : p \in Brings(r) /\ source[r] \in Urls
        BY <1>8, <4>1 DEF Available
      <4>3. r \in Svcs /\ r # "livepatch"
        BY MachineTypes DEF Listed, Repos
      <4> QED
        BY <2>1, <4>2, <4>3 DEF Present
    <3> QED
      BY <3>1, <3>2
  <2> QED
    BY <2>2, <2>3, <2>4 DEF Packed
<1>9. CASE /\ Available(Top.svc) /\ packages' = packages \cup Brings(Top.svc)
           /\ UNCHANGED <<source, listed, hidden>> /\ Top.op # "enable" /\ Done
  BY <1>2, <1>7, <1>8, <1>9, CallsEmpty, SightFrom DEF Done
<1>10. CASE /\ Available(Top.svc) /\ packages' = packages \cup Brings(Top.svc)
            /\ UNCHANGED <<source, listed, hidden>> /\ Top.op = "enable" /\ Now("record", <<>>)
  <2>1. /\ PlaceFits(Top.op, Top.svc, "record") /\ "record" \in Places /\ <<>> \in Seq(Svcs)
        /\ ListFits(Top.svc, "record", <<>>)
    BY <1>1, <1>3, <1>10 DEF PlaceFits, ListFits, Places
  <2>2. /\ stack' # <<>> /\ stack'[1].op = Top.op /\ stack'[1].svc = Top.svc
        /\ stack'[1].at = "record"
    BY <1>1, <1>10, <2>1, StackAdvances DEF ShapeInv
  <2>3. TopOnly
    BY <1>5, <1>10 DEF TopOnly, Present
  <2>4. EnableFits(1)' /\ DisableFits(1)' /\ SetUpFits(1)'
    <3>1. EnableFits(1)
      BY <1>3, <1>6 DEF CallsFit
    <3>2. /\ source' = source /\ livepatch' = livepatch
      BY <1>5, <1>10
    <3> QED
      BY <1>1, <1>3, <1>5, <1>10, <2>2, <3>1, <3>2 DEF EnableFits, DisableFits, SetUpFits, Present
  <2>5. CallsFit'
    BY <1>1, <1>6, <1>10, <2>1, <2>3, <2>4, CallsAdvance
  <2> QED
    BY <1>7, <1>8, <1>10, <2>5, SightFrom
<1>11. CASE DropSource /\ UNCHANGED packages
  BY <1>1, <1>4, <1>11, DropSourceSight
<1> QED
  BY <1>9, <1>10, <1>11 DEF InstallPackages

LEMMA RecordOnceSight == ASSUME ShapeInv, Sight, RecordOnce PROVE Sight'
<1>1. /\ stack # <<>> /\ Top.at = "record" /\ ~Running("update") /\ Inside
      /\ UNCHANGED <<machine, hidden>>
  BY DEF RecordOnce, Running
<1>2. PlaceFits(Top.op, Top.svc, Top.at)
  BY <1>1, Inner
<1>3. Top.op = "enable"
  BY <1>1, <1>2 DEF PlaceFits
<1>4. /\ at # "detach" /\ attached /\ Top.svc \in Svcs /\ Present(Top.svc)
      /\ \A t \in Rivals(Top.svc) : ~Present(t)
  BY <1>1, <1>3, Adding
<1>5. /\ at' = at /\ attached' = attached /\ grant' = grant /\ url' = url /\ kernel' = kernel
      /\ upgraded' = upgraded /\ source' = source /\ listed' = listed /\ packages' = packages
      /\ livepatch' = livepatch
  BY <1>1, Stays DEF machine
<1>6. Seen /\ Apart /\ Stand /\ Packed /\ CallsFit /\ Detached
  BY DEF Sight
<1>7. DetachFits'
  BY <1>4, <1>5, Elsewhere
<1>14. CASE Unwind("raise") /\ UNCHANGED once
  BY <1>1, <1>5, <1>7, <1>14, CallsEmpty, SightSteady DEF Unwind, token
<1> SUFFICES ASSUME Done, once' = (once \/ Top.svc = "fips-updates") PROVE Sight'
  BY <1>14 DEF RecordOnce
<1>8. \A s \in Svcs : Present(s)' <=> Present(s)
  BY <1>5 DEF Present
<1>9. Seen' /\ Stand' /\ Detached' /\ Packed'
  BY <1>1, <1>5, <1>6 DEF Seen, Stand, Detached, Packed, Present
<1>10. Apart'
  <2>1. CASE Top.svc # "fips-updates"
    BY <1>1, <1>5, <1>6, <2>1 DEF Apart, Present
  <2>2. CASE Top.svc = "fips-updates"
    <3>1. ~Present("fips") /\ ~Present("fips-preview")
      BY <1>4, <1>6, <2>2, Kin DEF Apart
    <3> QED
      BY <1>5, <1>6, <3>1 DEF Apart, Present
  <2> QED
    BY <2>1, <2>2
<1>11. TopOnly
  BY <1>3, <1>5, <1>8 DEF TopOnly
<1>12. \A s \in Svcs : s = Top.svc => (Top.op = "enable" <=> Present(s)')
  BY <1>3, <1>4, <1>8
<1>13. CallsFit'
  BY <1>1, <1>6, <1>11, <1>12, CallsReturn DEF Done
<1> QED
  BY <1>7, <1>9, <1>10, <1>13, SightFrom

LEMMA TryDisableSight == ASSUME ShapeInv, Sight, TryDisable PROVE Sight'
<1>1. stack # <<>> /\ Top.at = "disable" /\ Inside /\ UNCHANGED <<machine, once, hidden>>
  BY DEF TryDisable, Running
<1>2. /\ Top.svc \in Svcs /\ PlaceFits(Top.op, Top.svc, Top.at) /\ Top = stack[1]
      /\ DOMAIN stack = 1..Len(stack) /\ Len(stack) \in Nat /\ Len(stack) >= 1
  BY <1>1, Inner
<1>3. Top.op = "disable" /\ ~Running("update")
  BY <1>1, <1>2 DEF PlaceFits, Running
<1>4. /\ UNCHANGED <<machine, once, kernel, upgraded, attached, token>>
      /\ at' = at /\ todo' = todo /\ source' = source /\ livepatch' = livepatch
      /\ once' = once /\ grant' = grant /\ upgraded' = upgraded
  BY <1>1, Stays DEF Inside, host, machine
<1>5. CallsFit /\ TopOnly /\ Seen /\ Apart /\ Stand /\ DetachFits
  BY <1>1, Unmoved DEF Sight
<1>6. CASE Now("clear", BlockingDependents(Top.svc)) /\ UNCHANGED result
  <2> DEFINE list == BlockingDependents(Top.svc)
  <2>1. /\ list \in Seq(Svcs)
        /\ Members(list) = Users(Top.svc) \cap {o \in Svcs : Status(o) = "enabled"}
    BY <1>2, Relations, Selected DEF BlockingDependents, Users
  <2>2. Now("clear", list)
    BY <1>6
  <2>3. \A o \in Users(Top.svc) : o \in Svcs /\ o \notin Fips
    BY <1>2, Relations, Kin DEF Fips
  <2>4. \A o \in Users(Top.svc) : Present(o) <=> o \in Members(list)
    BY <1>3, <1>5, <2>1, <2>3, StatusSeen
  <2> HIDE DEF list
  <2>5. /\ PlaceFits(Top.op, Top.svc, "clear") /\ "clear" \in Places /\ ListFits(Top.svc, "clear", list)
    BY <1>1, <1>2, <2>1 DEF PlaceFits, ListFits, Places
  <2>6. /\ Len(stack') = Len(stack) /\ stack'[1].op = Top.op /\ stack'[1].svc = Top.svc
        /\ stack'[1].at = "clear" /\ stack'[1].todo = list /\ Top' = stack'[1] /\ stack' # <<>>
    BY <1>1, <2>1, <2>2, <2>5, StackAdvances DEF ShapeInv
  <2>7. Left(1)' = Members(list)
    BY <2>6 DEF Left
  <2>8. EnableFits(1)' /\ DisableFits(1)' /\ SetUpFits(1)'
    BY <1>3, <1>4, <2>4, <2>6, <2>7 DEF EnableFits, DisableFits, SetUpFits, Present
  <2>9. CallsFit'
    BY <1>1, <1>5, <2>1, <2>2, <2>5, <2>8, CallsAdvance
  <2>10. ASSUME at = "detach", result # "raise" PROVE list = <<>>
    <3>1. /\ \A s \in Svcs : Present(s) => s \in Members(todo) \cup {Top.svc}
          /\ \A s \in Members(todo) : Rank(Top.svc) < Rank(s)
      BY <1>1, <1>5, <2>10 DEF DetachFits
    <3>2. \A o \in Users(Top.svc) : o # Top.svc /\ ~(Rank(Top.svc) < Rank(o))
      <4>1. /\ Rank("ros-updates") = 1 /\ Rank("ros") = 2 /\ Rank("esm-apps") = 3
            /\ Rank("esm-infra") = 4
        BY DEF Rank
      <4>2. CASE Top.svc \in {"esm-infra", "esm-apps"}
        <5>1. Users(Top.svc) = {"ros-updates", "ros"}
          BY <1>2, <4>2, Relations
        <5> QED
          BY <4>1, <4>2, <5>1
      <4>3. CASE Top.svc = "ros"
        <5>1. Users(Top.svc) = {"ros-updates"}
          BY <1>2, <4>3, Relations
        <5> QED
          BY <4>1, <4>3, <5>1
      <4>4. CASE Top.svc \notin {"esm-infra", "esm-apps", "ros"}
        <5>1. Users(Top.svc) = {}
          BY <1>2, <4>4, Relations
        <5> QED
          BY <5>1
      <4> QED
        BY <4>2, <4>3, <4>4
    <3>3. Members(list) = {}
      BY <2>1, <2>3, <2>4, <3>1, <3>2
    <3> QED
      BY <2>1, <3>3, MembersOf
  <2>11. DetachFits'
    BY <1>1, <1>2, <1>4, <1>5, <1>6, <2>6, <2>10 DEF DetachFits, Present
  <2> QED
    BY <1>3, <1>4, <2>9, <2>11, SightSteady
<1>7. CASE Unwind("no") /\ ~CanDisable(Top.svc)
  <2>1. ~Present(Top.svc)
    BY <1>2, <1>3, <1>5, <1>7, Disables
  <2>2. stack' = <<>> /\ result' = "no"
    BY <1>7 DEF Unwind
  <2>3. ASSUME at = "detach"
        PROVE  Sorted(todo) /\ \A s \in Svcs : Present(s) => s \in Members(todo)
    <3>1. result # "raise" /\ Len(stack) <= 1
      BY <1>1, <1>5, <2>3 DEF DetachFits
    <3>2. \A s \in Svcs : Present(s) => s \in Members(todo) \cup {Top.svc}
      BY <1>1, <1>5, <2>3, <3>1 DEF DetachFits
    <3> QED
      BY <1>1, <1>5, <2>1, <2>3, <3>1, <3>2 DEF DetachFits
  <2>4. DetachFits'
    BY <1>4, <2>2, <2>3 DEF DetachFits, Present
  <2> QED
    BY <1>3, <1>4, <2>2, <2>4, CallsEmpty, SightSteady
<1> QED
  BY <1>6, <1>7 DEF TryDisable

\* Where an operation that takes from the machine stands.
LEMMA Removing ==
    ASSUME ShapeInv, Sight, stack # <<>>, Top.at \in {"uninstall", "unconfigure"}
    PROVE  /\ Top.op = "disable" /\ Top.svc \in Svcs /\ attached /\ ~Running("update")
           /\ \A o \in Users(Top.svc) : ~Present(o)
           /\ Top.at = "unconfigure" => Top.svc \in Repos /\ Brings(Top.svc) \cap packages = {}
<1>1. /\ Top.svc \in Svcs /\ PlaceFits(Top.op, Top.svc, Top.at) /\ Top = stack[1] /\ 1 \in DOMAIN stack
      /\ attached
  BY Inner
<1>2. Top.op = "disable" /\ (Top.at = "unconfigure" => Top.svc \in Repos)
  BY <1>1 DEF PlaceFits, Repos
<1>3. DisableFits(1)
  BY <1>1 DEF Sight, CallsFit
<1>4. \A o \in Users(Top.svc) : ~Present(o)
  BY <1>1, <1>3 DEF DisableFits
<1>5. Top.at = "unconfigure" => Brings(Top.svc) \cap packages = {}
  BY DEF ShapeInv, GrantsFit, Running
<1> QED
  BY <1>1, <1>2, <1>4, <1>5 DEF Running

\* It returns to a detach that goes on.
LEMMA DetachReturns ==
    ASSUME ShapeInv, Sight, stack # <<>>, stack' = Tail(stack), at' = at, todo' = todo, result' = "ok",
           \A s \in Svcs : s # Top.svc => (Present(s)' <=> Present(s)),
           \A s \in Svcs : s = Top.svc => ~Present(s)'
    PROVE  DetachFits'
<1>1. DetachFits /\ Len(stack) \in Nat /\ Len(stack) >= 1 /\ stack \in Seq(Frames)
  BY Inner, MachineTypes DEF Sight
<1>2. Len(stack) = 1 => stack' = <<>>
  <2> HIDE DEF Frames
  <2>1. Tail(stack) \in Seq(Frames) /\ Len(Tail(stack)) = Len(stack) - 1
    BY <1>1, HeadAndTail
  <2>2. Len(stack) = 1 => Len(Tail(stack)) = 0
    BY <2>1
  <2> QED
    BY <2>1, <2>2, NoLength
<1>3. Len(<<>>) = 0
  OBVIOUS
<1> QED
  BY <1>1, <1>2, <1>3 DEF DetachFits

\* Packages may go.
LEMMA PackagesGo ==
    ASSUME ShapeInv, Sight, ~Running("update"), packages' \subseteq packages,
           UNCHANGED <<source, listed, livepatch, once, kernel, upgraded, attached, grant, url>>
    PROVE  /\ Seen' /\ Apart' /\ Stand' /\ Detached' /\ Packed'
           /\ \A s \in Svcs : Present(s)' <=> Present(s)
<1>1. Seen /\ Apart /\ Stand /\ Detached /\ Packed
  BY DEF Sight
<1>2. Seen'
  BY <1>1 DEF Seen, Present
<1>3. Apart' /\ Stand' /\ Detached' /\ Packed' /\ \A s \in Svcs : Present(s)' <=> Present(s)
  BY <1>1 DEF Apart, Stand, Detached, Packed, Present
<1> QED
  BY <1>2, <1>3

LEMMA UninstallSight == ASSUME ShapeInv, Sight, Uninstall PROVE Sight'
<1>1. /\ stack # <<>> /\ Top.at = "uninstall" /\ Top.svc \in Repos /\ Inside
      /\ UNCHANGED <<source, listed, livepatch, once, hidden>> /\ packages' \subseteq packages
  BY DEF Uninstall, Running
<1>2. /\ Top.op = "disable" /\ ~Running("update") /\ Top.svc \in Svcs
      /\ \A o \in Users(Top.svc) : ~Present(o)
  BY <1>1, Removing
<1>3. /\ at' = at /\ attached' = attached /\ grant' = grant /\ url' = url /\ kernel' = kernel
      /\ upgraded' = upgraded /\ todo' = todo
  BY <1>1, Stays
<1>4. /\ Seen' /\ Apart' /\ Stand' /\ Detached' /\ Packed'
      /\ \A s \in Svcs : Present(s)' <=> Present(s)
  BY <1>1, <1>2, <1>3, PackagesGo
<1>5. CASE Now("unconfigure", <<>>) /\ UNCHANGED result
  <2>1. /\ PlaceFits(Top.op, Top.svc, "unconfigure") /\ "unconfigure" \in Places
        /\ ListFits(Top.svc, "unconfigure", <<>>) /\ <<>> \in Seq(Svcs)
    BY <1>1, <1>2 DEF PlaceFits, ListFits, Places, Repos
  <2>2. /\ Len(stack') = Len(stack) /\ stack'[1].op = Top.op /\ stack'[1].svc = Top.svc
        /\ stack'[1].at = "unconfigure" /\ Top' = stack'[1] /\ stack' # <<>>
    BY <1>1, <1>5, <2>1, StackAdvances DEF ShapeInv
  <2>3. \A o \in Users(Top.svc) : ~Present(o)'
    BY <1>2, <1>4, Kin
  <2>4. EnableFits(1)' /\ DisableFits(1)' /\ SetUpFits(1)'
    BY <1>2, <2>2, <2>3 DEF EnableFits, DisableFits, SetUpFits
  <2>5. TopOnly
    BY <1>1, <1>3, <1>4 DEF TopOnly
  <2>6. CallsFit'
    BY <1>1, <1>5, <2>1, <2>4, <2>5, CallsAdvance DEF Sight
  <2>7. DetachFits'
    <3>1. DetachFits
      BY DEF Sight
    <3> QED
      BY <1>1, <1>3, <1>4, <1>5, <2>2, <3>1 DEF DetachFits
  <2> QED
    BY <1>4, <2>6, <2>7, SightFrom
<1>6. CASE Unwind("raise")
  BY <1>4, <1>6, CallsEmpty, Elsewhere, SightFrom DEF Unwind
<1> QED
  BY <1>5, <1>6 DEF Uninstall

LEMMA RemoveSourceSight == ASSUME ShapeInv, Sight, RemoveSource PROVE Sight'
<1>1. /\ stack # <<>> /\ Top.at \in {"unconfigure", "replace"} /\ Inside
      /\ source' = [source EXCEPT ![Top.svc] = Absent]
      /\ listed' \in {listed \ {Top.svc}, Listed(source')}
      /\ UNCHANGED <<packages, livepatch, once, hidden>>
  BY DEF RemoveSource, Running
<1>2. Top.at # "replace"
  <2>1. /\ Top = stack[1] /\ 1 \in DOMAIN stack /\ PlaceFits(Top.op, Top.svc, Top.at)
    BY <1>1, Inner
  <2>2. SetUpFits(1)
    BY <2>1 DEF Sight, CallsFit
  <2> QED
    BY <2>1, <2>2 DEF SetUpFits, PlaceFits
<1>3. /\ Top.op = "disable" /\ ~Running("update") /\ Top.svc \in Svcs
      /\ \A o \in Users(Top.svc) : ~Present(o)
      /\ Top.svc \in Repos /\ Brings(Top.svc) \cap packages = {}
  BY <1>1, <1>2, Removing
<1>4. PICK this \in Svcs : this = Top.svc
  BY <1>3
<1>5. /\ at' = at /\ attached' = attached /\ grant' = grant /\ url' = url /\ kernel' = kernel
      /\ upgraded' = upgraded /\ todo' = todo
  BY <1>1, Stays
<1>6. /\ Seen' /\ \A s \in Svcs : s # this => (Present(s)' <=> Present(s))
      /\ ~Present(this)'
  <2>1. Seen /\ this \in Repos /\ (Running("update") => Top.svc = this)
    BY <1>3, <1>4 DEF Sight
  <2>2. UNCHANGED <<kernel, upgraded, grant, url, livepatch>>
    BY <1>1, <1>5
  <2> QED
    BY <1>1, <1>4, <2>1, <2>2, SeenLoses
<1>7. Apart' /\ Stand' /\ Detached' /\ Packed'
  BY <1>1, <1>3, <1>4, <1>5, <1>6, Loses
<1>8. CASE Done
  <2>1. TopOnly
    BY <1>1, <1>3, <1>4, <1>5, <1>6 DEF TopOnly
  <2>2. CallsFit'
    BY <1>1, <1>3, <1>4, <1>6, <1>8, <2>1, CallsReturn DEF Done, Sight
  <2>3. DetachFits'
    BY <1>1, <1>4, <1>5, <1>6, <1>8, DetachReturns DEF Done
  <2> QED
    BY <1>6, <1>7, <2>2, <2>3, SightFrom
<1>9. CASE Unwind("raise")
  BY <1>6, <1>7, <1>9, CallsEmpty, Elsewhere, SightFrom DEF Unwind
<1> QED
  BY <1>2, <1>8, <1>9 DEF RemoveSource

LEMMA DisableLivepatchSight == ASSUME ShapeInv, Sight, DisableLivepatch PROVE Sight'
<1>1. /\ stack # <<>> /\ Top.at = "uninstall" /\ Top.svc = "livepatch" /\ Inside
      /\ UNCHANGED <<source, listed, packages, once, hidden>>
  BY DEF DisableLivepatch, Running
<1>2. /\ Top.op = "disable" /\ ~Running("update") /\ Top.svc \in Svcs
      /\ \A o \in Users(Top.svc) : ~Present(o)
  BY <1>1, Removing
<1>3. /\ at' = at /\ attached' = attached /\ grant' = grant /\ url' = url /\ kernel' = kernel
      /\ upgraded' = upgraded /\ todo' = todo
  BY <1>1, Stays
<1>4. CASE livepatch' = FALSE /\ Done
  <2>1. /\ \A s \in Svcs : s # "livepatch" => (Present(s)' <=> Present(s))
        /\ ~Present("livepatch")' /\ "livepatch" \in Svcs
    BY <1>1, <1>2, <1>4 DEF Present
  <2>2. Seen'
    <3>1. Seen /\ Unfit \subseteq Svcs
      BY WorldsAssumption DEF Sight
    <3>2. upgraded' => \A s \in Unfit : ~Present(s)'
      BY <1>3, <2>1, <3>1 DEF Seen
    <3>3. \A s \in Repos : source'[s] # Absent => s \in listed'
      BY <1>1, <1>2, <3>1 DEF Seen
    <3> QED
      BY <1>1, <1>3, <1>4, <3>1, <3>2, <3>3 DEF Seen
  <2>3. Apart' /\ Stand' /\ Detached' /\ Packed'
    <3>1. Brings("livepatch") \cap packages = {} /\ \A o \in Users("livepatch") : ~Present(o)
      BY <1>1, <1>2 DEF Brings, Fips
    <3> QED
      BY <1>1, <1>3, <2>1, <3>1, Loses
  <2>4. TopOnly
    BY <1>1, <1>2, <1>3, <2>1 DEF TopOnly
  <2>5. CallsFit'
    BY <1>1, <1>2, <1>4, <2>1, <2>4, CallsReturn DEF Done, Sight
  <2>6. DetachFits'
    BY <1>1, <1>3, <1>4, <2>1, DetachReturns DEF Done
  <2> QED
    BY <2>2, <2>3, <2>5, <2>6, SightFrom
<1>5. CASE Unwind("raise") /\ UNCHANGED livepatch
  <2>1. Seen' /\ Apart' /\ Stand' /\ Detached' /\ Packed'
    BY <1>1, <1>2, <1>3, <1>5, PackagesGo
  <2> QED
    BY <1>5, <2>1, CallsEmpty, Elsewhere, SightFrom DEF Unwind
<1> QED
  BY <1>4, <1>5 DEF DisableLivepatch

-----------------------------------------------------------------------------
(* What the client sees, at the steps of the command and of its environment. *)

\* Between operations nothing changes on the machine, ...
LEMMA SightBetween ==
    ASSUME ShapeInv, Sight, stack = <<>>, UNCHANGED <<machine, once, kernel, upgraded, attached, token>>,
           CallsFit', DetachFits'
    PROVE  Sight'
BY SightSteady DEF Running

LEMMA SightRests ==
    ASSUME ShapeInv, Sight, stack = <<>>, UNCHANGED <<machine, once, kernel, upgraded, attached, token>>,
           stack' = <<>>, at' # "detach"
    PROVE  Sight'
BY SightBetween, CallsEmpty, Elsewhere

\* ... and an operation begins with nothing done.
LEMMA SightBegins ==
    ASSUME ShapeInv, Sight, stack = <<>>, UNCHANGED <<machine, once, kernel, upgraded, attached, token>>,
           NEW op \in Ops, NEW s \in Svcs, NEW place \in Places, NEW access \in BOOLEAN,
           Push(Frame(op, s, place, access, <<>>)), PlaceFits(op, s, place),
           op \in {"enable", "disable"} => place = op,
           op = "set_up" => place = "apply" /\ s \in {"fips", "livepatch"} /\ Present(s),
           DetachFits'
    PROVE  Sight'
<1>1. /\ stack' # <<>> /\ DOMAIN stack' = 1..1
      /\ stack'[1].op = op /\ stack'[1].svc = s /\ stack'[1].at = place
  BY StackStarts DEF ShapeInv
<1>2. Present(s)' <=> Present(s)
  BY DEF Present, machine
<1>3. EnableFits(1)' /\ DisableFits(1)' /\ SetUpFits(1)'
  <2>1. op = "set_up" \/ place \in {"enable", "disable", "install"}
    BY DEF PlaceFits
  <2>2. CASE op = "set_up"
    BY <1>1, <1>2, <2>2 DEF EnableFits, DisableFits, SetUpFits
  <2>3. CASE op # "set_up"
    <3>1. op = "enable" => place = "enable"
      OBVIOUS
    <3> QED
      BY <1>1, <2>1, <2>3, <3>1 DEF EnableFits, DisableFits, SetUpFits
  <2> QED
    BY <2>2, <2>3
<1>4. CallsFit'
  BY <1>1, <1>3 DEF CallsFit
<1> QED
  BY <1>4, SightBetween

\* What apt policy knows after an apt update.
LEMMA SightLists ==
    ASSUME ShapeInv, Sight, listed' = Listed(source), stack' = <<>>, at' # "detach",
           UNCHANGED <<source, packages, livepatch, once, kernel, upgraded, attached, token>>
    PROVE  Sight'
<1>1. Seen /\ Apart /\ Stand /\ Detached /\ Packed /\ url \in [Svcs -> Urls] /\ Repos \subseteq Svcs
      /\ grant' = grant /\ url' = url
  BY MachineTypes DEF Sight, token, Repos
<1>2. \A s \in Repos : source[s] # Absent => s \in Listed(source)
  BY <1>1 DEF Seen, Listed
<1>3. Seen'
  BY <1>1, <1>2 DEF Seen, Present
<1>4. Apart' /\ Stand' /\ Detached' /\ Packed'
  BY <1>1 DEF Apart, Stand, Detached, Packed, Present
<1> QED
  BY <1>3, <1>4, CallsEmpty, Elsewhere, SightFrom

\* A machine with no service on it.
LEMMA SightBare ==
    ASSUME ShapeInv, Sight, \A s \in Svcs : ~Present(s), stack' = <<>>, at' # "detach",
           UNCHANGED <<source, packages, livepatch, once>>
    PROVE  Sight'
<1>1. Seen /\ Apart /\ Packed /\ Unfit \subseteq Svcs /\ Repos \subseteq Svcs /\ "livepatch" \in Svcs
      /\ Fips \subseteq Repos
  BY WorldsAssumption DEF Sight, Repos, Svcs, Fips
<1>2. /\ \A s \in Svcs : ~Present(s)' /\ (s \in Repos => source[s] = Absent)
      /\ ~livepatch
  BY <1>1, StatusSeen DEF Present
<1>3. Seen'
  BY <1>1, <1>2 DEF Seen
<1>4. Packed'
  BY <1>1 DEF Packed
<1>5. Apart' /\ Stand' /\ Detached'
  BY <1>1, <1>2 DEF Apart, Stand, Detached, Svcs
<1> QED
  BY <1>3, <1>4, <1>5, CallsEmpty, Elsewhere, SightFrom

LEMMA EndSight == ASSUME ShapeInv, Sight, End PROVE Sight'
BY SightRests DEF End, Between, Outside, Idle, host

LEMMA WriteStatusSight == ASSUME ShapeInv, Sight, WriteStatus PROVE Sight'
BY SightRests DEF WriteStatus, Between, Outside, Idle, host

LEMMA DeltasEndSight == ASSUME ShapeInv, Sight, DeltasEnd PROVE Sight'
BY SightRests DEF DeltasEnd, Between, Outside, Idle, host

LEMMA BootRefreshesSight == ASSUME ShapeInv, Sight, BootRefreshes PROVE Sight'
BY SightRests DEF BootRefreshes, Between, Outside, Idle, host

LEMMA UpgradeEndSight == ASSUME ShapeInv, Sight, UpgradeEnd PROVE Sight'
BY SightRests DEF UpgradeEnd, Between, Idle

LEMMA RefreshSight == ASSUME ShapeInv, Sight, Refresh PROVE Sight'
BY SightRests DEF Refresh, Start, Between, Outside, Same, host

LEMMA MarkBootSight == ASSUME ShapeInv, Sight, MarkBoot PROVE Sight'
BY SightRests DEF MarkBoot, Between, control

LEMMA AptUpdateSight == ASSUME ShapeInv, Sight, AptUpdate PROVE Sight'
BY SightLists DEF AptUpdate, Between, control, host

LEMMA AttachSight == ASSUME ShapeInv, Sight, Attach PROVE Sight'
BY SightBare DEF Attach, Between, control, Outside, machine, Sight, Detached

\* A crash that apt missed nothing of.
LEMMA KillSight == ASSUME ShapeInv, Sight, Kill, InSight, InSight' PROVE Sight'
<1>1. listed = Listed(source) /\ stack' = <<>> /\ at' = "idle"
  BY DEF Kill, Hide, InSight, Idle
<1> QED
  BY <1>1, SightLists DEF Kill, Outside, machine, host

\* A reboot into a kernel that does not contradict what is there.
LEMMA RebootSight == ASSUME ShapeInv, Sight, Reboot, InSight, InSight' PROVE Sight'
<1>1. /\ stack = <<>> /\ at = "idle"
      /\ kernel' = "0" => \A s \in Fips : source[s] = Absent
      /\ UNCHANGED <<machine, upgraded, once, attached, token, control, stack>>
  BY DEF Reboot, Hide, InSight, Between
<1>2. /\ source' = source /\ listed' = listed /\ packages' = packages /\ livepatch' = livepatch
      /\ grant' = grant /\ url' = url /\ at' = at
      /\ Seen /\ Apart /\ Stand /\ Detached /\ Packed
  BY <1>1 DEF Sight, machine, token, control
<1>3. Seen'
  BY <1>1, <1>2 DEF Seen, Present, Running
<1>4. Apart' /\ Stand' /\ Detached' /\ Packed'
  BY <1>1, <1>2 DEF Apart, Stand, Detached, Packed, Present
<1> QED
  BY <1>1, <1>2, <1>3, <1>4, CallsEmpty, Elsewhere, SightFrom

\* A release upgrade with no service in use.
LEMMA ReleaseUpgradeSight == ASSUME ShapeInv, Sight, ReleaseUpgrade, InSight, InSight' PROVE Sight'
<1>1. source = [s \in Svcs |-> Absent] /\ ~livepatch
  BY DEF ReleaseUpgrade, Hide, InSight
<1>2. source' = source
  BY <1>1 DEF ReleaseUpgrade
<1>3. \A s \in Svcs : ~Present(s)
  BY <1>1 DEF Present, Absent, Urls
<1> QED
  BY <1>2, <1>3, SightBare DEF ReleaseUpgrade, Start, Between

\* The rest of a list in order comes after its head.
LEMMA SortedTail ==
    ASSUME NEW q \in Seq(Svcs), q # <<>>, Sorted(q)
    PROVE  Sorted(Tail(q)) /\ \A s \in Members(Tail(q)) : Rank(Head(q)) < Rank(s)
<1>1. /\ Head(q) = q[1] /\ 1 \in DOMAIN q /\ DOMAIN q = 1..Len(q) /\ Len(q) \in Nat
      /\ Tail(q) \in Seq(Svcs) /\ Len(Tail(q)) = Len(q) - 1
      /\ \A k \in 1..(Len(q) - 1) : Tail(q)[k] = q[k + 1] /\ k + 1 \in 1..Len(q)
  BY HeadAndTail
<1>2. DOMAIN Tail(q) = 1..(Len(q) - 1)
  BY <1>1
<1>3. \A i, j \in DOMAIN q : i < j => Rank(q[i]) < Rank(q[j])
  BY DEF Sorted
<1>4. Sorted(Tail(q))
  <2>1. ASSUME NEW i \in 1..(Len(q) - 1), NEW j \in 1..(Len(q) - 1), i < j
        PROVE  Rank(Tail(q)[i]) < Rank(Tail(q)[j])
    <3>1. i + 1 < j + 1 /\ i + 1 \in DOMAIN q /\ j + 1 \in DOMAIN q
      BY <1>1, <2>1
    <3>2. Rank(q[i + 1]) < Rank(q[j + 1])
      BY <1>3, <3>1
    <3> QED
      BY <1>1, <3>2
  <2> QED
    BY <1>2, <2>1 DEF Sorted
<1>5. ASSUME NEW s \in Members(Tail(q)) PROVE Rank(Head(q)) < Rank(s)
  <2>1. PICK k \in 1..(Len(q) - 1) : s = Tail(q)[k]
    BY <1>2, <1>5 DEF Members
  <2>2. s = q[k + 1] /\ k + 1 \in DOMAIN q /\ 1 < k + 1
    BY <1>1, <2>1
  <2>3. Rank(q[1]) < Rank(q[k + 1])
    BY <1>1, <1>3, <2>2
  <2> QED
    BY <1>1, <2>2, <2>3
<1> QED
  BY <1>4, <1>5

LEMMA DetachNextSight == ASSUME ShapeInv, Sight, DetachNext PROVE Sight'
<1>1. /\ stack = <<>> /\ at = "detach" /\ todo # <<>> /\ result # "raise" /\ todo' = Tail(todo)
      /\ Outside /\ Same /\ at' = at /\ result' = result
  BY DEF DetachNext, Between
<1>2. /\ UNCHANGED <<machine, once, kernel, upgraded, attached, token>>
      /\ source' = source /\ livepatch' = livepatch
  BY <1>1 DEF Outside, Same, host, machine
<1>3. /\ Seen /\ Apart /\ Stand /\ todo \in Seq(Svcs) /\ Sorted(todo)
      /\ \A s \in Svcs : Present(s) => s \in Members(todo)
  BY <1>1 DEF Sight, DetachFits, ShapeInv, TypeOK
<1>4. /\ Head(todo) \in Svcs /\ Members(todo) = {Head(todo)} \cup Members(Tail(todo))
      /\ Sorted(Tail(todo)) /\ \A s \in Members(Tail(todo)) : Rank(Head(todo)) < Rank(s)
  BY <1>1, <1>3, MembersOf, SortedTail
<1>5. \A s \in Svcs : Present(s)' <=> Present(s)
  BY <1>2 DEF Present
<1>6. CASE Push(Frame("disable", Head(todo), "disable", FALSE, <<>>))
  <2>1. /\ "disable" \in Ops /\ "disable" \in Places /\ FALSE \in BOOLEAN
        /\ PlaceFits("disable", Head(todo), "disable")
    BY DEF Ops, Places, PlaceFits
  <2>2. /\ stack' # <<>> /\ Len(stack') = 1 /\ Top' = stack'[1]
        /\ stack'[1].svc = Head(todo) /\ stack'[1].at = "disable"
    BY <1>1, <1>4, <1>6, <2>1, StackStarts DEF ShapeInv
  <2>3. DetachFits'
    BY <1>1, <1>3, <1>4, <1>5, <2>2 DEF DetachFits
  <2> QED
    BY <1>1, <1>2, <1>4, <1>6, <2>1, <2>3, SightBegins
<1>7. CASE UNCHANGED stack /\ ~CanDisable(Head(todo))
  <2>1. ~Present(Head(todo))
    BY <1>1, <1>3, <1>4, <1>7, Disables DEF Running
  <2>2. DetachFits'
    <3>1. Len(<<>>) = 0
      OBVIOUS
    <3> QED
      BY <1>1, <1>3, <1>4, <1>5, <1>7, <2>1, <3>1 DEF DetachFits
  <2> QED
    BY <1>1, <1>2, <1>7, <2>2, CallsEmpty, SightBetween
<1> QED
  BY <1>6, <1>7 DEF DetachNext

LEMMA DetachEndSight == ASSUME ShapeInv, Sight, DetachEnd PROVE Sight'
<1>1. /\ stack = <<>> /\ at = "detach" /\ stack' = <<>> /\ at' = "idle"
      /\ UNCHANGED <<machine, kernel, upgraded, once>>
  BY DEF DetachEnd, Between, Idle
<1>2. CASE result = "raise"
  BY <1>1, <1>2, SightRests DEF DetachEnd
<1>3. CASE result # "raise"
  <2>1. todo = <<>> /\ \A s \in Svcs : Present(s) => s \in Members(todo)
    BY <1>1, <1>3 DEF DetachEnd, Sight, DetachFits
  <2>2. \A s \in Svcs : ~Present(s)
    BY <2>1 DEF Members
  <2> QED
    BY <1>1, <2>2, SightBare DEF machine
<1> QED
  BY <1>2, <1>3

LEMMA RefreshTokenSight == ASSUME ShapeInv, Sight, RefreshToken, InSight, InSight' PROVE Sight'
<1>1. /\ stack = <<>> /\ stack' = <<>> /\ at' # "detach"
      /\ UNCHANGED <<machine, once, kernel, upgraded, attached>>
  BY DEF RefreshToken, Between, Outside, Idle, host
<1>2. CASE UNCHANGED token
  BY <1>1, <1>2, SightRests
<1>3. CASE Contract
  <2>1. PICK t \in world, g \in Grants, u \in Urls :
            /\ grant' = [grant EXCEPT ![t] = g] /\ url' = [url EXCEPT ![t] = u]
            /\ ~(Present(t) /\ (g = Absent \/ u # url[t]))
    BY <1>3 DEF Contract, Hide, InSight
  <2>2. /\ t \in Svcs /\ grant \in [Svcs -> Grants] /\ url \in [Svcs -> Urls]
        /\ Repos \subseteq Svcs /\ "livepatch" \in Svcs
    BY MachineTypes DEF ShapeInv, TypeOK, Repos, Svcs
  <2>3. /\ \A s \in Svcs : s # t => grant'[s] = grant[s] /\ url'[s] = url[s]
        /\ grant'[t] = g /\ url'[t] = u
    BY <2>1, <2>2
  <2>4. /\ source' = source /\ listed' = listed /\ packages' = packages /\ livepatch' = livepatch
        /\ Seen /\ Apart /\ Stand /\ Detached /\ Packed
    BY <1>1 DEF machine, Sight
  <2>5. \A s \in Repos : source'[s] = Absent \/ (source'[s] = url'[s] /\ grant'[s] # Absent)
    <3>1. ASSUME NEW s \in Repos, source[s] # Absent PROVE source[s] = url'[s] /\ grant'[s] # Absent
      <4>1. s \in Svcs /\ Present(s) /\ source[s] = url[s] /\ grant[s] # Absent
        BY <2>2, <2>4, <3>1, StatusSeen DEF Seen
      <4> QED
        BY <2>1, <2>3, <4>1
    <3> QED
      BY <2>4, <3>1
  <2>6. livepatch' => grant'["livepatch"] # Absent
    BY <2>1, <2>2, <2>3, <2>4 DEF Seen, Present
  <2>7. Seen'
    BY <1>1, <2>4, <2>5, <2>6 DEF Seen, Present, Running
  <2>8. Apart' /\ Stand' /\ Detached' /\ Packed'
    BY <1>1, <2>4 DEF Apart, Stand, Detached, Packed, Present
  <2> QED
    BY <1>1, <2>7, <2>8, CallsEmpty, Elsewhere, SightFrom
<1> QED
  BY <1>2, <1>3 DEF RefreshToken

LEMMA DeltaNextSight == ASSUME ShapeInv, Sight, DeltaNext PROVE Sight'
<1>1. /\ stack = <<>> /\ at = "deltas" /\ at' = at /\ todo # <<>> /\ Outside /\ Same
  BY DEF DeltaNext, Between
<1>2. /\ UNCHANGED <<machine, once, kernel, upgraded, attached, token>> /\ DetachFits'
  BY <1>1, Elsewhere DEF Outside, Same, host
<1>3. /\ Head(todo) \in Svcs /\ Seen /\ url \in [Svcs -> Urls]
  BY <1>1, MembersOf, MachineTypes DEF ShapeInv, TypeOK, Sight
<1>4. /\ "disable" \in Ops /\ "disable" \in Places /\ "set_up" \in Ops /\ "apply" \in Places
      /\ FALSE \in BOOLEAN /\ PlaceFits("disable", Head(todo), "disable")
      /\ PlaceFits("set_up", Head(todo), "apply")
  BY DEF Ops, Places, PlaceFits
<1>5. CASE Push(Frame("disable", Head(todo), "disable", FALSE, <<>>))
  BY <1>1, <1>2, <1>3, <1>4, <1>5, SightBegins
<1>6. ~(Head(todo) \in Repos /\ source[Head(todo)] # Absent /\ Outdated(Head(todo)))
  <2>1. ASSUME Head(todo) \in Repos, source[Head(todo)] # Absent
        PROVE  source[Head(todo)] = url[Head(todo)] /\ source[Head(todo)] # "commented"
    BY <1>3, <2>1 DEF Seen, Urls
  <2> QED
    BY <2>1 DEF Outdated
<1>7. CASE LivepatchMoves(Head(todo)) /\ Push(Frame("set_up", Head(todo), "apply", FALSE, <<>>))
  <2>1. Head(todo) = "livepatch" /\ Present(Head(todo))
    BY <1>7 DEF LivepatchMoves, Present
  <2> QED
    BY <1>1, <1>2, <1>3, <1>4, <1>7, <2>1, SightBegins
<1>8. CASE UNCHANGED stack
  BY <1>1, <1>2, <1>8, SightRests
<1>9. CASE Push(Frame("enable", Head(todo), "enable", FALSE, <<>>))
  <2>1. "enable" \in Ops /\ "enable" \in Places /\ PlaceFits("enable", Head(todo), "enable")
    BY DEF Ops, Places, PlaceFits
  <2> QED
    BY <1>1, <1>2, <1>3, <1>4, <1>9, <2>1, SightBegins
<1> QED
  BY <1>5, <1>6, <1>7, <1>8, <1>9 DEF DeltaNext

LEMMA BootInstallsSight == ASSUME ShapeInv, Sight, BootInstalls PROVE Sight'
<1>1. /\ stack = <<>> /\ at' = "installed" /\ Outside /\ Same
      /\ Push(Frame("install", "fips", "install", FALSE, <<>>))
  BY DEF BootInstalls, Between
<1>2. UNCHANGED <<machine, once, kernel, upgraded, attached, token>> /\ DetachFits'
  BY <1>1, Elsewhere DEF Outside, Same, host
<1>3. /\ "install" \in Ops /\ "install" \in Places /\ FALSE \in BOOLEAN /\ "fips" \in Svcs
      /\ PlaceFits("install", "fips", "install")
  BY DEF Ops, Places, PlaceFits, Svcs
<1> QED
  BY <1>1, <1>2, <1>3, SightBegins

\* Whatever is there applies, so that a release upgrade has nothing to disable.
LEMMA UpgradeNextSight == ASSUME ShapeInv, Sight, UpgradeNext PROVE Sight'
<1>1. /\ stack = <<>> /\ at = "upgrade" /\ at' = at /\ todo # <<>> /\ Outside /\ Same
  BY DEF UpgradeNext, Between
<1>2. UNCHANGED <<machine, once, kernel, upgraded, attached, token>>
  BY <1>1 DEF Outside, Same, host
<1>3. Head(todo) \in Svcs /\ Seen /\ Apart /\ Stand /\ ~Running("update")
  BY <1>1, MembersOf DEF ShapeInv, TypeOK, Sight, Running
<1>4. Status(Head(todo)) = "enabled" => Applicable(Head(todo))
  BY <1>3, StatusSeen, Disables
<1>5. UNCHANGED stack
  BY <1>4 DEF UpgradeNext
<1> QED
  BY <1>1, <1>2, <1>5, SightRests

LEMMA EnableSight ==
    ASSUME ShapeInv, Sight, NEW s \in Svcs, NEW access \in BOOLEAN, Enable(s, access) PROVE Sight'
<1>1. /\ stack = <<>> /\ at' = "end" /\ Outside /\ Same /\ Push(Frame("enable", s, "enable", access, <<>>))
  BY DEF Enable, Start, Between
<1>2. UNCHANGED <<machine, once, kernel, upgraded, attached, token>> /\ DetachFits'
  BY <1>1, Elsewhere DEF Outside, Same, host
<1>3. "enable" \in Ops /\ "enable" \in Places /\ PlaceFits("enable", s, "enable")
  BY DEF Ops, Places, PlaceFits
<1> QED
  BY <1>1, <1>2, <1>3, SightBegins

LEMMA DisableSight == ASSUME ShapeInv, Sight, NEW s \in Svcs, Disable(s) PROVE Sight'
<1>1. /\ stack = <<>> /\ at' = "end" /\ Outside /\ Same
      /\ Push(Frame("disable", s, "disable", FALSE, <<>>))
  BY DEF Disable, Start, Between
<1>2. UNCHANGED <<machine, once, kernel, upgraded, attached, token>> /\ DetachFits'
  BY <1>1, Elsewhere DEF Outside, Same, host
<1>3. "disable" \in Ops /\ "disable" \in Places /\ PlaceFits("disable", s, "disable") /\ FALSE \in BOOLEAN
  BY DEF Ops, Places, PlaceFits
<1> QED
  BY <1>1, <1>2, <1>3, SightBegins

\* Both forms of detach start with a list, in order, of all that is there.
LEMMA DetachStarts ==
    ASSUME ShapeInv, Sight, stack = <<>>, UNCHANGED stack, Outside, Same, NEW set,
           \A s \in Svcs : Present(s) => s \in set, todo' = Select(DisableOrder, set)
    PROVE  Sight'
<1>1. UNCHANGED <<machine, once, kernel, upgraded, attached, token>>
  BY DEF Outside, Same, host
<1>2. Sorted(todo') /\ Members(todo') = Svcs \cap set
  BY Orders, Selected
<1>3. \A s \in Svcs : Present(s)' <=> Present(s)
  BY <1>1 DEF Present, machine
<1>4. DetachFits'
  <2>1. Len(<<>>) = 0
    OBVIOUS
  <2> QED
    BY <1>2, <1>3, <2>1 DEF DetachFits
<1> QED
  BY <1>1, <1>4, CallsEmpty, SightBetween

LEMMA DetachCliSight == ASSUME ShapeInv, Sight, DetachCli PROVE Sight'
<1>1. /\ stack = <<>> /\ UNCHANGED stack /\ Outside /\ Same
      /\ todo' = Select(DisableOrder, {s \in world : CanDisable(s)})
  BY DEF DetachCli, Start, Between
<1>2. \A s \in Svcs : Present(s) => s \in {t \in world : CanDisable(t)}
  BY <1>1, Disables DEF Sight, Running
<1> QED
  BY <1>1, <1>2, DetachStarts

LEMMA DetachApiSight == ASSUME ShapeInv, Sight, DetachApi PROVE Sight'
<1>1. /\ stack = <<>> /\ UNCHANGED stack /\ Outside /\ Same /\ todo' = Select(DisableOrder, world)
  BY DEF DetachApi, Start, Between
<1>2. \A s \in Svcs : Present(s) => s \in world
  BY <1>1, Disables DEF Sight, Running
<1> QED
  BY <1>1, <1>2, DetachStarts

\* A boot where the status cache tells the truth about FIPS.
LEMMA BootSight == ASSUME ShapeInv, Sight, Boot, InSight, InSight' PROVE Sight'
<1>1. /\ stack = <<>> /\ at' # "detach" /\ Outside /\ UNCHANGED <<attached, token>>
  BY DEF Boot, Start, Between
<1>2. UNCHANGED <<machine, once, kernel, upgraded, attached, token>> /\ DetachFits'
  BY <1>1, Elsewhere DEF Outside, host
<1>3. CASE UNCHANGED stack
  BY <1>1, <1>2, <1>3, SightRests
<1>4. CASE Push(Frame("set_up", "fips", "apply", FALSE, <<>>)) /\ source["fips"] \in Urls
  <2>1. /\ "set_up" \in Ops /\ "apply" \in Places /\ FALSE \in BOOLEAN /\ "fips" \in Svcs
        /\ PlaceFits("set_up", "fips", "apply") /\ Present("fips")
    BY <1>4 DEF Ops, Places, PlaceFits, Svcs, Present
  <2> QED
    BY <1>1, <1>2, <1>4, <2>1, SightBegins
<1> QED
  BY <1>3, <1>4 DEF Boot, Hide, InSight

-----------------------------------------------------------------------------
(* The theorems. *)

\* What has gone out of the client's sight stays there.
LEMMA SightBack == ASSUME [Next]_vars, InSight' PROVE InSight
<1>1. CASE Operate
  BY <1>1 DEF Operate, InSight, Hide, TryEnable, Descend, EnableLivepatch, WriteSource, DropSource,
              UpdateLists, InstallPackages, RecordOnce, TryDisable, Uninstall, RemoveSource, DisableLivepatch
<1>2. CASE Conduct
  BY <1>2 DEF Conduct, InSight, Hide, Same, End, WriteStatus, DetachNext, DetachEnd,
     RefreshToken, Contract,
              DeltaNext, DeltasEnd, BootInstalls, BootRefreshes, UpgradeNext, UpgradeEnd
<1>3. CASE Command
  BY <1>3 DEF Command, InSight, Hide, Same, Attach, DetachCli, DetachApi, Refresh, Boot, Disable,
     Enable
<1>4. CASE Environment
  BY <1>4 DEF Environment, InSight, Hide, ReleaseUpgrade, Reboot, MarkBoot, AptUpdate, Kill
<1>5. CASE UNCHANGED vars
  BY <1>5 DEF vars, InSight
<1> QED
  BY <1>1, <1>2, <1>3, <1>4, <1>5 DEF Next

LEMMA SightStep == ASSUME ShapeInv, SightInv, [Next]_vars PROVE SightInv'
<1> SUFFICES ASSUME InSight' PROVE Sight'
  BY DEF SightInv
<1>1. InSight /\ Sight /\ hidden = "nothing"
  BY SightBack DEF SightInv, InSight
<1>2. CASE Operate
  BY <1>1, <1>2, TryEnableSight, DescendSight, EnableLivepatchSight, WriteSourceSight,
     UpdateListsSight,
     InstallPackagesSight, RecordOnceSight, TryDisableSight, UninstallSight, RemoveSourceSight,
     DisableLivepatchSight DEF Operate
<1>3. CASE Conduct
  BY <1>1, <1>3, EndSight, WriteStatusSight, DetachNextSight, DetachEndSight, RefreshTokenSight,
     DeltaNextSight, DeltasEndSight, BootInstallsSight, BootRefreshesSight, UpgradeNextSight,
     UpgradeEndSight DEF Conduct
<1>4. CASE Command
  BY <1>1, <1>4, AttachSight, DetachCliSight, DetachApiSight, RefreshSight, BootSight, DisableSight,
     EnableSight DEF Command
<1>5. CASE Environment
  BY <1>1, <1>5, ReleaseUpgradeSight, RebootSight, MarkBootSight, AptUpdateSight, KillSight
     DEF Environment
<1>6. CASE UNCHANGED vars
  <2>1. /\ UNCHANGED <<world, attached, grant, url, source, listed, packages, livepatch, kernel, once>>
        /\ UNCHANGED <<upgraded, at, todo, stack, result>>
    BY <1>6 DEF vars, token, machine, host, control
  <2>2. Sight
    BY <1>1
  <2>3. Seen' /\ Apart' /\ Stand' /\ Detached' /\ Packed'
    BY <2>1, <2>2 DEF Sight, Seen, Apart, Stand, Detached, Packed, Present, Running, Top
  <2>4. CallsFit' /\ DetachFits'
    BY <2>1, <2>2 DEF Sight, CallsFit, EnableFits, DisableFits, SetUpFits, DetachFits, Left,
       Present, Top
  <2> QED
    BY <2>3, <2>4, SightFrom
<1> QED
  BY <1>2, <1>3, <1>4, <1>5, <1>6 DEF Next

LEMMA SightInit == ASSUME Init PROVE SightInv
<1>1. /\ source = [s \in Svcs |-> Absent] /\ packages = {} /\ livepatch = FALSE /\ once = FALSE
      /\ at = "idle" /\ stack = <<>>
  BY DEF Init
<1>2. \A s \in Svcs : ~Present(s)
  BY <1>1 DEF Present, Absent, Urls
<1>3. Seen
  BY <1>1, <1>2, WorldsAssumption DEF Seen, Repos, Fips, Svcs
<1>4. Apart /\ Stand /\ Detached /\ Packed
  BY <1>1, <1>2 DEF Apart, Stand, Detached, Packed, Svcs
<1>5. CallsFit /\ DetachFits
  BY <1>1 DEF CallsFit, DetachFits
<1> QED
  BY <1>3, <1>4, <1>5 DEF SightInv, Sight

LEMMA AlwaysInSight == Spec => [](ShapeInv /\ SightInv)
<1>1. Init => ShapeInv /\ SightInv
  BY ShapeInit, SightInit
<1>2. (ShapeInv /\ SightInv) /\ [Next]_vars => (ShapeInv /\ SightInv)'
  BY ShapeStep, SightStep
<1> QED
  BY <1>1, <1>2, PTL DEF Spec

\* Through every nested enable and disable, whichever step fails or is the last before a crash: no
\* service stands without the ones it requires, of two that exclude each other at most one is on the
\* machine, and fips is never on a machine that had fips-updates.
THEOREM ServicesStandTogether == Spec => []StandTogether
<1>1. ShapeInv /\ SightInv => StandTogether
  <2> SUFFICES ASSUME Sight PROVE
          /\ \A s \in Svcs : Present(s) => \A i \in DOMAIN Required(s) : Present(Required(s)[i])
          /\ \A s, t \in Svcs : Excludes(s, t) /\ Excludes(t, s) => ~(Present(s) /\ Present(t))
          /\ once => ~Present("fips") /\ ~Present("fips-preview")
    BY DEF SightInv, StandTogether
  <2>1. Stand /\ Apart
    BY DEF Sight
  <2>2. \A s \in Svcs : Present(s) => \A i \in DOMAIN Required(s) : Present(Required(s)[i])
    BY <2>1 DEF Stand, Needs, Members
  <2>3. \A s, t \in Svcs : Excludes(s, t) /\ Excludes(t, s) => ~(Present(s) /\ Present(t))
    BY <2>1, Kin DEF Stand
  <2> QED
    BY <2>1, <2>2, <2>3 DEF Apart
<1> QED
  BY <1>1, AlwaysInSight, PTL

\* A detach that ends leaves no service behind, in either of its forms: in its order those that use a
\* service go before it, so that none is passed over because of another.
THEOREM DetachLeavesNothingBehind == Spec => []DetachLeavesNothing
<1>1. ShapeInv /\ SightInv => DetachLeavesNothing
  BY DEF SightInv, Sight, Detached, DetachLeavesNothing
<1> QED
  BY <1>1, AlwaysInSight, PTL

\* A metapackage is only ever installed while the repository that updates it is there: it comes
\* after its source and goes before it.
THEOREM PackagesKeepTheirSource == Spec => []PackagesHaveSource
<1>1. ShapeInv /\ SightInv => PackagesHaveSource
  BY DEF SightInv, Sight, Packed, PackagesHaveSource
<1> QED
  BY <1>1, AlwaysInSight, PTL
=============================================================================
