----------------------------- MODULE LinkProofs -----------------------------
(***************************************************************************)
(* The link and the EEE timer, for every set of speeds: LinkAgrees and     *)
(* EeeTimerOwned, when calls are not interleaved and none is refused.      *)
(*                                                                         *)
(* A call is a list of steps, so the invariant (LinkInv) is about the one  *)
(* actor at work and the steps it has left: what the registers and the     *)
(* timer lack, a step to come provides, and nothing in between undoes it.  *)
(***************************************************************************)
EXTENDS Link, SequenceTheorems, TLAPS

-----------------------------------------------------------------------------
(* The programs: which step may come after which.                          *)

XpcsPages == {"mii", "an", "dig"}
MiiStores == {"store_ane", "store_speed"}
Accesses == MiiStores \cup {"store_an", "store_rst", "test_an"}
Switches == {"mac", "active", "enabled"}
Settings == {"set_mac", "set_bus", "set_priv", "store_speed", "test_an"}
Signals == {"load", "store_ane", "store_an", "store_rst", "eee_init", "enable_result",
            "opened", "del_if_enabled", "phylink_stop", "polls_off", "stop_if_refused",
            "phylink_eee", "disable_mode", "test_enabled", "rearm"}
LinkOps == {"page"} \cup Switches \cup Settings \cup Signals
LinkSteps == [op : LinkOps, arg : Nat \cup BOOLEAN \cup XpcsPages]
Are(x, op, arg) == x.op = op /\ x.arg = arg

Typed(x) ==
  /\ x.op = "page" => x.arg \in XpcsPages
  /\ x.op \in Switches => x.arg \in BOOLEAN
  /\ x.op \in Settings => x.arg \in Nat
  /\ x.op = "opened" => x.arg = 0

\* Steps that come right after another one only.
Bound == Accesses \cup {"enable_result", "stop_if_refused", "phylink_eee", "enabled",
                        "rearm", "phylink_stop"}
After(w, x) ==
  /\ x.op \in Accesses => Are(w, "page", Meant(x.op))
  /\ x.op \in {"enable_result", "stop_if_refused"} => w.op = "eee_init"
  /\ x.op = "phylink_eee" => w.op \in {"disable_mode", "stop_if_refused"}
  /\ x.op = "enabled" => w.op = "phylink_eee"
  /\ x.op = "rearm" => w.op = "test_enabled"
  /\ x.op = "phylink_stop" => w.op = "del_if_enabled"
  /\ x.op = "eee_init" => w.op = "active"

\* How a program goes on and ends after its step i.
Before(s, i) ==
  /\ s[i].op = "eee_init" => i < Len(s) /\ s[i + 1].op \in {"enable_result", "stop_if_refused"}
  /\ s[i].op = "stop_if_refused" =>
       Len(s) = i + 2 /\ s[i + 1].op = "phylink_eee" /\ Are(s[i + 2], "enabled", TRUE)
  /\ s[i].op = "disable_mode" =>
       Len(s) = i + 2 /\ s[i + 1].op = "phylink_eee" /\ Are(s[i + 2], "enabled", FALSE)
  /\ s[i].op = "phylink_eee" => Len(s) = i + 1 /\ s[i + 1].op = "enabled"
  /\ s[i].op \in {"enabled", "opened"} => Len(s) = i
  /\ s[i].op = "test_enabled" => Len(s) = i + 1 /\ s[i + 1].op = "rearm"
  /\ s[i].op = "del_if_enabled" => i < Len(s) /\ s[i + 1].op = "phylink_stop"
  /\ s[i].op = "phylink_stop" =>
       Len(s) = i + 2 /\ s[i + 1] = Do1("polls_off") /\ s[i + 2] = Do2("mac", FALSE)

Shape(s) ==
  /\ \A i \in 1..Len(s) : Typed(s[i]) /\ Before(s, i)
  /\ \A i \in 2..Len(s) : After(s[i - 1], s[i])
  /\ \A i \in 3..Len(s) : s[i].op \in MiiStores => s[i - 2].op = "load"

Elems(s) == {s[i] : i \in 1..Len(s)}
Has(s, op, arg) == \E x \in Elems(s) : Are(x, op, arg)

-----------------------------------------------------------------------------
(* The invariant, of the actor at work and its remaining steps.            *)

\* What the next steps rely on.
HeadInv(a, s) ==
  s # <<>> =>
    /\ s[1].op \in Accesses => page = Meant(s[1].op)
    /\ \A i \in 1..Len(s) : i <= 2 /\ s[i].op \in MiiStores => tmp[a] = mii
    /\ s[1].op \in {"enable_result", "stop_if_refused"} => tmp[a].ane \/ timer # "pending"
    /\ Has(s, "enabled", FALSE) =>
         Len(s) <= 3 /\ (s[1].op = "disable_mode" \/ timer # "pending")
    /\ s[1].op = "rearm" => enabled
    /\ s[1].op = "phylink_stop" => timer # "pending"
    /\ s[1].op = "eee_init" /\ ~up => ~active

\* The timer is pending while EEE is enabled or about to be.
PendInv(s) ==
  timer = "pending" =>
    \/ enabled
    \/ /\ s # <<>>
       /\ \/ s[1].op \in {"enable_result", "stop_if_refused"}
          \/ s[1].op \in {"phylink_eee", "enabled"} /\ Has(s, "enabled", TRUE)

\* The speed is in each place or on its way there, or autonegotiation is still
\* to be looked at, which decides; what was found not complete stays behind.
Comes(s, op, now) == now = carrier \/ Has(s, op, carrier) \/ Has(s, "test_an", carrier)
SpeedInv(s) ==
  /\ carrier # 0 =>
       /\ Knows(iface, carrier)
       /\ Comes(s, "set_priv", speed.set_priv)
       /\ \/ early
          \/ /\ Comes(s, "set_mac", speed.set_mac) /\ Comes(s, "set_bus", speed.set_bus)
             /\ iface = "usxgmii" => Comes(s, "store_speed", mii.speed)
       /\ \A x \in Elems(s) : x.op \in Settings => x.arg = carrier
  /\ \A x \in Elems(s) : x.op = "test_an" => carrier # 0 /\ iface # "rgmii"

\* The MAC is on, or on its way to be, and no step turns it off before the link
\* is down; only open turns on that of a closed interface.
MacInv(s) ==
  /\ carrier # 0 => /\ up
                    /\ macOn \/ Has(s, "mac", TRUE)
                    /\ Has(s, "mac", FALSE) => s[1].op \in {"del_if_enabled", "phylink_stop"}
  /\ ~up /\ ~Has(s, "opened", 0) =>
       ~Has(s, "mac", TRUE) /\ (~macOn \/ Has(s, "mac", FALSE))

\* A closed interface has no timer and no poll, an open one autonegotiates.
UpInv(s) ==
  /\ ~up => /\ timer # "pending"
            /\ ~Has(s, "active", TRUE)
            /\ \A x \in Elems(s) : x.op # "rearm"
  /\ polling => up \/ Has(s, "polls_off", 0)
  /\ (up \/ Has(s, "opened", 0)) /\ iface # "rgmii" => mii.ane \/ Has(s, "store_ane", 0)

Registers == [speed : Nat, ane : BOOLEAN]
LinkTypes ==
  /\ iface \in Interfaces /\ up \in BOOLEAN /\ polling \in BOOLEAN /\ macOn \in BOOLEAN
  /\ carrier \in NegoSpeeds \cup {0} /\ speed \in [{"set_mac", "set_bus", "set_priv"} -> Nat]
  /\ page \in XpcsPages /\ mii \in Registers /\ tmp \in [Actors -> Registers]
  /\ active \in BOOLEAN /\ enabled \in BOOLEAN /\ lpi \in BOOLEAN
  /\ timer \in {"none", "idle", "pending"} /\ ~stray /\ ~broken
  /\ anDone \in BOOLEAN /\ early \in BOOLEAN /\ (iface = "rgmii" => ~early)
  /\ linkTodo \in [Actors -> Seq(LinkSteps)]

Works(a, s) ==
  /\ Shape(s) /\ HeadInv(a, s) /\ PendInv(s) /\ SpeedInv(s) /\ MacInv(s) /\ UpInv(s)
LinkInv ==
  /\ LinkTypes
  /\ \E a \in Actors, s \in Seq(LinkSteps) :
       linkTodo[a] = s /\ (\A b \in Actors \ {a} : linkTodo[b] = <<>>) /\ Works(a, s)

-----------------------------------------------------------------------------
(* Sequences.                                                              *)

LEMMA TailParts ==
  ASSUME NEW s \in Seq(LinkSteps), s # <<>>
  PROVE  /\ Tail(s) \in Seq(LinkSteps) /\ Len(s) \in Nat /\ Len(Tail(s)) = Len(s) - 1
         /\ Len(s) >= 1 /\ Head(s) = s[1] /\ s[1] \in LinkSteps
         /\ \A i \in 1..Len(Tail(s)) : Tail(s)[i] = s[i + 1]
OBVIOUS

LEMMA TailElems ==
  ASSUME NEW s \in Seq(LinkSteps), s # <<>>
  PROVE  Elems(Tail(s)) \subseteq Elems(s) /\ Elems(s) = {s[1]} \cup Elems(Tail(s))
<1> DEFINE t == Tail(s)
<1>1. /\ Len(s) \in Nat /\ Len(t) = Len(s) - 1 /\ Len(s) >= 1
      /\ \A i \in 1..Len(t) : t[i] = s[i + 1]
  BY TailParts
<1> HIDE DEF t
<1>2. ASSUME NEW i \in 1..Len(s) PROVE s[i] = s[1] \/ s[i] \in Elems(t)
  <2>1. CASE i = 1
    BY <2>1
  <2>2. CASE i # 1
    <3>1. i - 1 \in 1..Len(t) /\ t[i - 1] = s[i]
      BY <1>1, <2>2
    <3> QED
      BY <3>1 DEF Elems
  <2> QED
    BY <2>1, <2>2
<1>3. ASSUME NEW i \in 1..Len(t) PROVE t[i] \in Elems(s)
  <2>1. i + 1 \in 1..Len(s) /\ t[i] = s[i + 1]
    BY <1>1
  <2> QED
    BY <2>1 DEF Elems
<1>4. Elems(t) \subseteq Elems(s)
  BY <1>3 DEF Elems
<1>5. s[1] \in Elems(s)
  <2>1. 1 \in 1..Len(s)
    BY <1>1
  <2> QED
    BY <2>1 DEF Elems
<1>6. \A x \in Elems(s) : x = s[1] \/ x \in Elems(t)
  BY <1>2 DEF Elems
<1> QED
  BY <1>4, <1>5, <1>6 DEF t

\* A step that is not the first is still to come.
LEMMA TailHas ==
  ASSUME NEW s \in Seq(LinkSteps), s # <<>>, NEW op, NEW arg
  PROVE  /\ Has(Tail(s), op, arg) => Has(s, op, arg)
         /\ Has(s, op, arg) => Are(s[1], op, arg) \/ Has(Tail(s), op, arg)
BY TailElems DEF Has

LEMMA NoneHas == Elems(<<>>) = {} /\ \A op, arg : ~Has(<<>>, op, arg)
BY DEF Elems, Has

LEMMA ShapeTail ==
  ASSUME NEW s \in Seq(LinkSteps), s # <<>>, Shape(s)
  PROVE  Shape(Tail(s))
<1> DEFINE t == Tail(s)
<1>1. /\ Len(s) \in Nat /\ Len(t) \in Nat /\ Len(t) = Len(s) - 1 /\ Len(s) >= 1
      /\ \A i \in 1..Len(t) : t[i] = s[i + 1]
  BY TailParts
<1> HIDE DEF t
<1>2. ASSUME NEW i \in 1..Len(t) PROVE Typed(t[i]) /\ Before(t, i)
  <2> DEFINE j == i + 1
  <2>1. j \in 1..Len(s) /\ t[i] = s[j] /\ Typed(s[j]) /\ Before(s, j)
    BY <1>1 DEF Shape
  <2>2. /\ i < Len(t) => t[i + 1] = s[j + 1]
        /\ i + 1 < Len(t) => t[i + 2] = s[j + 2]
    <3>1. /\ i < Len(t) => i + 1 \in 1..Len(t) /\ i + 1 + 1 = j + 1
          /\ i + 1 < Len(t) => i + 2 \in 1..Len(t) /\ i + 2 + 1 = j + 2
      BY <1>1
    <3> QED
      BY <1>1, <3>1
  <2>3. /\ Len(t) = i <=> Len(s) = j
        /\ Len(t) = i + 1 <=> Len(s) = j + 1
        /\ Len(t) = i + 2 <=> Len(s) = j + 2
        /\ i < Len(t) <=> j < Len(s)
        /\ Len(t) = i + 2 => i < Len(t) /\ i + 1 < Len(t)
        /\ Len(t) = i + 1 => i < Len(t)
    BY <1>1
  <2> HIDE DEF j
  <2>4. Before(t, i)
    BY <2>1, <2>2, <2>3 DEF Before
  <2> QED
    BY <2>1, <2>4
<1>3. ASSUME NEW i \in 2..Len(t) PROVE After(t[i - 1], t[i])
  <2>1. /\ i + 1 \in 2..Len(s) /\ t[i] = s[i + 1] /\ t[i - 1] = s[i - 1 + 1]
        /\ i + 1 - 1 = i /\ i - 1 + 1 = i
    BY <1>1
  <2> QED
    BY <2>1 DEF Shape
<1>4. ASSUME NEW i \in 3..Len(t), t[i].op \in MiiStores PROVE t[i - 2].op = "load"
  <2>1. /\ i + 1 \in 3..Len(s) /\ t[i] = s[i + 1] /\ t[i - 2] = s[i - 2 + 1]
        /\ i + 1 - 2 = i - 1 /\ i - 2 + 1 = i - 1
    BY <1>1
  <2> QED
    BY <1>4, <2>1 DEF Shape
<1> QED
  BY <1>2, <1>3, <1>4 DEF Shape, t

-----------------------------------------------------------------------------
(* The programs.                                                           *)

\* A program of steps that may be the first of a call.
Fresh(s) ==
  /\ s \in Seq(LinkSteps) /\ Shape(s)
  /\ s # <<>> => s[1].op \notin Bound
  /\ Len(s) >= 2 => s[2].op \notin MiiStores
\* Steps after which nothing particular comes.
PlainOps == {"page", "load", "mac"} \cup Accesses \cup Settings
Plain(s) == \A x \in Elems(s) : x.op \in PlainOps

LEMMA JoinedParts ==
  ASSUME NEW x \in Seq(LinkSteps), NEW y \in Seq(LinkSteps)
  PROVE  LET s == x \o y
         IN /\ s \in Seq(LinkSteps) /\ Len(s) = Len(x) + Len(y)
            /\ Len(x) \in Nat /\ Len(y) \in Nat
            /\ \A i \in 1..Len(x) : s[i] = x[i]
            /\ \A i \in 1..Len(y) : s[Len(x) + i] = y[i]
            /\ Elems(s) = Elems(x) \cup Elems(y)
<1> DEFINE s == x \o y
<1>1. /\ s \in Seq(LinkSteps) /\ Len(s) = Len(x) + Len(y)
      /\ Len(x) \in Nat /\ Len(y) \in Nat
      /\ \A i \in 1..Len(x) + Len(y) : s[i] = IF i <= Len(x) THEN x[i] ELSE y[i - Len(x)]
  BY ConcatProperties
<1> HIDE DEF s
<1>2. ASSUME NEW i \in 1..Len(x) PROVE s[i] = x[i]
  <2>1. i \in 1..Len(x) + Len(y) /\ i <= Len(x)
    BY <1>1
  <2> QED
    BY <1>1, <2>1
<1>3. ASSUME NEW i \in 1..Len(y) PROVE s[Len(x) + i] = y[i]
  <2>1. Len(x) + i \in 1..Len(x) + Len(y) /\ ~(Len(x) + i <= Len(x)) /\ Len(x) + i - Len(x) = i
    BY <1>1
  <2> QED
    BY <1>1, <2>1
<1>4. ASSUME NEW i \in 1..Len(s) PROVE s[i] \in Elems(x) \cup Elems(y)
  <2>1. CASE i <= Len(x)
    <3>1. i \in 1..Len(x)
      BY <1>1, <2>1
    <3> QED
      BY <1>2, <3>1 DEF Elems
  <2>2. CASE ~(i <= Len(x))
    <3>1. i - Len(x) \in 1..Len(y) /\ Len(x) + (i - Len(x)) = i
      BY <1>1, <2>2
    <3> QED
      BY <1>3, <3>1 DEF Elems
  <2> QED
    BY <2>1, <2>2
<1>5. ASSUME NEW i \in 1..Len(x) PROVE x[i] \in Elems(s)
  <2>1. i \in 1..Len(s)
    BY <1>1
  <2> QED
    BY <1>2, <2>1 DEF Elems
<1>6. ASSUME NEW i \in 1..Len(y) PROVE y[i] \in Elems(s)
  <2>1. Len(x) + i \in 1..Len(s)
    BY <1>1
  <2> QED
    BY <1>3, <2>1 DEF Elems
<1>7. Elems(s) = Elems(x) \cup Elems(y)
  BY <1>4, <1>5, <1>6 DEF Elems
<1> QED
  BY <1>1, <1>2, <1>3, <1>7 DEF s

\* Plain steps may come before any call's.
LEMMA FreshJoined ==
  ASSUME NEW x, NEW y, Fresh(x), Fresh(y), Plain(x), y # <<>> => y[1].op # "eee_init"
  PROVE  Fresh(x \o y)
<1> DEFINE s == x \o y
           m == Len(x)
           n == Len(y)
<1>0. x \in Seq(LinkSteps) /\ y \in Seq(LinkSteps)
  BY DEF Fresh
<1>1. /\ s \in Seq(LinkSteps) /\ Len(s) = m + n /\ m \in Nat /\ n \in Nat
      /\ \A i \in 1..m : s[i] = x[i]
      /\ \A i \in 1..n : s[m + i] = y[i]
  BY <1>0, JoinedParts
<1>s. (x = <<>> <=> m = 0) /\ (y = <<>> <=> n = 0)
  BY <1>0
<1> HIDE DEF s, m, n
<1>2. ASSUME NEW i \in 1..Len(s), ~(i <= m)
      PROVE  \E j \in 1..n : i = m + j /\ s[i] = y[j]
  <2>1. i - m \in 1..n /\ i = m + (i - m)
    BY <1>1, <1>2
  <2> QED
    BY <1>1, <2>1
<1>a. \A i \in 1..m : x[i].op \in PlainOps /\ Typed(x[i])
  BY DEF Plain, Elems, Fresh, Shape, m
<1>b. ASSUME NEW i \in 1..m, NEW j \in {1, 2}, j <= n, s[m + j].op \in MiiStores PROVE FALSE
  <2>a. j \in 1..n /\ n # 0
    BY <1>1, <1>b
  <2>1. j \in 1..n /\ s[m + j] = y[j] /\ y # <<>>
    BY <1>1, <1>s, <2>a, Zenon
  <2>2. CASE j = 1
    BY <1>b, <2>1, <2>2 DEF Fresh, Bound, Accesses
  <2>3. CASE j = 2
    BY <1>b, <2>1, <2>3 DEF Fresh, n
  <2> QED
    BY <2>2, <2>3
<1>3. ASSUME NEW i \in 1..Len(s) PROVE Typed(s[i]) /\ Before(s, i)
  <2>1. CASE i <= m
    <3>1. s[i] = x[i] /\ x[i].op \in PlainOps /\ Typed(x[i])
      BY <1>1, <1>a, <2>1
    <3>2. Before(s, i)
      BY <3>1 DEF Before, PlainOps, Accesses, MiiStores, Settings
    <3> QED
      BY <3>1, <3>2
  <2>2. CASE ~(i <= m)
    <3>1. PICK j \in 1..n : i = m + j /\ s[i] = y[j]
      BY <1>2, <2>2
    <3>2. Typed(y[j]) /\ Before(y, j)
      BY DEF Fresh, Shape, n
    <3>3. /\ j < n => s[i + 1] = y[j + 1]
          /\ j + 1 < n => s[i + 2] = y[j + 2]
          /\ Len(s) = i <=> n = j
          /\ Len(s) = i + 1 <=> n = j + 1
          /\ Len(s) = i + 2 <=> n = j + 2
          /\ i < Len(s) <=> j < n
      <4>1. /\ j < n => j + 1 \in 1..n /\ i + 1 = m + (j + 1)
            /\ j + 1 < n => j + 2 \in 1..n /\ i + 2 = m + (j + 2)
        BY <1>1, <3>1
      <4>2. /\ Len(s) = i <=> n = j
            /\ Len(s) = i + 1 <=> n = j + 1
            /\ Len(s) = i + 2 <=> n = j + 2
            /\ i < Len(s) <=> j < n
        BY <1>1, <3>1
      <4> QED
        BY <1>1, <4>1, <4>2
    <3>4. n = j + 2 => j < n /\ j + 1 < n
      BY <1>1
    <3>5. n = j + 1 => j < n
      BY <1>1
    <3>6. Len(y) = n
      BY DEF n
    <3>7. Before(s, i)
      BY <3>1, <3>2, <3>3, <3>4, <3>5, <3>6 DEF Before
    <3> QED
      BY <3>1, <3>2, <3>7
  <2> QED
    BY <2>1, <2>2
<1>4. ASSUME NEW i \in 2..Len(s) PROVE After(s[i - 1], s[i])
  <2>1. CASE i <= m
    <3>1. i \in 2..m /\ i \in 1..m /\ i - 1 \in 1..m
      BY <1>1, <2>1
    <3>2. After(x[i - 1], x[i])
      BY <3>1 DEF Fresh, Shape, m
    <3> QED
      BY <1>1, <3>1, <3>2
  <2>2. CASE i = m + 1
    <3>1. 1 \in 1..n /\ s[i] = y[1] /\ y # <<>>
      BY <1>1, <1>s, <2>2
    <3>2. y[1].op \notin Bound \cup {"eee_init"}
      BY <3>1 DEF Fresh
    <3> QED
      BY <3>1, <3>2 DEF After, Bound, Accesses, MiiStores
  <2>3. CASE i > m + 1
    <3>1. i - m \in 2..n /\ i - m \in 1..n /\ i - m - 1 \in 1..n
          /\ m + (i - m) = i /\ m + (i - m - 1) = i - 1
      BY <1>1, <2>3
    <3>2. After(y[i - m - 1], y[i - m])
      BY <3>1 DEF Fresh, Shape, n
    <3> QED
      BY <1>1, <3>1, <3>2
  <2> QED
    BY <1>1, <2>1, <2>2, <2>3
<1>5. ASSUME NEW i \in 3..Len(s), s[i].op \in MiiStores PROVE s[i - 2].op = "load"
  <2>1. CASE i <= m
    <3>1. i \in 3..m /\ i \in 1..m /\ i - 2 \in 1..m
      BY <1>1, <2>1
    <3>2. x[i].op \in MiiStores
      BY <1>1, <1>5, <3>1
    <3>3. x[i - 2].op = "load"
      BY <3>1, <3>2 DEF Fresh, Shape, m
    <3> QED
      BY <1>1, <3>1, <3>3
  <2>2. CASE m > 0 /\ i \in {m + 1, m + 2}
    <3>1. i - m \in {1, 2} /\ i - m <= n /\ i = m + (i - m) /\ 1 \in 1..m
      BY <1>1, <2>2
    <3> QED
      BY <1>5, <1>b, <3>1
  <2>3. CASE i > m + 2
    <3>1. i - m \in 3..n /\ i - m \in 1..n /\ i - m - 2 \in 1..n
          /\ m + (i - m) = i /\ m + (i - m - 2) = i - 2
      BY <1>1, <2>3
    <3>2. y[i - m].op \in MiiStores
      BY <1>1, <1>5, <3>1
    <3>3. y[i - m - 2].op = "load"
      BY <3>1, <3>2 DEF Fresh, Shape, n
    <3> QED
      BY <1>1, <3>1, <3>3
  <2> QED
    BY <1>1, <2>1, <2>2, <2>3
<1>6. s # <<>> => s[1].op \notin Bound
  <2> SUFFICES ASSUME s # <<>> PROVE s[1].op \notin Bound
    OBVIOUS
  <2>1. CASE m > 0
    <3>1. 1 \in 1..m /\ x # <<>>
      BY <1>1, <1>s, <2>1
    <3> QED
      BY <1>1, <3>1 DEF Fresh
  <2>2. CASE m = 0
    <3>1. 1 \in 1..n /\ m + 1 = 1 /\ y # <<>>
      BY <1>1, <1>s, <2>2
    <3> QED
      BY <1>1, <3>1 DEF Fresh
  <2> QED
    BY <1>1, <2>1, <2>2
<1>7. Len(s) >= 2 => s[2].op \notin MiiStores
  <2> SUFFICES ASSUME Len(s) >= 2 PROVE s[2].op \notin MiiStores
    OBVIOUS
  <2>1. CASE m >= 2
    <3>1. 2 \in 1..m
      BY <1>1, <2>1
    <3> QED
      BY <1>1, <2>1, <3>1 DEF Fresh, m
  <2>2. CASE m = 1
    <3>1. m + 1 = 2 /\ 1 <= n /\ 1 \in 1..m
      BY <1>1, <2>2
    <3> QED
      BY <1>b, <3>1
  <2>3. CASE m = 0
    <3>1. 2 \in 1..n /\ m + 2 = 2
      BY <1>1, <2>3
    <3> QED
      BY <1>1, <2>3, <3>1 DEF Fresh, n
  <2> QED
    BY <1>1, <2>1, <2>2, <2>3
<1>8. Shape(s)
  BY <1>3, <1>4, <1>5 DEF Shape
<1> QED
  BY <1>1, <1>6, <1>7, <1>8 DEF Fresh, s

LEMMA ElemsOf ==
  ASSUME NEW a, NEW b
  PROVE  /\ Elems(<<a>>) = {a}
         /\ Elems(<<a, b>>) = {a, b}
<1>1. Elems(<<a>>) = {a}
  BY DEF Elems
<1>2. Elems(<<a, b>>) = {a, b}
  <2>1. Len(<<a, b>>) = 2 /\ <<a, b>>[1] = a /\ <<a, b>>[2] = b /\ 1..2 = {1, 2}
    OBVIOUS
  <2> QED
    BY <2>1 DEF Elems
<1> QED
  BY <1>1, <1>2

LEMMA ElemsOf3 ==
  ASSUME NEW a, NEW b, NEW c
  PROVE  Elems(<<a, b, c>>) = {a, b, c}
<1> DEFINE s == <<a, b, c>>
<1>1. Len(s) = 3 /\ s[1] = a /\ s[2] = b /\ s[3] = c /\ 1..3 = {1, 2, 3}
  OBVIOUS
<1> HIDE DEF s
<1> QED
  BY <1>1 DEF Elems

LEMMA ElemsOf4 ==
  ASSUME NEW a, NEW b, NEW c, NEW d
  PROVE  Elems(<<a, b, c, d>>) = {a, b, c, d}
<1> DEFINE s == <<a, b, c, d>>
<1>1. Len(s) = 4 /\ s[1] = a /\ s[2] = b /\ s[3] = c /\ s[4] = d /\ 1..4 = {1, 2, 3, 4}
  OBVIOUS
<1> HIDE DEF s
<1>2. \A i \in 1..Len(s) : s[i] \in {a, b, c, d}
  BY <1>1
<1>3. {a, b, c, d} \subseteq Elems(s)
  <2>1. {1, 2, 3, 4} \subseteq 1..Len(s)
    BY <1>1
  <2> QED
    BY <1>1, <2>1 DEF Elems
<1> QED
  BY <1>2, <1>3 DEF Elems, s

LEMMA FreshNone == Fresh(<<>>) /\ Plain(<<>>) /\ Elems(<<>>) = {}
<1>1. Len(<<>>) = 0 /\ <<>> \in Seq(LinkSteps) /\ 1..0 = {} /\ 2..0 = {} /\ 3..0 = {} /\ ~(0 >= 2)
  OBVIOUS
<1>2. Elems(<<>>) = {}
  BY NoneHas
<1> QED
  BY <1>1, <1>2 DEF Fresh, Shape, Plain

\* A step that asks nothing of the others.
LEMMA FreshOne ==
  ASSUME NEW x \in LinkSteps, Typed(x),
         x.op \in {"set_mac", "set_bus", "set_priv", "mac", "opened"}
  PROVE  /\ Fresh(<<x>>) /\ Elems(<<x>>) = {x} /\ <<x>>[1] = x /\ <<x>> # <<>>
         /\ x.op # "opened" => Plain(<<x>>)
<1> DEFINE s == <<x>>
<1>1. Len(s) = 1 /\ s[1] = x /\ s \in Seq(LinkSteps) /\ Elems(s) = {x} /\ s # <<>>
  <2>1. Elems(<<x>>) = {x}
    BY ElemsOf, ZenonT(60)
  <2>2. <<x>> \in Seq(LinkSteps) /\ Len(<<x>>) = 1 /\ <<x>>[1] = x
    OBVIOUS
  <2>3. <<x>> # <<>>
    BY <2>2
  <2> QED
    BY <2>1, <2>2, <2>3
<1>2. x.op \notin Bound /\ (x.op # "opened" => x.op \in PlainOps)
  BY DEF Bound, Accesses, MiiStores, Settings, PlainOps
<1> HIDE DEF s
<1>3. \A i \in 1..Len(s) : i = 1
  BY <1>1
<1>4. Before(s, 1)
  BY <1>1 DEF Before, Settings
<1>5. \A i \in 1..Len(s) : Typed(s[i]) /\ Before(s, i)
  BY <1>1, <1>3, <1>4
<1>6. 2..Len(s) = {} /\ 3..Len(s) = {} /\ ~(Len(s) >= 2)
  BY <1>1
<1>7. Fresh(s)
  BY <1>1, <1>2, <1>5, <1>6 DEF Fresh, Shape
<1>8. x.op # "opened" => Plain(s)
  BY <1>1, <1>2 DEF Plain
<1> QED
  BY <1>1, <1>7, <1>8 DEF s

\* A register of the XPCS is read, changed and written.
Rmw(p, op, arg) == Xpcs(p, "load", 0) \o Xpcs(p, op, arg)
RmwSteps(p, op, arg) == {Do2("page", p), Do2("load", 0), Do2(op, arg)}

LEMMA StepIn ==
  ASSUME NEW op \in LinkOps, NEW arg \in Nat \cup BOOLEAN \cup XpcsPages
  PROVE  Do2(op, arg) \in LinkSteps /\ Do2(op, arg).op = op /\ Do2(op, arg).arg = arg
BY DEF Do2, LinkSteps

LEMMA RmwIs ==
  ASSUME NEW p \in XpcsPages, NEW op \in Accesses, Meant(op) = p, NEW arg \in Nat
  PROVE  Fresh(Rmw(p, op, arg)) /\ Plain(Rmw(p, op, arg))
         /\ Elems(Rmw(p, op, arg)) = RmwSteps(p, op, arg)
<1> DEFINE a == Do2("page", p)
           b == Do2("load", 0)
           c == Do2(op, arg)
           x == <<a, b>>
           y == <<a, c>>
           s == x \o y
<1>1. /\ a \in LinkSteps /\ a.op = "page" /\ a.arg = p
      /\ b \in LinkSteps /\ b.op = "load"
      /\ c \in LinkSteps /\ c.op = op /\ c.arg = arg
  <2>1. /\ {"page", "load", op} \subseteq LinkOps
        /\ {p, 0, arg} \subseteq Nat \cup BOOLEAN \cup XpcsPages
    BY DEF LinkOps, Signals, Settings, Accesses, MiiStores
  <2> QED
    BY <2>1, StepIn
<1>2. Rmw(p, op, arg) = s
  BY DEF Rmw, Xpcs
<1> HIDE DEF a, b, c
<1>3. /\ x \in Seq(LinkSteps) /\ Len(x) = 2 /\ x[1] = a /\ x[2] = b
      /\ y \in Seq(LinkSteps) /\ Len(y) = 2 /\ y[1] = a /\ y[2] = c
      /\ Elems(x) = {a, b} /\ Elems(y) = {a, c}
  <2>1. Elems(<<a, b>>) = {a, b} /\ Elems(<<a, c>>) = {a, c}
    BY ElemsOf, ZenonT(60)
  <2>2. /\ <<a, b>> \in Seq(LinkSteps) /\ Len(<<a, b>>) = 2
        /\ <<a, b>>[1] = a /\ <<a, b>>[2] = b
        /\ <<a, c>> \in Seq(LinkSteps) /\ Len(<<a, c>>) = 2
        /\ <<a, c>>[1] = a /\ <<a, c>>[2] = c
    BY <1>1
  <2> QED
    BY <2>1, <2>2
<1> HIDE DEF x, y
<1>4. /\ s \in Seq(LinkSteps) /\ Len(s) = 4 /\ Elems(s) = {a, b, c}
      /\ s[1] = a /\ s[2] = b /\ s[3] = a /\ s[4] = c
  <2>1. /\ s \in Seq(LinkSteps) /\ Len(s) = Len(x) + Len(y)
        /\ \A i \in 1..Len(x) : s[i] = x[i]
        /\ \A i \in 1..Len(y) : s[Len(x) + i] = y[i]
        /\ Elems(s) = Elems(x) \cup Elems(y)
    BY <1>3, JoinedParts
  <2> HIDE DEF s
  <2>2. 1 \in 1..Len(x) /\ 2 \in 1..Len(x) /\ 1 \in 1..Len(y) /\ 2 \in 1..Len(y)
        /\ Len(x) + 1 = 3 /\ Len(x) + 2 = 4 /\ Len(x) + Len(y) = 4
    BY <1>3
  <2>3. s[1] = a /\ s[2] = b /\ s[3] = a /\ s[4] = c
    BY <1>3, <2>1, <2>2
  <2>4. Elems(s) = {a, b, c}
    BY <1>3, <2>1
  <2> QED
    BY <2>1, <2>2, <2>3, <2>4
<1> HIDE DEF s
<1>5. \A i \in 1..Len(s) : i \in {1, 2, 3, 4}
  BY <1>4
<1>6. op \in PlainOps /\ op \notin Switches /\ "page" \in PlainOps /\ "load" \in PlainOps
  BY DEF PlainOps, Accesses, MiiStores, Switches
<1>7. Plain(s)
  BY <1>1, <1>4, <1>6 DEF Plain
<1>8. Typed(a) /\ Typed(b) /\ Typed(c)
  BY <1>1, <1>6 DEF Typed, Switches, Settings, Accesses, MiiStores
<1>9. ASSUME NEW i \in 1..Len(s) PROVE Before(s, i)
  <2>1. s[i].op \in {"page", "load", op}
    BY <1>1, <1>4, <1>5
  <2> QED
    BY <2>1 DEF Before, Accesses, MiiStores
<1>10. /\ After(a, b) /\ After(b, a) /\ After(a, c)
  BY <1>1 DEF After, Accesses, MiiStores, Are
<1>11. ASSUME NEW i \in 2..Len(s) PROVE After(s[i - 1], s[i])
  <2>1. (i = 2 /\ i - 1 = 1) \/ (i = 3 /\ i - 1 = 2) \/ (i = 4 /\ i - 1 = 3)
    BY <1>4
  <2> QED
    BY <1>4, <1>10, <2>1
<1>12. ASSUME NEW i \in 3..Len(s), s[i].op \in MiiStores PROVE s[i - 2].op = "load"
  <2>1. i = 3 \/ (i = 4 /\ i - 2 = 2)
    BY <1>4
  <2>2. s[3].op \notin MiiStores
    BY <1>1, <1>4 DEF MiiStores
  <2> QED
    BY <1>1, <1>4, <1>12, <2>1, <2>2
<1>13. \A i \in 1..Len(s) : Typed(s[i])
  BY <1>4, <1>5, <1>8
<1>14. Fresh(s)
  BY <1>1, <1>4, <1>9, <1>11, <1>12, <1>13 DEF Fresh, Shape, Bound, Accesses, MiiStores
<1> QED
  BY <1>2, <1>4, <1>7, <1>14 DEF RmwSteps, a, b, c

\* A register is read or written once.
LEMMA XpcsIs ==
  ASSUME NEW p \in XpcsPages, NEW op \in Accesses \ MiiStores, Meant(op) = p, NEW arg \in Nat
  PROVE  Fresh(Xpcs(p, op, arg)) /\ Plain(Xpcs(p, op, arg))
         /\ Elems(Xpcs(p, op, arg)) = {Do2("page", p), Do2(op, arg)}
<1> DEFINE a == Do2("page", p)
           c == Do2(op, arg)
           s == <<a, c>>
<1>1. /\ a \in LinkSteps /\ a.op = "page" /\ a.arg = p
      /\ c \in LinkSteps /\ c.op = op /\ c.arg = arg
  <2>1. {"page", op} \subseteq LinkOps /\ {p, arg} \subseteq Nat \cup BOOLEAN \cup XpcsPages
    BY DEF LinkOps, Signals, Settings, Accesses, MiiStores
  <2> QED
    BY <2>1, StepIn
<1>2. Xpcs(p, op, arg) = s
  BY DEF Xpcs
<1> HIDE DEF a, c
<1>3. Elems(s) = {a, c}
  BY ElemsOf, ZenonT(60)
<1>4. s \in Seq(LinkSteps) /\ Len(s) = 2 /\ s[1] = a /\ s[2] = c
  BY <1>1
<1> HIDE DEF s
<1>5. \A i \in 1..Len(s) : i = 1 \/ i = 2
  BY <1>4
<1>6. op \in PlainOps /\ op \notin Switches /\ "page" \in PlainOps
  BY DEF PlainOps, Accesses, MiiStores, Switches
<1>7. Plain(s)
  BY <1>1, <1>3, <1>6 DEF Plain
<1>8. Typed(a) /\ Typed(c)
  BY <1>1, <1>6 DEF Typed, Switches, Settings, Accesses, MiiStores
<1>9. ASSUME NEW i \in 1..Len(s) PROVE Typed(s[i]) /\ Before(s, i)
  <2>1. s[i].op \in {"page", op} /\ Typed(s[i])
    BY <1>1, <1>4, <1>5, <1>8
  <2> QED
    BY <2>1 DEF Before, Accesses, MiiStores
<1>10. After(a, c)
  BY <1>1 DEF After, Accesses, MiiStores, Are
<1>11. ASSUME NEW i \in 2..Len(s) PROVE After(s[i - 1], s[i])
  <2>1. i = 2 /\ i - 1 = 1
    BY <1>4
  <2> QED
    BY <1>4, <1>10, <2>1
<1>12. 3..Len(s) = {} /\ s[2].op \notin MiiStores
  BY <1>1, <1>4
<1>13. Fresh(s)
  BY <1>1, <1>4, <1>9, <1>11, <1>12 DEF Fresh, Shape, Bound, Accesses, MiiStores
<1> QED
  BY <1>2, <1>3, <1>7, <1>13 DEF a, c

\* Steps that ask nothing of one another.
LEMMA Loose ==
  ASSUME NEW s \in Seq(LinkSteps),
         \A i \in 1..Len(s) : Typed(s[i]) /\ s[i].op \in {"set_mac", "set_bus", "set_priv", "mac"}
  PROVE  Fresh(s) /\ Plain(s)
<1>1. Len(s) \in Nat
  OBVIOUS
<1>2. ASSUME NEW i \in 1..Len(s)
      PROVE  /\ s[i].op \notin Bound \cup MiiStores /\ s[i].op \in PlainOps
             /\ Before(s, i) /\ \A w : After(w, s[i])
  <2>1. s[i].op \in {"set_mac", "set_bus", "set_priv", "mac"}
    OBVIOUS
  <2> QED
    BY <2>1 DEF Bound, Accesses, MiiStores, PlainOps, Settings, Before, After
<1>3. \A i \in 2..Len(s) : i \in 1..Len(s)
  BY <1>1
<1>4. \A i \in 3..Len(s) : i \in 1..Len(s)
  BY <1>1
<1>5. Shape(s)
  BY <1>2, <1>3, <1>4 DEF Shape
<1>6. s # <<>> => 1 \in 1..Len(s)
  OBVIOUS
<1>7. Len(s) >= 2 => 2 \in 1..Len(s)
  BY <1>1
<1>8. Fresh(s)
  BY <1>2, <1>5, <1>6, <1>7 DEF Fresh
<1> QED
  BY <1>2, <1>8 DEF Plain, Elems

LEMMA FirstIn ==
  ASSUME NEW s \in Seq(LinkSteps), s # <<>>
  PROVE  s[1] \in Elems(s)
<1>1. 1 \in 1..Len(s)
  OBVIOUS
<1> QED
  BY <1>1 DEF Elems

LEMMA PlainJoined ==
  ASSUME NEW x, NEW y, Fresh(x), Fresh(y), Plain(x), Plain(y)
  PROVE  /\ Fresh(x \o y) /\ Plain(x \o y)
         /\ Elems(x \o y) = Elems(x) \cup Elems(y)
<1>1. y # <<>> => y[1].op # "eee_init"
  <2> SUFFICES ASSUME y # <<>> PROVE y[1].op # "eee_init"
    OBVIOUS
  <2>1. y[1] \in Elems(y)
    BY FirstIn DEF Fresh
  <2>2. y[1].op \in PlainOps
    BY <2>1 DEF Plain
  <2> QED
    BY <2>2 DEF PlainOps, Accesses, MiiStores, Settings
<1>2. Elems(x \o y) = Elems(x) \cup Elems(y)
  BY JoinedParts DEF Fresh
<1>3. Fresh(x \o y)
  BY <1>1, FreshJoined
<1> QED
  BY <1>2, <1>3 DEF Plain

LEMMA CtrlAneIs ==
  /\ Fresh(CtrlAne) /\ Plain(CtrlAne)
  /\ Elems(CtrlAne) = RmwSteps("mii", "store_ane", 0)
<1>1. "mii" \in XpcsPages /\ "store_ane" \in Accesses /\ Meant("store_ane") = "mii" /\ 0 \in Nat
  BY DEF XpcsPages, Accesses, MiiStores, Meant
<1>2. CtrlAne = Rmw("mii", "store_ane", 0)
  BY DEF CtrlAne, Rmw
<1> QED
  BY <1>1, <1>2, RmwIs

\* Autonegotiation is looked at, and its completion acknowledged.
LEMMA AckAnIs ==
  ASSUME NEW s \in Nat
  PROVE  /\ Fresh(Xpcs("an", "test_an", s)) /\ Plain(Xpcs("an", "test_an", s))
         /\ Elems(Xpcs("an", "test_an", s)) = {Do2("page", "an"), Do2("test_an", s)}
         /\ Fresh(Xpcs("an", "store_an", 0)) /\ Plain(Xpcs("an", "store_an", 0))
         /\ Elems(Xpcs("an", "store_an", 0)) = {Do2("page", "an"), Do2("store_an", 0)}
<1>1. /\ "an" \in XpcsPages /\ {"test_an", "store_an"} \subseteq Accesses \ MiiStores
      /\ Meant("store_an") = "an" /\ Meant("test_an") = "an" /\ 0 \in Nat
  BY DEF XpcsPages, Accesses, MiiStores, Meant
<1> QED
  BY <1>1, XpcsIs

LEMMA XpcsSpeedIs ==
  ASSUME NEW s \in Nat
  PROVE  /\ Fresh(XpcsSpeed(s)) /\ Plain(XpcsSpeed(s))
         /\ Elems(XpcsSpeed(s))
              = RmwSteps("mii", "store_speed", s) \cup RmwSteps("dig", "store_rst", 0)
<1>1. /\ "mii" \in XpcsPages /\ "store_speed" \in Accesses /\ Meant("store_speed") = "mii"
      /\ "dig" \in XpcsPages /\ "store_rst" \in Accesses /\ Meant("store_rst") = "dig" /\ 0 \in Nat
  BY DEF XpcsPages, Accesses, MiiStores, Meant
<1>2. ASSUME NEW p \in XpcsPages, NEW op \in {"load", "store_speed", "store_rst"}, NEW arg \in Nat
      PROVE  Xpcs(p, op, arg) \in Seq(LinkSteps)
  <2>1. "page" \in LinkOps /\ op \in LinkOps
    BY DEF LinkOps, Signals, Settings
  <2>2. Do2("page", p) \in LinkSteps /\ Do2(op, arg) \in LinkSteps
    BY <2>1, StepIn
  <2> QED
    BY <2>2 DEF Xpcs
<1>3. PICK a \in Seq(LinkSteps), b \in Seq(LinkSteps),
             c \in Seq(LinkSteps), d \in Seq(LinkSteps) :
        /\ a = Xpcs("mii", "load", 0) /\ b = Xpcs("mii", "store_speed", s)
        /\ c = Xpcs("dig", "load", 0) /\ d = Xpcs("dig", "store_rst", 0)
  BY <1>1, <1>2
<1>4. XpcsSpeed(s) = ((a \o b) \o c) \o d
  BY <1>3 DEF XpcsSpeed
<1>5. a \o b = Rmw("mii", "store_speed", s) /\ c \o d = Rmw("dig", "store_rst", 0)
  BY <1>3 DEF Rmw
<1>7. ((a \o b) \o c) \o d = (a \o b) \o (c \o d)
  <2>1. a \o b \in Seq(LinkSteps)
    BY ConcatProperties
  <2> QED
    BY <2>1, ConcatAssociative, SMTT(30)
<1>8. XpcsSpeed(s) = Rmw("mii", "store_speed", s) \o Rmw("dig", "store_rst", 0)
  BY <1>4, <1>5, <1>7
<1>9. /\ Fresh(Rmw("mii", "store_speed", s)) /\ Plain(Rmw("mii", "store_speed", s))
      /\ Elems(Rmw("mii", "store_speed", s)) = RmwSteps("mii", "store_speed", s)
      /\ Fresh(Rmw("dig", "store_rst", 0)) /\ Plain(Rmw("dig", "store_rst", 0))
      /\ Elems(Rmw("dig", "store_rst", 0)) = RmwSteps("dig", "store_rst", 0)
  BY <1>1, RmwIs
<1> QED
  BY <1>8, <1>9, PlainJoined

LEMMA SettingIs ==
  ASSUME NEW op \in {"set_mac", "set_bus", "set_priv"}, NEW n \in Nat
  PROVE  /\ Fresh(<<Do2(op, n)>>) /\ Plain(<<Do2(op, n)>>)
         /\ Elems(<<Do2(op, n)>>) = {Do2(op, n)}
         /\ Do2(op, n) \in LinkSteps /\ Typed(Do2(op, n))
         /\ Do2(op, n).op = op /\ Do2(op, n).arg = n
<1>1. op \in LinkOps /\ op \notin Switches /\ op # "page" /\ op # "opened"
  BY DEF LinkOps, Settings, Switches
<1>2. Do2(op, n) \in LinkSteps /\ Do2(op, n).op = op /\ Do2(op, n).arg = n
  BY <1>1, StepIn
<1>3. Typed(Do2(op, n))
  BY <1>1, <1>2 DEF Typed
<1> QED
  BY <1>1, <1>2, <1>3, FreshOne

LEMMA SpeedsIs ==
  ASSUME NEW n \in Nat
  PROVE  /\ Fresh(Speeds(n)) /\ Plain(Speeds(n))
         /\ Elems(Speeds(n)) = {Do2("set_priv", n), Do2("set_mac", n), Do2("set_bus", n)}
<1> DEFINE a == Do2("set_priv", n)
           b == Do2("set_mac", n)
           c == Do2("set_bus", n)
           s == <<a, b, c>>
<1>1. /\ a \in LinkSteps /\ Typed(a) /\ a.op = "set_priv"
      /\ b \in LinkSteps /\ Typed(b) /\ b.op = "set_mac"
      /\ c \in LinkSteps /\ Typed(c) /\ c.op = "set_bus"
  BY SettingIs
<1>2. Speeds(n) = s
  BY DEF Speeds
<1> HIDE DEF a, b, c
<1>3. Elems(<<a, b, c>>) = {a, b, c}
  BY ElemsOf3, ZenonT(60)
<1>4. s \in Seq(LinkSteps) /\ Len(s) = 3 /\ s[1] = a /\ s[2] = b /\ s[3] = c
  BY <1>1
<1>5. Elems(s) = {a, b, c}
  BY <1>3
<1> HIDE DEF s
<1>6. \A i \in 1..Len(s) : i \in {1, 2, 3}
  BY <1>4
<1>7. \A i \in 1..Len(s) :
        Typed(s[i]) /\ s[i].op \in {"set_mac", "set_bus", "set_priv", "mac"}
  BY <1>1, <1>4, <1>6
<1>8. Fresh(s) /\ Plain(s)
  BY <1>4, <1>7, Loose
<1> QED
  BY <1>2, <1>5, <1>8 DEF a, b, c

LEMMA StepOf == \A op, arg : /\ Do2(op, arg).op = op /\ Do2(op, arg).arg = arg
                             /\ Do1(op).op = op /\ Do1(op).arg = 0
                             /\ Are(Do2(op, arg), op, arg) /\ Are(Do1(op), op, 0)
BY DEF Do1, Do2, Are

\* What mac_config does when it has looked at autonegotiation: it sets priv->speed,
\* and the other places of the interface if that is complete, and nothing else.
SetsSpeed(p, s, complete) ==
  /\ Fresh(p) /\ Plain(p) /\ p # <<>>
  /\ \A x \in Elems(p) : /\ x.op \in Settings => x.arg = s
                         /\ x.op \notin {"mac", "test_an"}
  /\ Has(p, "set_priv", s)
  /\ complete => /\ Has(p, "set_mac", s) /\ Has(p, "set_bus", s)
                 /\ iface = "usxgmii" => Has(p, "store_speed", s)

LEMMA SpeedsSet ==
  ASSUME NEW s \in Nat, NEW x \in Seq(LinkSteps), NEW y,
         Fresh(x), Plain(x), y = Speeds(s),
         \A z \in Elems(x) : (z.op \in Settings => z.arg = s) /\ z.op \notin {"mac", "test_an"},
         iface = "usxgmii" => Has(x, "store_speed", s)
  PROVE  SetsSpeed(x \o y, s, TRUE)
<1>1. /\ Fresh(y) /\ Plain(y)
      /\ Elems(y) = {Do2("set_priv", s), Do2("set_mac", s), Do2("set_bus", s)}
  BY SpeedsIs
<1> DEFINE p == x \o y
<1>2. Fresh(p) /\ Plain(p) /\ Elems(p) = Elems(x) \cup Elems(y)
  BY <1>1, PlainJoined
<1> HIDE DEF p
<1>3. \A z \in Elems(y) : z.arg = s /\ z.op \in {"set_priv", "set_mac", "set_bus"}
  BY <1>1, StepOf
<1>4. \A z \in Elems(p) : (z.op \in Settings => z.arg = s) /\ z.op \notin {"mac", "test_an"}
  BY <1>2, <1>3
<1>5. Has(p, "set_priv", s) /\ Has(p, "set_mac", s) /\ Has(p, "set_bus", s)
  BY <1>1, <1>2, StepOf DEF Has
<1>6. iface = "usxgmii" => Has(p, "store_speed", s)
  BY <1>2 DEF Has
<1>7. p # <<>>
  BY <1>5, NoneHas
<1> QED
  BY <1>2, <1>4, <1>5, <1>6, <1>7 DEF SetsSpeed, p

LEMMA AnTestedIs ==
  ASSUME NEW s \in Nat, Knows(iface, s), NEW complete \in BOOLEAN
  PROVE  SetsSpeed(AnTested(s, complete), s, complete)
<1>1. CASE ~complete
  <2>1. AnTested(s, complete) = <<Do2("set_priv", s)>>
    BY <1>1 DEF AnTested
  <2>2. PICK p : p = <<Do2("set_priv", s)>>
    OBVIOUS
  <2>3. Fresh(p) /\ Plain(p) /\ Elems(p) = {Do2("set_priv", s)}
    BY <2>2, SettingIs
  <2>4. Has(p, "set_priv", s)
    BY <2>3, StepOf DEF Has
  <2>5. p # <<>>
    BY <2>4, NoneHas
  <2>6. \A x \in Elems(p) : x.arg = s /\ x.op = "set_priv"
    BY <2>3, StepOf
  <2> QED
    BY <1>1, <2>1, <2>2, <2>3, <2>4, <2>5, <2>6 DEF SetsSpeed
<1>2. CASE complete
  <2> DEFINE ack == Xpcs("an", "store_an", 0)
             u == IF iface = "usxgmii" THEN XpcsSpeed(s) ELSE <<>>
             v == Speeds(s)
  <2>1. AnTested(s, complete) = ack \o (u \o v)
    BY <1>2, Zenon DEF AnTested
  <2>2. Fresh(ack) /\ Plain(ack) /\ Elems(ack) = {Do2("page", "an"), Do2("store_an", 0)}
    BY AckAnIs
  <2>3. /\ Fresh(u) /\ Plain(u)
        /\ iface = "usxgmii" =>
             Elems(u) = RmwSteps("mii", "store_speed", s) \cup RmwSteps("dig", "store_rst", 0)
        /\ iface # "usxgmii" => Elems(u) = {}
    BY FreshNone, XpcsSpeedIs
  <2>4. Fresh(v) /\ v = Speeds(s)
    BY SpeedsIs
  <2> HIDE DEF ack, u, v
  <2>5. ack \o (u \o v) = (ack \o u) \o v
    <3>1. ack \in Seq(LinkSteps) /\ u \in Seq(LinkSteps) /\ v \in Seq(LinkSteps)
      BY <2>2, <2>3, <2>4 DEF Fresh
    <3> QED
      BY <3>1, ConcatAssociative, SMTT(30)
  <2>6. /\ Fresh(ack \o u) /\ Plain(ack \o u)
        /\ Elems(ack \o u) = Elems(ack) \cup Elems(u)
    BY <2>2, <2>3, PlainJoined
  <2>7. PICK x : x = ack \o u
    OBVIOUS
  <2>8. ASSUME NEW z \in Elems(x)
        PROVE  (z.op \in Settings => z.arg = s) /\ z.op \notin {"mac", "test_an"}
    <3>1. z.op \in {"page", "load", "store_an", "store_rst"} \/ z = Do2("store_speed", s)
      BY <2>2, <2>3, <2>6, <2>7, <2>8, StepOf DEF RmwSteps
    <3> QED
      BY <3>1, StepOf DEF Settings
  <2>9. iface = "usxgmii" => Has(x, "store_speed", s)
    <3>1. iface = "usxgmii" => Do2("store_speed", s) \in Elems(x)
      BY <2>3, <2>6, <2>7 DEF RmwSteps
    <3> QED
      BY <3>1, StepOf DEF Has
  <2>10. x \in Seq(LinkSteps)
    BY <2>6, <2>7 DEF Fresh
  <2>11. SetsSpeed(x \o v, s, TRUE)
    BY <2>4, <2>6, <2>7, <2>8, <2>9, <2>10, SpeedsSet
  <2> QED
    BY <1>2, <2>1, <2>5, <2>7, <2>11 DEF SetsSpeed
<1> QED
  BY <1>1, <1>2

\* mac_config looks at autonegotiation behind an XPCS, and sets the speed at once
\* when there is none.
Configures(p, s) ==
  /\ Fresh(p) /\ Plain(p)
  /\ \A x \in Elems(p) : /\ x.op \in Settings => x.arg = s
                         /\ x.op # "mac"
                         /\ x.op = "test_an" => iface # "rgmii"
  /\ \/ Has(p, "test_an", s)
     \/ Has(p, "set_priv", s) /\ Has(p, "set_mac", s) /\ Has(p, "set_bus", s)
        /\ iface = "rgmii"

LEMMA MacConfigIs ==
  ASSUME NEW s \in Nat, Knows(iface, s)
  PROVE  Configures(MacConfig(s), s)
<1>1. CASE iface # "rgmii"
  <2>1. PICK p : p = Xpcs("an", "test_an", s)
    OBVIOUS
  <2>2. Fresh(p) /\ Plain(p) /\ Elems(p) = {Do2("page", "an"), Do2("test_an", s)}
    BY <2>1, AckAnIs
  <2>3. \A x \in Elems(p) : (x.op \in Settings => x.arg = s) /\ x.op # "mac"
    BY <2>2, StepOf DEF Settings
  <2>4. Has(p, "test_an", s)
    BY <2>2, StepOf DEF Has
  <2>5. MacConfig(s) = p
    BY <1>1, <2>1, Zenon DEF MacConfig
  <2> QED
    BY <1>1, <2>2, <2>3, <2>4, <2>5 DEF Configures
<1>2. CASE iface = "rgmii"
  <2>1. PICK p : p = Speeds(s)
    OBVIOUS
  <2>2. /\ Fresh(p) /\ Plain(p)
        /\ Elems(p) = {Do2("set_priv", s), Do2("set_mac", s), Do2("set_bus", s)}
    BY <2>1, SpeedsIs
  <2>3. \A x \in Elems(p) : x.arg = s /\ x.op \notin {"mac", "test_an"}
    BY <2>2, StepOf
  <2>4. Has(p, "set_priv", s) /\ Has(p, "set_mac", s) /\ Has(p, "set_bus", s)
    BY <2>2, StepOf DEF Has
  <2>5. MacConfig(s) = p
    BY <1>2, <2>1, Zenon DEF MacConfig
  <2> QED
    BY <1>2, <2>2, <2>3, <2>4, <2>5 DEF Configures
<1> QED
  BY <1>1, <1>2

\* link_up and link_down.
LinkTo(on, eee) ==
  <<Do2("mac", on), Do2("active", eee), Do1("eee_init"), Do1("enable_result")>>
LinkToSteps(on, eee) ==
  {Do2("mac", on), Do2("active", eee), Do1("eee_init"), Do1("enable_result")}

LEMMA SignalIn == ASSUME NEW op \in Signals PROVE Do1(op) \in LinkSteps
<1>1. op \in LinkOps /\ 0 \in Nat \cup BOOLEAN \cup XpcsPages
  BY DEF LinkOps
<1> QED
  BY <1>1 DEF Do1, LinkSteps

LEMMA LinkToIs ==
  ASSUME NEW on \in BOOLEAN, NEW eee \in BOOLEAN
  PROVE  LET s == LinkTo(on, eee)
         IN /\ Fresh(s) /\ Len(s) = 4 /\ Elems(s) = LinkToSteps(on, eee)
            /\ s[1] = Do2("mac", on) /\ s[2] = Do2("active", eee)
            /\ s[3] = Do1("eee_init") /\ s[4] = Do1("enable_result")
<1> DEFINE a == Do2("mac", on)
           b == Do2("active", eee)
           c == Do1("eee_init")
           d == Do1("enable_result")
           s == <<a, b, c, d>>
<1>1. /\ a \in LinkSteps /\ a.op = "mac" /\ a.arg = on
      /\ b \in LinkSteps /\ b.op = "active" /\ b.arg = eee
      /\ c \in LinkSteps /\ c.op = "eee_init" /\ d \in LinkSteps /\ d.op = "enable_result"
  <2>1. {"mac", "active"} \subseteq LinkOps /\ {"eee_init", "enable_result"} \subseteq Signals
    BY DEF LinkOps, Switches, Signals
  <2>2. {on, eee} \subseteq Nat \cup BOOLEAN \cup XpcsPages
    OBVIOUS
  <2> QED
    BY <2>1, <2>2, StepIn, SignalIn, StepOf
<1>2. LinkTo(on, eee) = s /\ LinkToSteps(on, eee) = {a, b, c, d}
  BY DEF LinkTo, LinkToSteps
<1> HIDE DEF a, b, c, d
<1>3. Elems(s) = {a, b, c, d}
  <2>1. Elems(<<a, b, c, d>>) = {a, b, c, d}
    BY ElemsOf4, ZenonT(60)
  <2> QED
    BY <2>1
<1>4. s \in Seq(LinkSteps) /\ Len(s) = 4 /\ s[1] = a /\ s[2] = b /\ s[3] = c /\ s[4] = d
  BY <1>1
<1> HIDE DEF s
<1>5. \A i \in 1..Len(s) : i \in {1, 2, 3, 4}
  BY <1>4
<1>6. ASSUME NEW i \in 1..Len(s) PROVE Typed(s[i]) /\ Before(s, i)
  <2>1. Typed(s[i])
    BY <1>1, <1>4, <1>5 DEF Typed, Switches, Settings
  <2>2. CASE i \in {1, 2, 4}
    <3>1. s[i].op \in {"mac", "active", "enable_result"}
      BY <1>1, <1>4, <2>2
    <3> QED
      BY <2>1, <3>1 DEF Before
  <2>3. CASE i = 3
    <3>1. s[i].op = "eee_init" /\ i + 1 = 4 /\ i < Len(s) /\ s[i + 1].op = "enable_result"
      BY <1>1, <1>4, <2>3
    <3> QED
      BY <2>1, <3>1 DEF Before
  <2> QED
    BY <1>5, <2>1, <2>2, <2>3
<1>7. ASSUME NEW i \in 2..Len(s) PROVE After(s[i - 1], s[i])
  <2>1. (i = 2 /\ i - 1 = 1) \/ (i = 3 /\ i - 1 = 2) \/ (i = 4 /\ i - 1 = 3)
    BY <1>4
  <2> QED
    BY <1>1, <1>4, <2>1 DEF After, Accesses, MiiStores
<1>8. \A i \in 1..Len(s) : s[i].op \notin MiiStores
  BY <1>1, <1>4, <1>5 DEF MiiStores
<1>9. \A i \in 3..Len(s) : i \in 1..Len(s)
  BY <1>4
<1>10. Fresh(s)
  BY <1>1, <1>4, <1>6, <1>7, <1>8, <1>9 DEF Fresh, Shape, Bound, Accesses, MiiStores
<1> QED
  BY <1>2, <1>3, <1>4, <1>10 DEF a, b, c, d

LEMMA MacOnIs ==
  /\ Do2("mac", TRUE) \in LinkSteps /\ Typed(Do2("mac", TRUE))
  /\ Do2("mac", TRUE).op = "mac" /\ Do2("mac", TRUE).arg = TRUE
<1>1. "mac" \in LinkOps /\ TRUE \in Nat \cup BOOLEAN \cup XpcsPages
  BY DEF LinkOps, Switches
<1>2. /\ Do2("mac", TRUE) \in LinkSteps
      /\ Do2("mac", TRUE).op = "mac" /\ Do2("mac", TRUE).arg = TRUE
  BY <1>1, StepIn
<1> QED
  BY <1>2 DEF Typed, Settings

\* hw_setup: what it does before the interface is open.
OpensWith(x) ==
  /\ Fresh(x) /\ Plain(x)
  /\ \A z \in Elems(x) : /\ z.op \in {"set_mac", "mac", "page", "load", "store_ane"}
                         /\ z.op = "mac" => z.arg = TRUE
  /\ iface # "rgmii" => Has(x, "store_ane", 0)

LEMMA HwSetupIs ==
  ASSUME iface \in Interfaces
  PROVE  OpensWith(IF iface = "rgmii" THEN <<Do2("mac", TRUE)>>
                   ELSE <<Do2("set_mac", PortSpeed[iface]), Do2("mac", TRUE)>> \o CtrlAne)
<1>1. CASE iface = "rgmii"
  <2>1. PICK x : x = <<Do2("mac", TRUE)>>
    OBVIOUS
  <2>2. Fresh(x) /\ Plain(x) /\ Elems(x) = {Do2("mac", TRUE)}
    BY <2>1, MacOnIs, FreshOne
  <2>3. OpensWith(x)
    BY <1>1, <2>2, MacOnIs DEF OpensWith
  <2> QED
    BY <1>1, <2>1, <2>3
<1>2. CASE iface # "rgmii"
  <2> DEFINE a == Do2("set_mac", PortSpeed[iface])
             b == Do2("mac", TRUE)
             s == <<a, b>>
             c == CtrlAne
  <2>1. PortSpeed[iface] \in Nat
    BY LinkAssumption
  <2>2. /\ a \in LinkSteps /\ Typed(a) /\ a.op = "set_mac"
        /\ b \in LinkSteps /\ Typed(b) /\ b.op = "mac" /\ b.arg = TRUE
    BY <2>1, SettingIs, MacOnIs
  <2>3. /\ Fresh(c) /\ Plain(c) /\ Elems(c) = RmwSteps("mii", "store_ane", 0)
    BY CtrlAneIs
  <2> HIDE DEF a, b, c
  <2>4. Elems(<<a, b>>) = {a, b}
    BY ElemsOf, ZenonT(60)
  <2>5. s \in Seq(LinkSteps) /\ Len(s) = 2 /\ s[1] = a /\ s[2] = b /\ Elems(s) = {a, b}
    BY <2>2, <2>4
  <2> HIDE DEF s
  <2>6. \A i \in 1..Len(s) : i = 1 \/ i = 2
    BY <2>5
  <2>7. \A i \in 1..Len(s) :
          Typed(s[i]) /\ s[i].op \in {"set_mac", "set_bus", "set_priv", "mac"}
    BY <2>2, <2>5, <2>6
  <2>8. Fresh(s) /\ Plain(s)
    BY <2>5, <2>7, Loose
  <2>9. Fresh(s \o c) /\ Plain(s \o c) /\ Elems(s \o c) = Elems(s) \cup Elems(c)
    BY <2>3, <2>8, PlainJoined
  <2>10. PICK x : x = s \o c
    OBVIOUS
  <2>11. \A z \in Elems(c) : z.op \in {"page", "load", "store_ane"}
    BY <2>3, StepOf DEF RmwSteps
  <2>12. \A z \in Elems(x) : /\ z.op \in {"set_mac", "mac", "page", "load", "store_ane"}
                             /\ z.op = "mac" => z.arg = TRUE
    BY <2>2, <2>5, <2>9, <2>10, <2>11
  <2>13. Has(x, "store_ane", 0)
    <3>1. Do2("store_ane", 0) \in Elems(x)
      BY <2>3, <2>9, <2>10 DEF RmwSteps
    <3> QED
      BY <3>1, StepOf DEF Has
  <2>14. OpensWith(x)
    <3>1. Fresh(x) /\ Plain(x)
      BY <2>9, <2>10, Zenon
    <3>2. \A z \in Elems(x) : /\ z.op \in {"set_mac", "mac", "page", "load", "store_ane"}
                              /\ z.op = "mac" => z.arg = TRUE
      BY <2>12
    <3>3. iface # "rgmii" => Has(x, "store_ane", 0)
      BY <2>13
    <3> QED
      BY <3>1, <3>2, <3>3 DEF OpensWith
  <2> QED
    BY <1>2, <2>10, <2>14 DEF s, a, b, c
<1> QED
  BY <1>1, <1>2

LEMMA OpenLinkIs ==
  ASSUME iface \in Interfaces
  PROVE  /\ Fresh(OpenLink)
         /\ \A x \in Elems(OpenLink) :
              /\ x.op \in {"set_mac", "mac", "page", "load", "store_ane", "opened"}
              /\ x.op = "mac" => x.arg = TRUE
         /\ iface # "rgmii" => Has(OpenLink, "store_ane", 0)
         /\ Has(OpenLink, "opened", 0)
         /\ OpenLink # <<>> => OpenLink[1].op # "eee_init"
<1> DEFINE x == IF iface = "rgmii" THEN <<Do2("mac", TRUE)>>
                ELSE <<Do2("set_mac", PortSpeed[iface]), Do2("mac", TRUE)>> \o CtrlAne
           y == <<Do1("opened")>>
<1>1. OpenLink = x \o y
  BY Zenon DEF OpenLink
<1>2. OpensWith(x)
  BY HwSetupIs
<1>4. Do1("opened") \in LinkSteps /\ Do1("opened").op = "opened" /\ Typed(Do1("opened"))
  <2>1. "opened" \in Signals
    BY DEF Signals
  <2> QED
    BY <2>1, SignalIn, StepOf DEF Typed, Switches, Settings
<1>5. Fresh(y) /\ Elems(y) = {Do1("opened")} /\ y[1].op = "opened"
  BY <1>4, FreshOne
<1> HIDE DEF y, x
<1>7. Fresh(x \o y) /\ Elems(x \o y) = Elems(x) \cup Elems(y)
  BY <1>2, <1>5, FreshJoined, JoinedParts DEF Fresh, OpensWith
<1>6. PICK s : s = x \o y
  OBVIOUS
<1>8. Fresh(s) /\ Elems(s) = Elems(x) \cup Elems(y) /\ OpenLink = s
  BY <1>1, <1>6, <1>7
<1>9. \A z \in Elems(s) : /\ z.op \in {"set_mac", "mac", "page", "load", "store_ane", "opened"}
                          /\ z.op = "mac" => z.arg = TRUE
  BY <1>2, <1>4, <1>5, <1>8 DEF OpensWith
<1>10. s # <<>> => s[1].op # "eee_init"
  <2> SUFFICES ASSUME s # <<>> PROVE s[1].op # "eee_init"
    OBVIOUS
  <2>1. s[1] \in Elems(s)
    BY <1>8, FirstIn DEF Fresh
  <2>2. s[1].op \in {"set_mac", "mac", "page", "load", "store_ane", "opened"}
    BY <1>9, <2>1
  <2> QED
    BY <2>2
<1>11. iface # "rgmii" => Has(s, "store_ane", 0)
  BY <1>2, <1>8 DEF Has, OpensWith
<1>12. Has(s, "opened", 0)
  BY <1>5, <1>8, StepOf DEF Has
<1> QED
  BY <1>8, <1>9, <1>10, <1>11, <1>12, Zenon

\* release, ethtool and the polls.
LEMMA ReleaseIs ==
  /\ Fresh(Release) /\ Release[1].op = "del_if_enabled" /\ Release # <<>>
  /\ Elems(Release) = {Do1("del_if_enabled"), Do1("phylink_stop"), Do1("polls_off"),
                       Do2("mac", FALSE)}
<1> DEFINE a == Do1("del_if_enabled")
           b == Do1("phylink_stop")
           c == Do1("polls_off")
           d == Do2("mac", FALSE)
           s == <<a, b, c, d>>
<1>1. /\ a \in LinkSteps /\ a.op = "del_if_enabled" /\ b \in LinkSteps /\ b.op = "phylink_stop"
      /\ c \in LinkSteps /\ c.op = "polls_off" /\ c = Do1("polls_off")
      /\ d \in LinkSteps /\ d.op = "mac" /\ d.arg = FALSE /\ d = Do2("mac", FALSE)
  <2>1. "mac" \in LinkOps /\ {"del_if_enabled", "phylink_stop", "polls_off"} \subseteq Signals
    BY DEF LinkOps, Switches, Signals
  <2>2. FALSE \in Nat \cup BOOLEAN \cup XpcsPages
    OBVIOUS
  <2> QED
    BY <2>1, <2>2, StepIn, SignalIn, StepOf
<1>2. Release = s
  BY DEF Release
<1> HIDE DEF a, b, c, d
<1>3. Elems(s) = {a, b, c, d}
  <2>1. Elems(<<a, b, c, d>>) = {a, b, c, d}
    BY ElemsOf4, ZenonT(60)
  <2> QED
    BY <2>1
<1>4. s \in Seq(LinkSteps) /\ Len(s) = 4 /\ s[1] = a /\ s[2] = b /\ s[3] = c /\ s[4] = d
  <2>1. a \in LinkSteps /\ b \in LinkSteps /\ c \in LinkSteps /\ d \in LinkSteps
    BY <1>1
  <2> QED
    BY <2>1
<1> HIDE DEF s
<1>5. \A i \in 1..Len(s) : i \in {1, 2, 3, 4}
  BY <1>4
<1>6. ASSUME NEW i \in 1..Len(s) PROVE Typed(s[i]) /\ Before(s, i)
  <2>1. Typed(s[i])
    BY <1>1, <1>4, <1>5 DEF Typed, Switches, Settings
  <2>2. CASE i \in {3, 4}
    <3>1. s[i].op \in {"mac", "polls_off"}
      BY <1>1, <1>4, <2>2
    <3> QED
      BY <2>1, <3>1 DEF Before
  <2>3. CASE i = 1
    <3>1. s[i].op = "del_if_enabled" /\ i + 1 = 2 /\ i < Len(s) /\ s[i + 1].op = "phylink_stop"
      BY <1>1, <1>4, <2>3
    <3> QED
      BY <2>1, <3>1 DEF Before
  <2>4. CASE i = 2
    <3>1. i + 1 = 3 /\ i + 2 = 4
      BY <2>4
    <3>2. /\ s[i].op = "phylink_stop" /\ Len(s) = i + 2
          /\ s[i + 1] = Do1("polls_off") /\ s[i + 2] = Do2("mac", FALSE)
      BY <1>1, <1>4, <2>4, <3>1
    <3> QED
      BY <2>1, <3>2 DEF Before
  <2> QED
    BY <1>5, <2>2, <2>3, <2>4
<1>7. ASSUME NEW i \in 2..Len(s) PROVE After(s[i - 1], s[i])
  <2>1. (i = 2 /\ i - 1 = 1) \/ (i = 3 /\ i - 1 = 2) \/ (i = 4 /\ i - 1 = 3)
    BY <1>4
  <2> QED
    BY <1>1, <1>4, <2>1 DEF After, Accesses, MiiStores
<1>8. \A i \in 1..Len(s) : s[i].op \notin MiiStores
  BY <1>1, <1>4, <1>5 DEF MiiStores
<1>9. \A i \in 3..Len(s) : i \in 1..Len(s)
  BY <1>4
<1>10. Fresh(s)
  BY <1>1, <1>4, <1>6, <1>7, <1>8, <1>9 DEF Fresh, Shape, Bound, Accesses, MiiStores
<1>11. s # <<>>
  <2>1. Len(<<>>) = 0
    OBVIOUS
  <2> QED
    BY <1>4, <2>1
<1> QED
  BY <1>1, <1>2, <1>3, <1>4, <1>10, <1>11 DEF a, b, c, d

LEMMA EeeOnIs ==
  LET s == EthtoolSetEee(TRUE)
  IN /\ Fresh(s) /\ s # <<>> /\ s[1].op = "eee_init"
     /\ Elems(s) = {Do1("eee_init"), Do1("stop_if_refused"), Do1("phylink_eee"),
                    Do2("enabled", TRUE)}
<1> DEFINE a == Do1("eee_init")
           b == Do1("stop_if_refused")
           c == Do1("phylink_eee")
           d == Do2("enabled", TRUE)
           s == <<a, b, c, d>>
<1>1. /\ a \in LinkSteps /\ a.op = "eee_init" /\ b \in LinkSteps /\ b.op = "stop_if_refused"
      /\ c \in LinkSteps /\ c.op = "phylink_eee"
      /\ d \in LinkSteps /\ d.op = "enabled" /\ d.arg = TRUE /\ Are(d, "enabled", TRUE)
  <2>1. "enabled" \in LinkOps /\ {"eee_init", "stop_if_refused", "phylink_eee"} \subseteq Signals
    BY DEF LinkOps, Switches, Signals
  <2>2. TRUE \in Nat \cup BOOLEAN \cup XpcsPages
    OBVIOUS
  <2> QED
    BY <2>1, <2>2, StepIn, SignalIn, StepOf
<1>2. EthtoolSetEee(TRUE) = s
  BY DEF EthtoolSetEee
<1> HIDE DEF a, b, c, d
<1>3. Elems(s) = {a, b, c, d}
  <2>1. Elems(<<a, b, c, d>>) = {a, b, c, d}
    BY ElemsOf4, ZenonT(60)
  <2> QED
    BY <2>1
<1>4. s \in Seq(LinkSteps) /\ Len(s) = 4 /\ s[1] = a /\ s[2] = b /\ s[3] = c /\ s[4] = d
  <2>1. a \in LinkSteps /\ b \in LinkSteps /\ c \in LinkSteps /\ d \in LinkSteps
    BY <1>1
  <2> QED
    BY <2>1
<1> HIDE DEF s
<1>5. \A i \in 1..Len(s) : i \in {1, 2, 3, 4}
  BY <1>4
<1>6. ASSUME NEW i \in 1..Len(s) PROVE Typed(s[i]) /\ Before(s, i)
  <2>1. Typed(s[i])
    BY <1>1, <1>4, <1>5 DEF Typed, Switches, Settings
  <2>2. CASE i = 1
    <3>1. s[i].op = "eee_init" /\ i + 1 = 2 /\ i < Len(s) /\ s[i + 1].op = "stop_if_refused"
      BY <1>1, <1>4, <2>2
    <3> QED
      BY <2>1, <3>1 DEF Before
  <2>3. CASE i = 2
    <3>1. i + 1 = 3 /\ i + 2 = 4
      BY <2>3
    <3>2. /\ s[i].op = "stop_if_refused" /\ Len(s) = i + 2
          /\ s[i + 1].op = "phylink_eee" /\ Are(s[i + 2], "enabled", TRUE)
      BY <1>1, <1>4, <2>3, <3>1
    <3> QED
      BY <2>1, <3>2 DEF Before
  <2>4. CASE i = 3
    <3>1. s[i].op = "phylink_eee" /\ Len(s) = i + 1 /\ i + 1 = 4 /\ s[i + 1].op = "enabled"
      BY <1>1, <1>4, <2>4
    <3> QED
      BY <2>1, <3>1 DEF Before
  <2>5. CASE i = 4
    <3>1. s[i].op = "enabled" /\ Len(s) = i
      BY <1>1, <1>4, <2>5
    <3> QED
      BY <2>1, <3>1 DEF Before
  <2> QED
    BY <1>5, <2>2, <2>3, <2>4, <2>5
<1>7. ASSUME NEW i \in 2..Len(s) PROVE After(s[i - 1], s[i])
  <2>1. (i = 2 /\ i - 1 = 1) \/ (i = 3 /\ i - 1 = 2) \/ (i = 4 /\ i - 1 = 3)
    BY <1>4
  <2> QED
    BY <1>1, <1>4, <2>1 DEF After, Accesses, MiiStores
<1>8. \A i \in 1..Len(s) : s[i].op \notin MiiStores
  BY <1>1, <1>4, <1>5 DEF MiiStores
<1>9. \A i \in 3..Len(s) : i \in 1..Len(s)
  BY <1>4
<1>10. Fresh(s)
  BY <1>1, <1>4, <1>6, <1>7, <1>8, <1>9 DEF Fresh, Shape, Bound, Accesses, MiiStores
<1>11. s # <<>>
  <2>1. Len(<<>>) = 0
    OBVIOUS
  <2> QED
    BY <1>4, <2>1
<1> QED
  BY <1>1, <1>2, <1>3, <1>4, <1>10, <1>11 DEF a, b, c, d

LEMMA EeeOffIs ==
  LET s == EthtoolSetEee(FALSE)
  IN /\ Fresh(s) /\ s # <<>> /\ s[1].op = "disable_mode" /\ Len(s) = 3
     /\ Elems(s) = {Do1("disable_mode"), Do1("phylink_eee"), Do2("enabled", FALSE)}
<1> DEFINE a == Do1("disable_mode")
           b == Do1("phylink_eee")
           c == Do2("enabled", FALSE)
           s == <<a, b, c>>
<1>1. /\ a \in LinkSteps /\ a.op = "disable_mode" /\ b \in LinkSteps /\ b.op = "phylink_eee"
      /\ c \in LinkSteps /\ c.op = "enabled" /\ c.arg = FALSE /\ Are(c, "enabled", FALSE)
  <2>1. "enabled" \in LinkOps /\ {"disable_mode", "phylink_eee"} \subseteq Signals
    BY DEF LinkOps, Switches, Signals
  <2>2. FALSE \in Nat \cup BOOLEAN \cup XpcsPages
    OBVIOUS
  <2> QED
    BY <2>1, <2>2, StepIn, SignalIn, StepOf
<1>2. EthtoolSetEee(FALSE) = s
  BY DEF EthtoolSetEee
<1> HIDE DEF a, b, c
<1>3. Elems(s) = {a, b, c}
  <2>1. Elems(<<a, b, c>>) = {a, b, c}
    BY ElemsOf3, ZenonT(60)
  <2> QED
    BY <2>1
<1>4. s \in Seq(LinkSteps) /\ Len(s) = 3 /\ s[1] = a /\ s[2] = b /\ s[3] = c
  BY <1>1
<1> HIDE DEF s
<1>5. \A i \in 1..Len(s) : i \in {1, 2, 3}
  BY <1>4
<1>6. ASSUME NEW i \in 1..Len(s) PROVE Typed(s[i]) /\ Before(s, i)
  <2>1. Typed(s[i])
    BY <1>1, <1>4, <1>5 DEF Typed, Switches, Settings
  <2>2. CASE i = 1
    <3>1. i + 1 = 2 /\ i + 2 = 3
      BY <2>2
    <3>2. /\ s[i].op = "disable_mode" /\ Len(s) = i + 2
          /\ s[i + 1].op = "phylink_eee" /\ Are(s[i + 2], "enabled", FALSE)
      BY <1>1, <1>4, <2>2, <3>1
    <3> QED
      BY <2>1, <3>2 DEF Before
  <2>3. CASE i = 2
    <3>1. s[i].op = "phylink_eee" /\ Len(s) = i + 1 /\ i + 1 = 3 /\ s[i + 1].op = "enabled"
      BY <1>1, <1>4, <2>3
    <3> QED
      BY <2>1, <3>1 DEF Before
  <2>4. CASE i = 3
    <3>1. s[i].op = "enabled" /\ Len(s) = i
      BY <1>1, <1>4, <2>4
    <3> QED
      BY <2>1, <3>1 DEF Before
  <2> QED
    BY <1>5, <2>2, <2>3, <2>4
<1>7. ASSUME NEW i \in 2..Len(s) PROVE After(s[i - 1], s[i])
  <2>1. (i = 2 /\ i - 1 = 1) \/ (i = 3 /\ i - 1 = 2)
    BY <1>4
  <2> QED
    BY <1>1, <1>4, <2>1 DEF After, Accesses, MiiStores
<1>8. \A i \in 1..Len(s) : s[i].op \notin MiiStores
  BY <1>1, <1>4, <1>5 DEF MiiStores
<1>9. \A i \in 3..Len(s) : i \in 1..Len(s)
  BY <1>4
<1>10. Fresh(s)
  BY <1>1, <1>4, <1>6, <1>7, <1>8, <1>9 DEF Fresh, Shape, Bound, Accesses, MiiStores
<1>11. s # <<>>
  <2>1. Len(s) = 3
    BY <1>4
  <2>2. Len(<<>>) = 0
    OBVIOUS
  <2> QED
    BY <2>1, <2>2
<1> QED
  BY <1>1, <1>2, <1>3, <1>4, <1>10, <1>11 DEF a, b, c

LEMMA TxCleanIs ==
  /\ Fresh(TxClean) /\ TxClean # <<>> /\ TxClean[1].op = "test_enabled"
  /\ Elems(TxClean) = {Do1("test_enabled"), Do1("rearm")}
<1> DEFINE a == Do1("test_enabled")
           b == Do1("rearm")
           s == <<a, b>>
<1>1. a \in LinkSteps /\ a.op = "test_enabled" /\ b \in LinkSteps /\ b.op = "rearm"
  <2>1. {"test_enabled", "rearm"} \subseteq Signals
    BY DEF Signals
  <2> QED
    BY <2>1, SignalIn, StepOf
<1>2. TxClean = s
  BY DEF TxClean
<1> HIDE DEF a, b
<1>3. Elems(s) = {a, b}
  <2>1. Elems(<<a, b>>) = {a, b}
    BY ElemsOf, ZenonT(60)
  <2> QED
    BY <2>1
<1>4. s \in Seq(LinkSteps) /\ Len(s) = 2 /\ s[1] = a /\ s[2] = b
  BY <1>1
<1> HIDE DEF s
<1>5. \A i \in 1..Len(s) : i \in {1, 2}
  BY <1>4
<1>6. ASSUME NEW i \in 1..Len(s) PROVE Typed(s[i]) /\ Before(s, i)
  <2>1. Typed(s[i])
    BY <1>1, <1>4, <1>5 DEF Typed, Switches, Settings
  <2>2. CASE i = 1
    <3>1. s[i].op = "test_enabled" /\ Len(s) = i + 1 /\ i + 1 = 2 /\ s[i + 1].op = "rearm"
      BY <1>1, <1>4, <2>2
    <3> QED
      BY <2>1, <3>1 DEF Before
  <2>3. CASE i = 2
    <3>1. s[i].op = "rearm"
      BY <1>1, <1>4, <2>3
    <3> QED
      BY <2>1, <3>1 DEF Before
  <2> QED
    BY <1>5, <2>2, <2>3
<1>7. ASSUME NEW i \in 2..Len(s) PROVE After(s[i - 1], s[i])
  <2>1. i = 2 /\ i - 1 = 1
    BY <1>4
  <2> QED
    BY <1>1, <1>4, <2>1 DEF After, Accesses, MiiStores
<1>8. \A i \in 1..Len(s) : s[i].op \notin MiiStores
  BY <1>1, <1>4, <1>5 DEF MiiStores
<1>9. \A i \in 3..Len(s) : i \in 1..Len(s)
  BY <1>4
<1>10. Fresh(s)
  BY <1>1, <1>4, <1>6, <1>7, <1>8, <1>9 DEF Fresh, Shape, Bound, Accesses, MiiStores
<1>11. s # <<>>
  <2>1. Len(<<>>) = 0
    OBVIOUS
  <2> QED
    BY <1>4, <2>1
<1> QED
  BY <1>1, <1>2, <1>3, <1>4, <1>10, <1>11 DEF a, b

\* phylink_stop: what is left of release, after link_down when there was a link.
Closing == <<Do1("polls_off"), Do2("mac", FALSE)>>

LEMMA ClosingIs ==
  /\ Closing \in Seq(LinkSteps) /\ Len(Closing) = 2 /\ Closing[1] = Do1("polls_off")
  /\ Closing[2] = Do2("mac", FALSE) /\ Elems(Closing) = {Do1("polls_off"), Do2("mac", FALSE)}
<1> DEFINE a == Do1("polls_off")
           b == Do2("mac", FALSE)
<1>1. a \in LinkSteps /\ b \in LinkSteps
  <2>1. "polls_off" \in Signals /\ "mac" \in LinkOps
    BY DEF Signals, LinkOps, Switches
  <2>2. FALSE \in Nat \cup BOOLEAN \cup XpcsPages
    OBVIOUS
  <2> QED
    BY <2>1, <2>2, SignalIn, StepIn
<1>2. Closing = <<a, b>>
  BY DEF Closing
<1> HIDE DEF a, b
<1>3. Elems(<<a, b>>) = {a, b}
  BY ElemsOf, ZenonT(60)
<1>4. <<a, b>> \in Seq(LinkSteps) /\ Len(<<a, b>>) = 2 /\ <<a, b>>[1] = a /\ <<a, b>>[2] = b
  BY <1>1
<1> QED
  BY <1>2, <1>3, <1>4 DEF a, b

LEMMA DownThenClosing ==
  LET s == MacLinkDown \o Closing
  IN /\ s \in Seq(LinkSteps) /\ Shape(s) /\ s # <<>> /\ s[1].op = "mac" /\ s[2].op = "active"
     /\ Elems(s) = LinkToSteps(FALSE, FALSE) \cup {Do1("polls_off"), Do2("mac", FALSE)}
<1> DEFINE x == MacLinkDown
           s == x \o Closing
<1>1. /\ Fresh(x) /\ Len(x) = 4 /\ Elems(x) = LinkToSteps(FALSE, FALSE)
      /\ x[1] = Do2("mac", FALSE) /\ x[2] = Do2("active", FALSE)
      /\ x[3] = Do1("eee_init") /\ x[4] = Do1("enable_result")
  <2>1. x = LinkTo(FALSE, FALSE)
    BY DEF MacLinkDown, LinkTo
  <2> QED
    BY <2>1, LinkToIs
<1> HIDE DEF x
<1>2. /\ s \in Seq(LinkSteps) /\ Len(s) = Len(x) + Len(Closing)
      /\ \A i \in 1..Len(x) : s[i] = x[i]
      /\ \A i \in 1..Len(Closing) : s[Len(x) + i] = Closing[i]
      /\ Elems(s) = Elems(x) \cup Elems(Closing)
  BY <1>1, ClosingIs, JoinedParts DEF Fresh
<1> HIDE DEF s
<1>3. /\ Len(s) = 6
      /\ s[1] = Do2("mac", FALSE) /\ s[2] = Do2("active", FALSE)
      /\ s[3] = Do1("eee_init") /\ s[4] = Do1("enable_result")
      /\ s[5] = Do1("polls_off") /\ s[6] = Do2("mac", FALSE)
  <2>1. 1 \in 1..Len(x) /\ 2 \in 1..Len(x) /\ 3 \in 1..Len(x) /\ 4 \in 1..Len(x)
        /\ 1 \in 1..Len(Closing) /\ 2 \in 1..Len(Closing)
        /\ Len(x) + 1 = 5 /\ Len(x) + 2 = 6 /\ Len(x) + Len(Closing) = 6
    BY <1>1, ClosingIs
  <2> QED
    BY <1>1, <1>2, <2>1, ClosingIs
<1>4. /\ s[1].op = "mac" /\ s[1].arg = FALSE /\ s[2].op = "active" /\ s[2].arg = FALSE
      /\ s[3].op = "eee_init" /\ s[4].op = "enable_result" /\ s[5].op = "polls_off"
      /\ s[6].op = "mac" /\ s[6].arg = FALSE
  BY <1>3 DEF Do1, Do2
<1>5. \A i \in 1..Len(s) : i \in {1, 2, 3, 4, 5, 6}
  BY <1>3
<1>6. ASSUME NEW i \in 1..Len(s) PROVE Typed(s[i]) /\ Before(s, i)
  <2>1. Typed(s[i])
    BY <1>4, <1>5 DEF Typed, Switches, Settings
  <2>2. CASE i # 3
    <3>1. s[i].op \in {"mac", "active", "enable_result", "polls_off"}
      BY <1>4, <1>5, <2>2
    <3> QED
      BY <2>1, <3>1 DEF Before
  <2>3. CASE i = 3
    <3>1. s[i].op = "eee_init" /\ i + 1 = 4 /\ i < Len(s) /\ s[i + 1].op = "enable_result"
      BY <1>3, <1>4, <2>3
    <3> QED
      BY <2>1, <3>1 DEF Before
  <2> QED
    BY <2>2, <2>3
<1>7. ASSUME NEW i \in 2..Len(s) PROVE After(s[i - 1], s[i])
  <2>1. \/ (i = 2 /\ i - 1 = 1) \/ (i = 3 /\ i - 1 = 2) \/ (i = 4 /\ i - 1 = 3)
        \/ (i = 5 /\ i - 1 = 4) \/ (i = 6 /\ i - 1 = 5)
    BY <1>3
  <2> QED
    BY <1>4, <2>1 DEF After, Accesses, MiiStores
<1>8. \A i \in 1..Len(s) : s[i].op \notin MiiStores
  BY <1>4, <1>5 DEF MiiStores
<1>9. \A i \in 3..Len(s) : i \in 1..Len(s)
  BY <1>3
<1>10. Shape(s)
  BY <1>6, <1>7, <1>8, <1>9 DEF Shape
<1>11. s # <<>>
  <2>1. Len(<<>>) = 0
    OBVIOUS
  <2> QED
    BY <1>3, <2>1
<1> QED
  BY <1>1, <1>2, <1>4, <1>10, <1>11, ClosingIs DEF s, x

-----------------------------------------------------------------------------
(* What a step does.                                                       *)

NewTimer(x) ==
  IF x.op = "eee_init" THEN
    IF active THEN (IF enabled THEN timer ELSE "pending")
    ELSE (IF enabled /\ timer = "pending" THEN "idle" ELSE timer)
  ELSE IF x.op = "disable_mode" \/ (x.op = "del_if_enabled" /\ enabled) THEN Stopped
  ELSE IF x.op = "rearm" THEN "pending" ELSE timer

\* Of a step x of actor a at the head of its list, other than phylink_stop and test_an,
\* when the invariant holds.
Effect(a, x) ==
  /\ page' = IF x.op = "page" THEN x.arg ELSE page
  /\ macOn' = IF x.op = "mac" THEN x.arg ELSE macOn
  /\ speed' = IF x.op \in {"set_mac", "set_bus", "set_priv"}
              THEN [speed EXCEPT ![x.op] = x.arg] ELSE speed
  /\ mii' = IF x.op = "store_ane" THEN [mii EXCEPT !.ane = TRUE]
            ELSE IF x.op = "store_speed" THEN [mii EXCEPT !.speed = x.arg] ELSE mii
  /\ tmp' = IF x.op = "load" THEN [tmp EXCEPT ![a] = mii]
            ELSE IF x.op = "eee_init" THEN [tmp EXCEPT ![a] = [mii EXCEPT !.ane = active]]
            ELSE tmp
  /\ active' = IF x.op = "active" THEN x.arg ELSE active
  /\ enabled' = IF x.op = "enable_result" THEN tmp[a].ane
                ELSE IF x.op = "enabled" THEN x.arg ELSE enabled
  /\ timer' = NewTimer(x)
  /\ up' = (up \/ x.op = "opened")
  /\ polling' = IF x.op = "opened" THEN TRUE
                ELSE IF x.op = "polls_off" THEN FALSE ELSE polling
  /\ ~stray' /\ ~broken' /\ lpi' \in BOOLEAN /\ anDone' \in BOOLEAN
  /\ carrier' = carrier /\ iface' = iface /\ early' = early

\* The actor goes on with t, unless there is nothing more to do.
Ends == {"test_enabled", "stop_if_refused"}
GoesOn(a, s, t) ==
  /\ linkTodo' = [linkTodo EXCEPT ![a] = t]
  /\ t = Tail(s) \/ (t = <<>> /\ s[1].op \in Ends)
  /\ s[1].op = "test_enabled" /\ t # <<>> => enabled
  /\ s[1].op = "stop_if_refused" /\ tmp[a].ane => t = Tail(s)

LEMMA SpeedEffect ==
  ASSUME LinkTypes, NEW a \in Actors, NEW s, s = linkTodo[a], s # <<>>, StepSpeed(a),
         UNCHANGED iface
  PROVE  Effect(a, s[1]) /\ GoesOn(a, s, Tail(s))
<1>1. Now(a) = s[1] /\ Rest(a) = Tail(s)
  <2>1. s \in Seq(LinkSteps)
    BY DEF LinkTypes
  <2> QED
    BY <2>1, TailParts DEF Now, Rest
<1> DEFINE x == s[1]
<1>2. /\ x.op \in {"set_mac", "set_bus", "set_priv", "mac"}
      /\ IF x.op = "mac" THEN macOn' = x.arg /\ UNCHANGED speed
         ELSE speed' = [speed EXCEPT ![x.op] = x.arg] /\ UNCHANGED macOn
      /\ linkTodo' = [linkTodo EXCEPT ![a] = Tail(s)]
      /\ UNCHANGED <<up, polling, carrier, page, mii, anDone, early, stray, active, enabled,
                     timer, broken, lpi, tmp>>
  BY <1>1 DEF StepSpeed, Go, eeeVars
<1>3. /\ ~stray /\ ~broken /\ lpi \in BOOLEAN /\ up \in BOOLEAN /\ (iface' = iface)
      /\ anDone \in BOOLEAN
  BY DEF LinkTypes
<1> HIDE DEF x
<1>4. timer' = NewTimer(x)
  BY <1>2 DEF NewTimer
<1>5. Effect(a, x)
  BY <1>2, <1>3, <1>4 DEF Effect
<1>6. x.op \notin Ends
  BY <1>2 DEF Ends
<1>7. GoesOn(a, s, Tail(s))
  BY <1>2, <1>6 DEF GoesOn, Ends, x
<1> QED
  BY <1>5, <1>7 DEF x

LEMMA XpcsEffect ==
  ASSUME LinkTypes, NEW a \in Actors, NEW s, s = linkTodo[a], s # <<>>, StepXpcs(a),
         UNCHANGED iface, HeadInv(a, s)
  PROVE  Effect(a, s[1]) /\ GoesOn(a, s, Tail(s))
<1>1. Now(a) = s[1] /\ Rest(a) = Tail(s) /\ Len(s) >= 1 /\ Len(s) \in Nat
  <2>1. s \in Seq(LinkSteps)
    BY DEF LinkTypes
  <2> QED
    BY <2>1, TailParts DEF Now, Rest
<1> DEFINE x == s[1]
<1>2. /\ linkTodo' = [linkTodo EXCEPT ![a] = Tail(s)]
      /\ UNCHANGED <<up, polling, carrier, macOn, speed, early, active, enabled, timer, broken,
                     lpi>>
  BY <1>1 DEF StepXpcs, Go, eeeVars
<1>3. \/ x.op = "page" /\ page' = x.arg /\ mii' = mii /\ stray' = stray /\ tmp' = tmp
      \/ x.op = "load" /\ tmp' = [tmp EXCEPT ![a] = mii]
         /\ page' = page /\ mii' = mii /\ stray' = stray
      \/ /\ x.op \in Accesses \ {"test_an"}
         /\ mii' = CASE page # "mii" -> mii
                     [] x.op = "store_ane" -> [tmp[a] EXCEPT !.ane = TRUE]
                     [] x.op = "store_speed" -> [tmp[a] EXCEPT !.speed = x.arg]
                     [] OTHER -> mii
         /\ stray' = (stray \/ page # Meant(x.op))
         /\ page' = page /\ tmp' = tmp
  BY <1>1 DEF StepXpcs, Accesses, MiiStores
<1>a. anDone' = anDone \/ anDone' \in BOOLEAN
  BY <1>1 DEF StepXpcs
<1>4. /\ ~stray /\ ~broken /\ lpi \in BOOLEAN /\ up \in BOOLEAN /\ (iface' = iface)
      /\ anDone' \in BOOLEAN
  BY <1>a DEF LinkTypes
<1>5. /\ x.op \in Accesses => page = Meant(x.op)
      /\ x.op \in MiiStores => tmp[a] = mii
  <2>1. 1 \in 1..Len(s) /\ 1 <= 2
    BY <1>1
  <2> QED
    BY <2>1 DEF HeadInv
<1> HIDE DEF x
<1>6. x.op \in {"page", "load"} \cup (Accesses \ {"test_an"})
  BY <1>3
<1>7. timer' = NewTimer(x)
  BY <1>2, <1>6 DEF NewTimer, Accesses, MiiStores
<1>8. x.op \notin {"mac", "set_mac", "set_bus", "set_priv", "active", "enable_result",
                   "enabled", "opened", "polls_off", "eee_init"} \cup Ends
  BY <1>6 DEF Accesses, MiiStores, Ends
<1>9. CASE x.op = "page"
  <2>1. page' = x.arg /\ mii' = mii /\ stray' = stray /\ tmp' = tmp
    BY <1>3, <1>9 DEF Accesses, MiiStores
  <2> QED
    BY <1>2, <1>4, <1>7, <1>8, <1>9, <2>1 DEF Effect, GoesOn, Ends, x
<1>10. CASE x.op = "load"
  <2>1. page' = page /\ mii' = mii /\ stray' = stray /\ tmp' = [tmp EXCEPT ![a] = mii]
    BY <1>3, <1>10 DEF Accesses, MiiStores
  <2> QED
    BY <1>2, <1>4, <1>7, <1>8, <1>10, <2>1 DEF Effect, GoesOn, Ends, x
<1>11. CASE x.op \in Accesses \ {"test_an"}
  <2>1. /\ page' = page /\ tmp' = tmp /\ ~stray'
        /\ mii' = CASE page # "mii" -> mii
                    [] x.op = "store_ane" -> [tmp[a] EXCEPT !.ane = TRUE]
                    [] x.op = "store_speed" -> [tmp[a] EXCEPT !.speed = x.arg]
                    [] OTHER -> mii
    BY <1>3, <1>4, <1>5, <1>11 DEF Accesses, MiiStores
  <2>2. /\ x.op = "store_ane" => page = "mii" /\ mii' = [mii EXCEPT !.ane = TRUE]
        /\ x.op = "store_speed" => page = "mii" /\ mii' = [mii EXCEPT !.speed = x.arg]
        /\ x.op \in {"store_an", "store_rst"} => mii' = mii
    BY <1>5, <1>11, <2>1 DEF Meant, Accesses, MiiStores
  <2>3. mii' = IF x.op = "store_ane" THEN [mii EXCEPT !.ane = TRUE]
               ELSE IF x.op = "store_speed" THEN [mii EXCEPT !.speed = x.arg] ELSE mii
    BY <1>11, <2>2 DEF Accesses, MiiStores
  <2>4. x.op # "page" /\ x.op # "load"
    BY <1>11 DEF Accesses, MiiStores
  <2> QED
    BY <1>2, <1>4, <1>7, <1>8, <2>1, <2>3, <2>4 DEF Effect, GoesOn, Ends, x
<1> QED
  BY <1>6, <1>9, <1>10, <1>11 DEF x

LEMMA InitEffect ==
  ASSUME LinkTypes, NEW a \in Actors, NEW s, s = linkTodo[a], s # <<>>, EeeInit(a),
         UNCHANGED iface, PendInv(s)
  PROVE  Effect(a, s[1]) /\ GoesOn(a, s, Tail(s))
<1>1. Now(a) = s[1] /\ Rest(a) = Tail(s)
  <2>1. s \in Seq(LinkSteps)
    BY DEF LinkTypes
  <2> QED
    BY <2>1, TailParts DEF Now, Rest
<1> DEFINE x == s[1]
<1>2. /\ x.op = "eee_init" /\ anDone' = anDone /\ early' = early
      /\ timer' = IF active THEN (IF enabled THEN timer ELSE "pending")
                  ELSE (IF enabled /\ timer = "pending" THEN "idle" ELSE timer)
      /\ broken' = (broken \/ (active /\ ~enabled /\ timer = "pending"))
      /\ tmp' = [tmp EXCEPT ![a] = [mii EXCEPT !.ane = active]]
      /\ linkTodo' = [linkTodo EXCEPT ![a] = Tail(s)]
      /\ UNCHANGED <<up, polling, carrier, macOn, speed, page, mii, stray, active, enabled, lpi>>
  BY <1>1 DEF EeeInit, Go, speedVars
<1>3. /\ ~stray /\ ~broken /\ lpi \in BOOLEAN /\ up \in BOOLEAN /\ (iface' = iface)
      /\ anDone \in BOOLEAN
  BY DEF LinkTypes
<1>4. timer = "pending" => enabled
  BY <1>2 DEF PendInv
<1> HIDE DEF x
<1>5. timer' = NewTimer(x)
  BY <1>2 DEF NewTimer
<1>6. Effect(a, x)
  BY <1>2, <1>3, <1>4, <1>5 DEF Effect
<1>7. GoesOn(a, s, Tail(s))
  BY <1>2 DEF GoesOn, Ends, x
<1> QED
  BY <1>6, <1>7 DEF x

LEMMA EeeEffect ==
  ASSUME LinkTypes, NEW a \in Actors, NEW s, s = linkTodo[a], s # <<>>, StepEee(a),
         UNCHANGED iface
  PROVE  Effect(a, s[1]) /\ GoesOn(a, s, Tail(s))
<1>1. Now(a) = s[1] /\ Rest(a) = Tail(s)
  <2>1. s \in Seq(LinkSteps)
    BY DEF LinkTypes
  <2> QED
    BY <2>1, TailParts DEF Now, Rest
<1> DEFINE x == s[1]
<1>2. /\ linkTodo' = [linkTodo EXCEPT ![a] = Tail(s)]
      /\ UNCHANGED <<up, polling, carrier, macOn, speed, page, mii, anDone, early, stray,
                     broken, tmp>>
  BY <1>1 DEF StepEee, Go, speedVars
<1>3. \/ x.op = "active" /\ active' = x.arg /\ enabled' = enabled /\ timer' = timer /\ lpi' = lpi
      \/ x.op = "enable_result" /\ enabled' = tmp[a].ane
         /\ active' = active /\ timer' = timer /\ lpi' = lpi
      \/ x.op = "enabled" /\ enabled' = x.arg /\ active' = active /\ timer' = timer /\ lpi' = lpi
      \/ x.op = "disable_mode" /\ timer' = Stopped /\ lpi' = FALSE
         /\ active' = active /\ enabled' = enabled
      \/ x.op = "del_if_enabled" /\ timer' = (IF enabled THEN Stopped ELSE timer)
         /\ active' = active /\ enabled' = enabled /\ lpi' = lpi
      \/ x.op = "rearm" /\ timer' = "pending"
         /\ active' = active /\ enabled' = enabled /\ lpi' = lpi
  BY <1>1 DEF StepEee
<1>4. /\ ~stray /\ ~broken /\ lpi \in BOOLEAN /\ up \in BOOLEAN /\ (iface' = iface)
      /\ anDone \in BOOLEAN
  BY DEF LinkTypes
<1> HIDE DEF x
<1>5. x.op \in {"active", "enable_result", "enabled", "disable_mode", "del_if_enabled", "rearm"}
  BY <1>3
<1>6. /\ active' = IF x.op = "active" THEN x.arg ELSE active
      /\ enabled' = IF x.op = "enable_result" THEN tmp[a].ane
                    ELSE IF x.op = "enabled" THEN x.arg ELSE enabled
      /\ lpi' \in BOOLEAN
  BY <1>3, <1>4
<1>7. timer' = NewTimer(x)
  BY <1>3 DEF NewTimer
<1>8. Effect(a, x)
  BY <1>2, <1>4, <1>5, <1>6, <1>7 DEF Effect
<1>9. GoesOn(a, s, Tail(s))
  BY <1>2, <1>5 DEF GoesOn, Ends, x
<1> QED
  BY <1>8, <1>9 DEF x

LEMMA BranchEffect ==
  ASSUME LinkTypes, LinkFaults = {}, NEW a \in Actors, NEW s, s = linkTodo[a], s # <<>>,
         StepBranch(a), s[1].op # "phylink_stop", UNCHANGED iface
  PROVE  Effect(a, s[1]) /\ (GoesOn(a, s, Tail(s)) \/ GoesOn(a, s, <<>>))
<1>1. Now(a) = s[1] /\ Rest(a) = Tail(s)
  <2>1. s \in Seq(LinkSteps)
    BY DEF LinkTypes
  <2> QED
    BY <2>1, TailParts DEF Now, Rest
<1> DEFINE x == s[1]
           With(t) == linkTodo' = [linkTodo EXCEPT ![a] = t]
<1>2. UNCHANGED <<macOn, speed, page, mii, anDone, early, stray, active, enabled, timer, broken,
                  lpi, tmp>>
  BY DEF StepBranch, speedVars, eeeVars
<1>3. \/ x.op = "test_enabled" /\ With(IF enabled /\ ~lpi THEN Tail(s) ELSE <<>>)
         /\ up' = up /\ polling' = polling /\ carrier' = carrier
      \/ x.op = "stop_if_refused" /\ With(IF tmp[a].ane THEN Tail(s) ELSE <<>>)
         /\ up' = up /\ polling' = polling /\ carrier' = carrier
      \/ x.op = "phylink_eee" /\ With(Tail(s))
         /\ up' = up /\ polling' = polling /\ carrier' = carrier
      \/ x.op = "opened" /\ With(Tail(s)) /\ up' = TRUE /\ polling' = TRUE /\ carrier' = carrier
      \/ x.op = "polls_off" /\ With(Tail(s))
         /\ up' = up /\ polling' = FALSE /\ carrier' = carrier
  BY <1>1 DEF StepBranch, Go
<1>4. /\ ~stray /\ ~broken /\ lpi \in BOOLEAN /\ up \in BOOLEAN /\ (iface' = iface)
      /\ anDone \in BOOLEAN
  BY DEF LinkTypes
<1> HIDE DEF x
<1>5. x.op \in {"test_enabled", "stop_if_refused", "phylink_eee", "opened", "polls_off"}
  BY <1>3
<1>6. timer' = NewTimer(x)
  BY <1>2, <1>5 DEF NewTimer
<1>7. up' = (up \/ x.op = "opened") /\ carrier' = carrier
      /\ polling' = IF x.op = "opened" THEN TRUE
                    ELSE IF x.op = "polls_off" THEN FALSE ELSE polling
  BY <1>3, <1>4
<1>8. Effect(a, x)
  BY <1>2, <1>4, <1>5, <1>6, <1>7 DEF Effect
<1>12. Effect(a, s[1])
  BY <1>8 DEF x
<1>9. CASE x.op = "test_enabled"
  <2>1. With(IF enabled /\ ~lpi THEN Tail(s) ELSE <<>>)
    BY <1>3, <1>9
  <2>2. CASE enabled /\ ~lpi
    <3>1. With(Tail(s))
      BY <2>1, <2>2, Zenon
    <3> QED
      BY <1>12, <1>9, <2>2, <3>1 DEF GoesOn, x
  <2>3. CASE ~(enabled /\ ~lpi)
    <3>1. With(<<>>)
      BY <2>1, <2>3, Zenon
    <3> QED
      BY <1>12, <1>9, <3>1 DEF GoesOn, Ends, x
  <2> QED
    BY <2>2, <2>3
<1>10. CASE x.op = "stop_if_refused"
  <2>1. With(IF tmp[a].ane THEN Tail(s) ELSE <<>>)
    BY <1>3, <1>10
  <2>2. CASE tmp[a].ane
    <3>1. With(Tail(s))
      BY <2>1, <2>2, Zenon
    <3> QED
      BY <1>12, <1>10, <3>1 DEF GoesOn, x
  <2>3. CASE ~tmp[a].ane
    <3>1. With(<<>>)
      BY <2>1, <2>3, Zenon
    <3> QED
      BY <1>12, <1>10, <2>3, <3>1 DEF GoesOn, Ends, x
  <2> QED
    BY <2>2, <2>3
<1>11. CASE x.op \notin Ends
  <2>1. With(Tail(s))
    BY <1>3, <1>11 DEF Ends
  <2> QED
    BY <1>12, <1>11, <2>1 DEF GoesOn, Ends, x
<1> QED
  BY <1>9, <1>10, <1>11 DEF Ends

-----------------------------------------------------------------------------
(* Every step but phylink_stop keeps each part of the invariant.           *)

Goes1(s, t) == t = Tail(s) \/ (t = <<>> /\ s[1].op \in Ends)

LEMMA Onward ==
  ASSUME NEW s \in Seq(LinkSteps), s # <<>>, Shape(s), NEW t, Goes1(s, t)
  PROVE  /\ t \in Seq(LinkSteps) /\ Shape(t) /\ Elems(t) \subseteq Elems(s)
         /\ s[1] \in LinkSteps /\ Typed(s[1]) /\ Before(s, 1) /\ s[1] \in Elems(s)
         /\ Len(s) \in Nat /\ Len(s) >= 1 /\ Len(t) \in Nat /\ Len(t) < Len(s)
         /\ t # <<>> => /\ t = Tail(s) /\ Len(s) = Len(t) + 1 /\ Len(t) >= 1
                        /\ t[1] = s[2] /\ After(s[1], t[1])
                        /\ Len(t) >= 2 => t[2] = s[3]
<1>1. /\ Tail(s) \in Seq(LinkSteps) /\ Shape(Tail(s)) /\ Elems(Tail(s)) \subseteq Elems(s)
      /\ s[1] \in LinkSteps /\ s[1] \in Elems(s)
      /\ Len(s) \in Nat /\ Len(s) >= 1 /\ Len(Tail(s)) = Len(s) - 1
      /\ \A i \in 1..Len(Tail(s)) : Tail(s)[i] = s[i + 1]
  BY TailParts, TailElems, ShapeTail, FirstIn
<1>2. Typed(s[1]) /\ Before(s, 1)
  <2>1. 1 \in 1..Len(s)
    BY <1>1
  <2> QED
    BY <2>1 DEF Shape
<1>3. Shape(<<>>) /\ Elems(<<>>) = {} /\ <<>> \in Seq(LinkSteps) /\ Len(<<>>) = 0
  <2>1. <<>> \in Seq(LinkSteps) /\ Len(<<>>) = 0
    OBVIOUS
  <2> QED
    BY <2>1, FreshNone DEF Fresh
<1>4. ASSUME t # <<>>
      PROVE  /\ t = Tail(s) /\ Len(s) = Len(t) + 1 /\ Len(t) >= 1
             /\ t[1] = s[2] /\ After(s[1], t[1])
             /\ Len(t) >= 2 => t[2] = s[3]
  <2>1. t = Tail(s)
    BY <1>4 DEF Goes1
  <2>2. t \in Seq(LinkSteps) /\ Len(t) \in Nat /\ Len(t) # 0
    BY <1>1, <1>4, <2>1
  <2>3. /\ Len(s) = Len(t) + 1 /\ Len(t) >= 1 /\ 1 \in 1..Len(t) /\ 2 \in 2..Len(s) /\ 2 - 1 = 1
        /\ Len(t) >= 2 => 2 \in 1..Len(t)
    BY <1>1, <2>1, <2>2
  <2>4. t[1] = s[2] /\ (Len(t) >= 2 => t[2] = s[3])
    BY <1>1, <2>1, <2>3
  <2>5. After(s[1], s[2])
    BY <2>3 DEF Shape
  <2> QED
    BY <2>1, <2>3, <2>4, <2>5
<1>5. t \in Seq(LinkSteps) /\ Shape(t) /\ Elems(t) \subseteq Elems(s)
  BY <1>1, <1>3 DEF Goes1
<1>6. Len(t) \in Nat /\ Len(t) < Len(s)
  BY <1>1, <1>3 DEF Goes1
<1> QED
  BY <1>1, <1>2, <1>4, <1>5, <1>6

\* What is still to come, is so after a step, unless it is that step.
LEMMA Ahead ==
  ASSUME NEW s \in Seq(LinkSteps), s # <<>>, Shape(s), NEW t, Goes1(s, t), NEW op, NEW arg
  PROVE  /\ Has(t, op, arg) => Has(s, op, arg)
         /\ Has(s, op, arg) /\ op \notin {"rearm", "phylink_eee", "enabled"} =>
              Are(s[1], op, arg) \/ Has(t, op, arg)
<1>1. Elems(t) \subseteq Elems(s) /\ Before(s, 1) /\ Len(s) \in Nat
  BY Onward
<1>2. Elems(s) = {s[1]} \cup Elems(Tail(s))
  BY TailElems
<1>3. CASE t = Tail(s)
  BY <1>1, <1>2, <1>3 DEF Has
<1>4. CASE t = <<>> /\ s[1].op \in Ends
  <2>0. 1 + 1 = 2 /\ 1 + 2 = 3
    OBVIOUS
  <2>1. /\ s[1].op = "test_enabled" => Len(s) = 2 /\ s[2].op = "rearm"
        /\ s[1].op = "stop_if_refused" =>
             Len(s) = 3 /\ s[2].op = "phylink_eee" /\ s[3].op = "enabled"
    BY <1>1, <2>0 DEF Before, Are
  <2>2. \A i \in 1..Len(s) : s[i] = s[1] \/ s[i].op \in {"rearm", "phylink_eee", "enabled"}
    <3>1. CASE s[1].op = "test_enabled"
      <4>1. Len(s) = 2 /\ s[2].op = "rearm"
        BY <2>1, <3>1
      <4>2. \A i \in 1..Len(s) : i = 1 \/ i = 2
        BY <4>1
      <4> QED
        BY <4>1, <4>2
    <3>2. CASE s[1].op = "stop_if_refused"
      <4>1. Len(s) = 3 /\ s[2].op = "phylink_eee" /\ s[3].op = "enabled"
        BY <2>1, <3>2
      <4>2. \A i \in 1..Len(s) : i = 1 \/ i = 2 \/ i = 3
        BY <4>1
      <4> QED
        BY <4>1, <4>2
    <3> QED
      BY <1>4, <3>1, <3>2 DEF Ends
  <2> QED
    BY <1>1, <2>2 DEF Has, Elems, Are
<1> QED
  BY <1>3, <1>4 DEF Goes1

\* EEE is turned off in three steps.
LEMMA TurnsOff ==
  ASSUME NEW s \in Seq(LinkSteps), s # <<>>, Shape(s), Has(s, "enabled", FALSE), Len(s) <= 3
  PROVE  s[1].op \in {"disable_mode", "phylink_eee", "enabled"}
<1>1. PICK i \in 1..Len(s) : s[i].op = "enabled" /\ s[i].arg = FALSE
  BY DEF Has, Elems, Are
<1>2. Len(s) \in Nat
  OBVIOUS
<1>3. CASE i = 1
  BY <1>1, <1>3
<1>4. CASE i = 2
  <2>1. i \in 2..Len(s) /\ i - 1 = 1
    BY <1>2, <1>4
  <2>2. After(s[1], s[2])
    BY <1>4, <2>1 DEF Shape
  <2> QED
    BY <1>1, <1>4, <2>2 DEF After
<1>5. CASE i = 3
  <2>1. 3 \in 2..Len(s) /\ 2 \in 2..Len(s) /\ 3 - 1 = 2 /\ 2 - 1 = 1 /\ 1 \in 1..Len(s)
    BY <1>2, <1>5
  <2>2. After(s[2], s[3]) /\ After(s[1], s[2]) /\ Before(s, 1)
    BY <2>1 DEF Shape
  <2>3. s[2].op = "phylink_eee"
    BY <1>1, <1>5, <2>2 DEF After
  <2>4. s[1].op \in {"disable_mode", "stop_if_refused"}
    BY <2>2, <2>3 DEF After
  <2>5. s[1].op = "stop_if_refused" => s[1 + 2].arg = TRUE /\ 1 + 2 = 3
    BY <2>2 DEF Before, Are
  <2> QED
    BY <1>1, <1>5, <2>4, <2>5
<1> QED
  BY <1>2, <1>3, <1>4, <1>5

LEMMA HeadKept ==
  ASSUME LinkTypes, NEW a \in Actors, NEW s \in Seq(LinkSteps), s # <<>>, s[1].op # "phylink_stop",
         Works(a, s), Effect(a, s[1]), NEW t, GoesOn(a, s, t)
  PROVE  HeadInv(a, t)'
<1>1. Goes1(s, t) /\ Shape(s)
  BY DEF GoesOn, Goes1, Works
<1> SUFFICES ASSUME t # <<>>
             PROVE  /\ t[1].op \in Accesses => page' = Meant(t[1].op)
                    /\ \A i \in 1..Len(t) : i <= 2 /\ t[i].op \in MiiStores => tmp'[a] = mii'
                    /\ t[1].op \in {"enable_result", "stop_if_refused"} =>
                         tmp'[a].ane \/ timer' # "pending"
                    /\ Has(t, "enabled", FALSE) =>
                         Len(t) <= 3 /\ (t[1].op = "disable_mode" \/ timer' # "pending")
                    /\ t[1].op = "rearm" => enabled'
                    /\ t[1].op = "phylink_stop" => timer' # "pending"
                    /\ t[1].op = "eee_init" /\ ~up' => ~active'
  BY DEF HeadInv
<1> DEFINE x == s[1]
           y == t[1]
<1>2. /\ t = Tail(s) /\ Len(s) = Len(t) + 1 /\ Len(t) >= 1 /\ Len(t) \in Nat /\ Len(s) \in Nat
      /\ y = s[2] /\ After(x, y) /\ Typed(x) /\ Before(s, 1) /\ x \in Elems(s)
      /\ Len(t) >= 2 => t[2] = s[3]
  BY <1>1, Onward
<1>3. /\ \A i \in 1..Len(s) : i <= 2 /\ s[i].op \in MiiStores => tmp[a] = mii
      /\ Has(s, "enabled", FALSE) =>
           Len(s) <= 3 /\ (x.op = "disable_mode" \/ timer # "pending")
  BY DEF Works, HeadInv
<1>4. PendInv(s) /\ UpInv(s)
  BY DEF Works
<1>5. tmp \in [Actors -> Registers] /\ mii \in Registers /\ active \in BOOLEAN /\ enabled \in BOOLEAN
      /\ timer \in {"none", "idle", "pending"}
  BY DEF LinkTypes
<1>6. x.op # "phylink_stop"
  OBVIOUS
<1> HIDE DEF x, y
<1>7. y.op \in Accesses => page' = Meant(y.op)
  <2> SUFFICES ASSUME y.op \in Accesses PROVE page' = Meant(y.op)
    OBVIOUS
  <2>1. x.op = "page" /\ x.arg = Meant(y.op)
    BY <1>2 DEF After, Are
  <2> QED
    BY <2>1 DEF Effect, x
<1>8. ASSUME NEW i \in 1..Len(t), i <= 2, t[i].op \in MiiStores PROVE tmp'[a] = mii'
  <2>1. CASE i = 1
    <3>1. x.op = "page"
      BY <1>2, <1>8, <2>1 DEF After, Are, Accesses, y
    <3>2. tmp' = tmp /\ mii' = mii
      BY <3>1 DEF Effect, x
    <3>3. 2 \in 1..Len(s) /\ s[2].op \in MiiStores
      BY <1>2, <1>8, <2>1 DEF y
    <3>4. tmp[a] = mii
      BY <1>3, <3>3
    <3> QED
      BY <3>2, <3>4
  <2>2. CASE i = 2
    <3>1. 3 \in 3..Len(s) /\ s[3].op \in MiiStores /\ 3 - 2 = 1
      BY <1>2, <1>8, <2>2
    <3>2. x.op = "load"
      BY <1>1, <3>1 DEF Shape, x
    <3>3. tmp' = [tmp EXCEPT ![a] = mii] /\ mii' = mii
      BY <3>2 DEF Effect, x
    <3> QED
      BY <1>5, <3>3
  <2> QED
    BY <1>2, <1>8, <2>1, <2>2
<1>9. y.op \in {"enable_result", "stop_if_refused"} => tmp'[a].ane \/ timer' # "pending"
  <2> SUFFICES ASSUME y.op \in {"enable_result", "stop_if_refused"}
               PROVE  tmp'[a].ane \/ timer' # "pending"
    OBVIOUS
  <2>1. x.op = "eee_init"
    BY <1>2 DEF After
  <2>2. /\ tmp' = [tmp EXCEPT ![a] = [mii EXCEPT !.ane = active]]
        /\ timer' = NewTimer(s[1])
    BY <2>1 DEF Effect, x
  <2>3. timer = "pending" => enabled
    BY <1>4, <2>1 DEF PendInv, x
  <2>4. ~active => timer' # "pending"
    BY <1>5, <2>1, <2>2, <2>3 DEF NewTimer, x
  <2>5. tmp'[a].ane = active
    <3>1. tmp'[a] = [mii EXCEPT !.ane = active]
      BY <1>5, <2>2
    <3> QED
      BY <1>5, <3>1 DEF Registers
  <2> QED
    BY <2>4, <2>5
<1>10. Has(t, "enabled", FALSE) =>
         Len(t) <= 3 /\ (y.op = "disable_mode" \/ timer' # "pending")
  <2> SUFFICES ASSUME Has(t, "enabled", FALSE) PROVE Len(t) <= 3 /\ timer' # "pending"
    OBVIOUS
  <2>1. Has(s, "enabled", FALSE)
    BY <1>1, Ahead
  <2>2. Len(s) <= 3 /\ (x.op = "disable_mode" \/ timer # "pending")
    BY <1>3, <2>1
  <2>3. x.op \in {"disable_mode", "phylink_eee", "enabled"}
    BY <1>1, <2>1, <2>2, TurnsOff DEF x
  <2>4. timer' = NewTimer(s[1])
    BY DEF Effect
  <2>5. timer' # "pending"
    BY <2>2, <2>3, <2>4 DEF NewTimer, Stopped, x
  <2> QED
    BY <1>2, <2>2, <2>5
<1>11. y.op = "rearm" => enabled'
  <2> SUFFICES ASSUME y.op = "rearm" PROVE enabled'
    OBVIOUS
  <2>1. x.op = "test_enabled"
    BY <1>2 DEF After
  <2>2. enabled
    BY <2>1 DEF GoesOn, x
  <2>3. enabled' = enabled
    BY <2>1 DEF Effect, x
  <2> QED
    BY <2>2, <2>3
<1>12. y.op = "phylink_stop" => timer' # "pending"
  <2> SUFFICES ASSUME y.op = "phylink_stop" PROVE timer' # "pending"
    OBVIOUS
  <2>1. x.op = "del_if_enabled"
    BY <1>2 DEF After
  <2>2. timer' = NewTimer(s[1])
    BY DEF Effect
  <2>3. timer = "pending" => enabled
    BY <1>4, <2>1 DEF PendInv, x
  <2> QED
    BY <2>1, <2>2, <2>3 DEF NewTimer, Stopped, x
<1>13. y.op = "eee_init" /\ ~up' => ~active'
  <2> SUFFICES ASSUME y.op = "eee_init", ~up' PROVE ~active'
    OBVIOUS
  <2>1. x.op = "active" /\ x.arg \in BOOLEAN
    BY <1>2 DEF After, Typed, Switches
  <2>2. active' = x.arg /\ up' = up
    <3>1. active' = x.arg
      BY <2>1 DEF Effect, x
    <3>2. up' = (up \/ FALSE)
      BY <2>1 DEF Effect, x
    <3> QED
      BY <3>1, <3>2 DEF LinkTypes
  <2>3. ~Has(s, "active", TRUE)
    BY <1>4, <2>2 DEF UpInv
  <2>4. x.arg # TRUE
    BY <1>2, <2>1, <2>3 DEF Has, Are
  <2> QED
    BY <2>1, <2>2, <2>4
<1> QED
  BY <1>7, <1>8, <1>9, <1>10, <1>11, <1>12, <1>13 DEF y

LEMMA PendKept ==
  ASSUME LinkTypes, NEW a \in Actors, NEW s \in Seq(LinkSteps), s # <<>>, s[1].op # "phylink_stop",
         Works(a, s), Effect(a, s[1]), NEW t, GoesOn(a, s, t)
  PROVE  PendInv(t)'
<1> SUFFICES ASSUME timer' = "pending"
             PROVE  \/ enabled'
                    \/ /\ t # <<>>
                       /\ \/ t[1].op \in {"enable_result", "stop_if_refused"}
                          \/ /\ t[1].op \in {"phylink_eee", "enabled"}
                             /\ Has(t, "enabled", TRUE)
  BY DEF PendInv
<1>1. Goes1(s, t) /\ Shape(s) /\ PendInv(s) /\ HeadInv(a, s)
  BY DEF GoesOn, Goes1, Works
<1> DEFINE x == s[1]
<1>2. /\ Typed(x) /\ Before(s, 1) /\ x \in Elems(s) /\ Len(s) \in Nat /\ x \in LinkSteps
      /\ t \in Seq(LinkSteps)
      /\ t # <<>> => t = Tail(s) /\ t[1] = s[2]
  BY <1>1, Onward
<1>3. /\ timer' = NewTimer(x)
      /\ enabled' = IF x.op = "enable_result" THEN tmp[a].ane
                    ELSE IF x.op = "enabled" THEN x.arg ELSE enabled
  BY DEF Effect
<1>4. x.op \notin Ends => t = Tail(s)
  BY <1>1 DEF Goes1
<1>5. /\ x.op \in {"enable_result", "stop_if_refused"} => tmp[a].ane \/ timer # "pending"
      /\ Has(s, "enabled", FALSE) => x.op = "disable_mode" \/ timer # "pending"
      /\ x.op = "rearm" => enabled
  BY <1>1 DEF HeadInv
<1>6. timer = "pending" =>
        \/ enabled
        \/ x.op \in {"enable_result", "stop_if_refused"}
        \/ x.op \in {"phylink_eee", "enabled"} /\ Has(s, "enabled", TRUE)
  BY <1>1 DEF PendInv
<1>7. x.op \notin Ends /\ Len(s) > 1 => t # <<>>
  <2>1. Len(Tail(s)) = Len(s) - 1
    BY TailParts
  <2>2. Len(<<>>) = 0
    OBVIOUS
  <2> QED
    BY <1>2, <1>4, <2>1, <2>2
<1>8. x.op \in {"enable_result", "enabled", "eee_init", "stop_if_refused", "phylink_eee"}
      \/ enabled' = enabled
  BY <1>3
<1>9. CASE x.op = "eee_init"
  <2>1. Len(s) > 1 /\ s[2].op \in {"enable_result", "stop_if_refused"}
    <3>1. 1 + 1 = 2
      OBVIOUS
    <3> QED
      BY <1>2, <1>9, <3>1 DEF Before, x
  <2>2. t # <<>> /\ t[1] = s[2]
    BY <1>2, <1>7, <1>9, <2>1 DEF Ends
  <2> QED
    BY <2>1, <2>2
<1>10. CASE x.op = "enable_result"
  <2>1. timer' = timer
    BY <1>3, <1>10 DEF NewTimer
  <2>2. enabled' = tmp[a].ane
    BY <1>3, <1>10
  <2> QED
    BY <1>5, <1>10, <2>1, <2>2
<1>11. CASE x.op = "stop_if_refused"
  <2>1. timer' = timer
    BY <1>3, <1>11 DEF NewTimer
  <2>2. t = Tail(s)
    BY <1>5, <1>11, <2>1 DEF GoesOn, x
  <2>3. Len(s) = 1 + 2 /\ s[1 + 1].op = "phylink_eee" /\ Are(s[1 + 2], "enabled", TRUE)
    BY <1>2, <1>11 DEF Before, x
  <2>4. Len(t) = 2 /\ t[1] = s[1 + 1] /\ t[2] = s[1 + 2]
    <3>1. Len(t) = Len(s) - 1 /\ \A i \in 1..Len(t) : t[i] = s[i + 1]
      BY <2>2, TailParts
    <3>2. Len(t) = 2 /\ 1 \in 1..Len(t) /\ 2 \in 1..Len(t) /\ 2 + 1 = 1 + 2
      BY <2>3, <3>1
    <3> QED
      BY <3>1, <3>2
  <2>5. t # <<>> /\ 2 \in 1..Len(t)
    <3>1. t \in Seq(LinkSteps)
      BY <1>2
    <3>2. Len(t) = 2
      BY <2>4
    <3>3. t = <<>> => Len(t) = 0
      BY <3>1, EmptySeq
    <3>4. 2 \in 1..Len(t)
      BY <3>2
    <3> QED
      BY <3>2, <3>3, <3>4
  <2>6. Has(t, "enabled", TRUE)
    BY <2>3, <2>4, <2>5 DEF Has, Elems
  <2> QED
    BY <2>3, <2>4, <2>5, <2>6
<1>12. CASE x.op = "phylink_eee"
  <2>1. timer' = timer /\ enabled' = enabled
    BY <1>3, <1>12 DEF NewTimer
  <2>2. CASE enabled
    BY <2>1, <2>2
  <2>3. CASE ~enabled
    <3>1. Has(s, "enabled", TRUE)
      BY <1>6, <1>12, <2>1, <2>3
    <3>2. t = Tail(s) /\ Len(s) = 2 /\ s[2].op = "enabled"
      <4>1. 1 + 1 = 2
        OBVIOUS
      <4> QED
        BY <1>2, <1>4, <1>12, <4>1 DEF Before, Ends, x
    <3>3. ~Are(x, "enabled", TRUE)
      BY <1>12 DEF Are
    <3>4. Has(t, "enabled", TRUE)
      BY <3>1, <3>2, <3>3, TailHas DEF x
    <3>5. t # <<>> /\ t[1] = s[2]
      BY <1>2, <1>7, <1>12, <3>2 DEF Ends
    <3> QED
      BY <3>2, <3>4, <3>5
  <2> QED
    BY <2>2, <2>3
<1>13. CASE x.op = "enabled"
  <2>1. timer' = timer /\ enabled' = x.arg
    BY <1>3, <1>13 DEF NewTimer
  <2>2. x.arg \in BOOLEAN
    BY <1>2, <1>13 DEF Typed, Switches
  <2>3. x.arg # FALSE
    <3> SUFFICES ASSUME x.arg = FALSE PROVE FALSE
      OBVIOUS
    <3>1. Has(s, "enabled", FALSE)
      BY <1>2, <1>13 DEF Has, Are
    <3> QED
      BY <1>5, <1>13, <2>1, <3>1
  <2> QED
    BY <2>1, <2>2, <2>3
<1>14. CASE x.op \notin {"enable_result", "enabled", "eee_init", "stop_if_refused", "phylink_eee"}
  <2>1. enabled' = enabled
    BY <1>8, <1>14
  <2>2. CASE timer = "pending"
    BY <1>6, <1>14, <2>1, <2>2
  <2>3. CASE timer # "pending"
    <3>1. x.op = "rearm"
      BY <1>3, <1>14, <2>3 DEF NewTimer, Stopped
    <3> QED
      BY <1>5, <2>1, <3>1
  <2> QED
    BY <2>2, <2>3
<1> QED
  BY <1>9, <1>10, <1>11, <1>12, <1>13, <1>14

LEMMA SpeedKept ==
  ASSUME LinkTypes, NEW a \in Actors, NEW s \in Seq(LinkSteps), s # <<>>, s[1].op # "test_an",
         Works(a, s), Effect(a, s[1]), NEW t, GoesOn(a, s, t)
  PROVE  SpeedInv(t)'
<1>1. Goes1(s, t) /\ Shape(s) /\ SpeedInv(s)
  BY DEF GoesOn, Goes1, Works
<1> DEFINE x == s[1]
<1>2. /\ carrier' = carrier /\ iface' = iface /\ early' = early
      /\ speed' = IF x.op \in {"set_mac", "set_bus", "set_priv"}
                  THEN [speed EXCEPT ![x.op] = x.arg] ELSE speed
      /\ mii' = IF x.op = "store_ane" THEN [mii EXCEPT !.ane = TRUE]
                ELSE IF x.op = "store_speed" THEN [mii EXCEPT !.speed = x.arg] ELSE mii
  BY DEF Effect
<1>3. Elems(t) \subseteq Elems(s) /\ x \in Elems(s) /\ Typed(x)
  BY <1>1, Onward
<1>4. speed \in [{"set_mac", "set_bus", "set_priv"} -> Nat] /\ mii \in Registers
      /\ iface \in Interfaces
  BY DEF LinkTypes
<1>t. Has(s, "test_an", carrier) => Has(t, "test_an", carrier)
  <2>1. Has(s, "test_an", carrier) => Are(x, "test_an", carrier) \/ Has(t, "test_an", carrier)
    BY <1>1, Ahead DEF x
  <2> QED
    BY <2>1 DEF Are
<1>5. ASSUME NEW op \in {"set_mac", "set_bus", "set_priv"}, carrier # 0,
             Comes(s, op, speed[op])
      PROVE  Comes(t, op, speed'[op])
  <2>1. x.op \in Settings => x.arg = carrier
    BY <1>1, <1>3, <1>5 DEF SpeedInv
  <2>2. Has(s, op, carrier) => Are(x, op, carrier) \/ Has(t, op, carrier)
    BY <1>1, Ahead DEF x
  <2>3. CASE x.op = op
    <3>1. speed' = [speed EXCEPT ![op] = carrier]
      BY <1>2, <2>1, <2>3 DEF Settings
    <3> QED
      BY <1>4, <3>1 DEF Comes
  <2>4. CASE x.op # op
    <3>1. speed'[op] = speed[op]
      BY <1>2, <1>4, <2>4
    <3> QED
      BY <1>5, <1>t, <2>2, <2>4, <3>1 DEF Comes, Are
  <2> QED
    BY <2>3, <2>4
<1>6. ASSUME carrier # 0, Comes(s, "store_speed", mii.speed)
      PROVE  Comes(t, "store_speed", mii'.speed)
  <2>1. x.op \in Settings => x.arg = carrier
    BY <1>1, <1>3, <1>6 DEF SpeedInv
  <2>2. Has(s, "store_speed", carrier) =>
          Are(x, "store_speed", carrier) \/ Has(t, "store_speed", carrier)
    BY <1>1, Ahead DEF x
  <2>3. CASE x.op = "store_speed"
    <3>1. mii' = [mii EXCEPT !.speed = carrier]
      BY <1>2, <2>1, <2>3 DEF Settings
    <3> QED
      BY <1>4, <3>1 DEF Registers, Comes
  <2>4. CASE x.op # "store_speed"
    <3>1. mii' = mii \/ mii' = [mii EXCEPT !.ane = TRUE]
      BY <1>2, <2>4
    <3>2. mii'.speed = mii.speed
      BY <1>4, <3>1 DEF Registers
    <3> QED
      BY <1>6, <1>t, <2>2, <2>4, <3>2 DEF Comes, Are
  <2> QED
    BY <2>3, <2>4
<1>7. carrier # 0 =>
        /\ Knows(iface, carrier)
        /\ Comes(s, "set_priv", speed["set_priv"])
        /\ \/ early
           \/ /\ Comes(s, "set_mac", speed["set_mac"]) /\ Comes(s, "set_bus", speed["set_bus"])
              /\ iface = "usxgmii" => Comes(s, "store_speed", mii.speed)
        /\ \A y \in Elems(s) : y.op \in Settings => y.arg = carrier
  BY <1>1 DEF SpeedInv
<1>8. \A y \in Elems(t) : y.op = "test_an" => carrier # 0 /\ iface # "rgmii"
  BY <1>1, <1>3 DEF SpeedInv
<1>9. ASSUME carrier # 0
      PROVE  /\ Knows(iface, carrier)
             /\ Comes(t, "set_priv", speed'["set_priv"])
             /\ \/ early
                \/ /\ Comes(t, "set_mac", speed'["set_mac"])
                   /\ Comes(t, "set_bus", speed'["set_bus"])
                   /\ iface = "usxgmii" => Comes(t, "store_speed", mii'.speed)
             /\ \A y \in Elems(t) : y.op \in Settings => y.arg = carrier
  <2>1. Comes(t, "set_priv", speed'["set_priv"])
    BY <1>5, <1>7, <1>9
  <2>2. Comes(s, "set_mac", speed["set_mac"]) => Comes(t, "set_mac", speed'["set_mac"])
    BY <1>5, <1>9
  <2>3. Comes(s, "set_bus", speed["set_bus"]) => Comes(t, "set_bus", speed'["set_bus"])
    BY <1>5, <1>9
  <2>4. \A y \in Elems(t) : y.op \in Settings => y.arg = carrier
    BY <1>3, <1>7, <1>9
  <2> QED
    BY <1>6, <1>7, <1>9, <2>1, <2>2, <2>3, <2>4
<1>10. Knows(iface, carrier) => Knows(iface', carrier')
  BY <1>2
<1> QED
  BY <1>2, <1>8, <1>9, <1>10 DEF SpeedInv, Comes

LEMMA MacKept ==
  ASSUME LinkTypes, NEW a \in Actors, NEW s \in Seq(LinkSteps), s # <<>>, s[1].op # "phylink_stop",
         Works(a, s), Effect(a, s[1]), NEW t, GoesOn(a, s, t)
  PROVE  MacInv(t)'
<1>1. Goes1(s, t) /\ Shape(s) /\ MacInv(s)
  BY DEF GoesOn, Goes1, Works
<1> DEFINE x == s[1]
<1>2. /\ carrier' = carrier /\ up' = (up \/ x.op = "opened")
      /\ macOn' = IF x.op = "mac" THEN x.arg ELSE macOn
  BY DEF Effect
<1>3. /\ x \in Elems(s) /\ Typed(x) /\ Before(s, 1) /\ Len(s) \in Nat /\ Len(s) >= 1
      /\ x.op = "mac" => x.arg \in BOOLEAN
      /\ t # <<>> => t[1] = s[2]
  <2>1. /\ x \in Elems(s) /\ Typed(x) /\ Before(s, 1) /\ Len(s) \in Nat /\ Len(s) >= 1
        /\ t # <<>> => t[1] = s[2]
    BY <1>1, Onward
  <2> QED
    BY <2>1 DEF Typed, Switches
<1>4. ASSUME NEW on \in BOOLEAN
      PROVE  /\ Has(t, "mac", on) => Has(s, "mac", on)
             /\ Has(s, "mac", on) => Are(x, "mac", on) \/ Has(t, "mac", on)
             /\ x.op = "mac" /\ x.arg = on => Has(s, "mac", on)
  <2>1. /\ Has(t, "mac", on) => Has(s, "mac", on)
        /\ Has(s, "mac", on) /\ "mac" \notin {"rearm", "phylink_eee", "enabled"} =>
             Are(s[1], "mac", on) \/ Has(t, "mac", on)
    BY <1>1, Ahead
  <2>2. "mac" \notin {"rearm", "phylink_eee", "enabled"}
    OBVIOUS
  <2>3. x.op = "mac" /\ x.arg = on => Has(s, "mac", on)
    BY <1>3 DEF Has, Are
  <2> QED
    BY <2>1, <2>2, <2>3
<1>5. x.op # "phylink_stop"
  OBVIOUS
<1> HIDE DEF x
<1>6. carrier # 0 => up' /\ (macOn' \/ Has(t, "mac", TRUE))
                     /\ (Has(t, "mac", FALSE) => t[1].op \in {"del_if_enabled", "phylink_stop"})
  <2> SUFFICES ASSUME carrier # 0
               PROVE  /\ up' /\ (macOn' \/ Has(t, "mac", TRUE))
                      /\ Has(t, "mac", FALSE) => t[1].op \in {"del_if_enabled", "phylink_stop"}
    OBVIOUS
  <2>1. /\ up /\ (macOn \/ Has(s, "mac", TRUE))
        /\ Has(s, "mac", FALSE) => x.op \in {"del_if_enabled", "phylink_stop"}
    BY <1>1 DEF MacInv, x
  <2>2. up'
    BY <1>2, <2>1
  <2>3. macOn' \/ Has(t, "mac", TRUE)
    <3>1. CASE x.op = "mac"
      <4>1. x.arg # FALSE
        BY <1>4, <2>1, <3>1
      <4> QED
        BY <1>2, <1>3, <3>1, <4>1
    <3>2. CASE x.op # "mac"
      <4>1. macOn' = macOn /\ ~Are(x, "mac", TRUE)
        BY <1>2, <3>2 DEF Are
      <4> QED
        BY <1>4, <2>1, <4>1
    <3> QED
      BY <3>1, <3>2
  <2>4. ASSUME Has(t, "mac", FALSE) PROVE t[1].op \in {"del_if_enabled", "phylink_stop"}
    <3>1. x.op = "del_if_enabled"
      BY <1>4, <1>5, <2>1, <2>4
    <3>2. s[2].op = "phylink_stop"
      <4>1. 1 + 1 = 2
        OBVIOUS
      <4> QED
        BY <1>3, <3>1, <4>1 DEF Before, x
    <3>3. t # <<>>
      BY <2>4, NoneHas
    <3> QED
      BY <1>3, <3>2, <3>3
  <2> QED
    BY <2>2, <2>3, <2>4
<1>8. ASSUME ~up', ~Has(t, "opened", 0)
      PROVE  ~Has(t, "mac", TRUE) /\ (~macOn' \/ Has(t, "mac", FALSE))
  <2>1. ~up /\ x.op # "opened"
    BY <1>2, <1>8
  <2>2. ~Has(s, "opened", 0)
    <3>1. Has(s, "opened", 0) /\ "opened" \notin {"rearm", "phylink_eee", "enabled"} =>
            Are(s[1], "opened", 0) \/ Has(t, "opened", 0)
      BY <1>1, Ahead
    <3> QED
      BY <1>8, <2>1, <3>1 DEF Are, x
  <2>3. (~macOn \/ Has(s, "mac", FALSE)) /\ ~Has(s, "mac", TRUE)
    BY <1>1, <2>1, <2>2 DEF MacInv
  <2>6. ~Has(t, "mac", TRUE)
    BY <1>4, <2>3
  <2>4. CASE x.op = "mac"
    BY <1>2, <1>3, <1>4, <2>3, <2>4, <2>6
  <2>5. CASE x.op # "mac"
    <3>1. macOn' = macOn /\ ~Are(x, "mac", FALSE)
      BY <1>2, <2>5 DEF Are
    <3> QED
      BY <1>4, <2>3, <2>6, <3>1
  <2> QED
    BY <2>4, <2>5
<1> QED
  BY <1>2, <1>6, <1>8 DEF MacInv

LEMMA UpKept ==
  ASSUME LinkTypes, NEW a \in Actors, NEW s \in Seq(LinkSteps), s # <<>>, s[1].op # "phylink_stop",
         Works(a, s), Effect(a, s[1]), NEW t, GoesOn(a, s, t)
  PROVE  UpInv(t)'
<1>1. Goes1(s, t) /\ Shape(s) /\ UpInv(s)
  BY DEF GoesOn, Goes1, Works
<1> DEFINE x == s[1]
<1>2. /\ iface' = iface /\ up' = (up \/ x.op = "opened") /\ timer' = NewTimer(x)
      /\ polling' = IF x.op = "opened" THEN TRUE
                    ELSE IF x.op = "polls_off" THEN FALSE ELSE polling
      /\ mii' = IF x.op = "store_ane" THEN [mii EXCEPT !.ane = TRUE]
                ELSE IF x.op = "store_speed" THEN [mii EXCEPT !.speed = x.arg] ELSE mii
  BY DEF Effect
<1>3. x \in Elems(s) /\ Elems(t) \subseteq Elems(s) /\ Typed(x)
  BY <1>1, Onward
<1>4. up \in BOOLEAN /\ polling \in BOOLEAN /\ mii \in Registers
  BY DEF LinkTypes
<1>5. ASSUME NEW op \in {"active", "polls_off", "opened", "store_ane"}, NEW arg
      PROVE  /\ Has(t, op, arg) => Has(s, op, arg)
             /\ Has(s, op, arg) => Are(x, op, arg) \/ Has(t, op, arg)
             /\ x.op = op /\ x.arg = arg => Has(s, op, arg)
  <2>1. /\ Has(t, op, arg) => Has(s, op, arg)
        /\ Has(s, op, arg) /\ op \notin {"rearm", "phylink_eee", "enabled"} =>
             Are(s[1], op, arg) \/ Has(t, op, arg)
    BY <1>1, Ahead
  <2>2. op \notin {"rearm", "phylink_eee", "enabled"}
    OBVIOUS
  <2>3. x.op = op /\ x.arg = arg => Has(s, op, arg)
    BY <1>3 DEF Has, Are
  <2> QED
    BY <2>1, <2>2, <2>3
<1>6. x.op = "eee_init" /\ ~up => ~active
  BY DEF Works, HeadInv, x
<1> HIDE DEF x
<1>7. ASSUME ~up'
      PROVE  /\ timer' # "pending" /\ ~Has(t, "active", TRUE)
             /\ \A y \in Elems(t) : y.op # "rearm"
  <2>1. ~up
    BY <1>2, <1>7
  <2>2. timer # "pending" /\ ~Has(s, "active", TRUE) /\ \A y \in Elems(s) : y.op # "rearm"
    BY <1>1, <2>1 DEF UpInv
  <2>3. x.op # "rearm"
    BY <1>3, <2>2
  <2>4. timer' # "pending"
    BY <1>2, <1>6, <2>1, <2>2, <2>3 DEF NewTimer, Stopped
  <2> QED
    BY <1>3, <1>5, <2>2, <2>4
<1>8. polling' => up' \/ Has(t, "polls_off", 0)
  <2> SUFFICES ASSUME polling', x.op # "opened" PROVE up' \/ Has(t, "polls_off", 0)
    BY <1>2
  <2>1. polling' = (IF x.op = "polls_off" THEN FALSE ELSE polling)
    BY <1>2
  <2>2. x.op # "polls_off" /\ polling
    BY <2>1
  <2>3. up \/ Has(s, "polls_off", 0)
    BY <1>1, <2>2 DEF UpInv
  <2>4. ~Are(x, "polls_off", 0)
    BY <2>2 DEF Are
  <2> QED
    BY <1>2, <1>5, <2>3, <2>4
<1>9. ASSUME up' \/ Has(t, "opened", 0), iface # "rgmii"
      PROVE  mii'.ane \/ Has(t, "store_ane", 0)
  <2>1. up \/ Has(s, "opened", 0)
    <3>1. x.op = "opened" => Has(s, "opened", 0)
      BY <1>3, <1>5 DEF Typed
    <3> QED
      BY <1>2, <1>5, <1>9, <3>1
  <2>2. mii.ane \/ Has(s, "store_ane", 0)
    BY <1>1, <1>9, <2>1 DEF UpInv
  <2>3. CASE x.op = "store_ane"
    <3>1. mii' = [mii EXCEPT !.ane = TRUE]
      BY <1>2, <2>3
    <3> QED
      BY <1>4, <3>1 DEF Registers
  <2>4. CASE x.op # "store_ane"
    <3>1. mii' = mii \/ mii' = [mii EXCEPT !.speed = x.arg]
      BY <1>2, <2>4
    <3>2. mii'.ane = mii.ane /\ ~Are(x, "store_ane", 0)
      BY <1>4, <2>4, <3>1 DEF Registers, Are
    <3> QED
      BY <1>5, <2>2, <3>2
  <2> QED
    BY <2>3, <2>4
<1> QED
  BY <1>2, <1>7, <1>8, <1>9 DEF UpInv

LEMMA TypesKept ==
  ASSUME LinkTypes, NEW a \in Actors, NEW s \in Seq(LinkSteps), s # <<>>,
         Works(a, s), Effect(a, s[1]), NEW t, GoesOn(a, s, t)
  PROVE  LinkTypes'
<1> DEFINE x == s[1]
<1>1. Typed(x) /\ t \in Seq(LinkSteps)
  BY Onward DEF GoesOn, Goes1, Works
<1>2. /\ x.op = "page" => x.arg \in XpcsPages
      /\ x.op \in {"mac", "active", "enabled"} => x.arg \in BOOLEAN
      /\ x.op \in {"set_mac", "set_bus", "set_priv", "store_speed"} => x.arg \in Nat
  BY <1>1 DEF Typed, Switches, Settings
<1>3. Effect(a, x)
  OBVIOUS
<1> HIDE DEF x
<1>4. page' \in XpcsPages /\ macOn' \in BOOLEAN /\ active' \in BOOLEAN /\ lpi' \in BOOLEAN
  BY <1>2, <1>3 DEF Effect, LinkTypes
<1>5. speed' \in [{"set_mac", "set_bus", "set_priv"} -> Nat]
  <2>1. speed \in [{"set_mac", "set_bus", "set_priv"} -> Nat]
    BY DEF LinkTypes
  <2>2. speed' = speed \/ (speed' = [speed EXCEPT ![x.op] = x.arg] /\ x.arg \in Nat)
    BY <1>2, <1>3 DEF Effect
  <2> QED
    BY <2>1, <2>2
<1>6. mii' \in Registers
  <2>1. mii \in Registers
    BY DEF LinkTypes
  <2>2. mii' = mii \/ mii' = [mii EXCEPT !.ane = TRUE]
        \/ (mii' = [mii EXCEPT !.speed = x.arg] /\ x.arg \in Nat)
    BY <1>2, <1>3 DEF Effect
  <2> QED
    BY <2>1, <2>2 DEF Registers
<1>7. tmp' \in [Actors -> Registers]
  <2>1. tmp \in [Actors -> Registers] /\ mii \in Registers /\ active \in BOOLEAN
    BY DEF LinkTypes
  <2>2. [mii EXCEPT !.ane = active] \in Registers
    BY <2>1 DEF Registers
  <2>3. tmp' = tmp \/ tmp' = [tmp EXCEPT ![a] = mii]
        \/ tmp' = [tmp EXCEPT ![a] = [mii EXCEPT !.ane = active]]
    BY <1>3 DEF Effect
  <2> QED
    BY <2>1, <2>2, <2>3
<1>8. enabled' \in BOOLEAN
  <2>1. tmp[a].ane \in BOOLEAN /\ enabled \in BOOLEAN
    BY DEF LinkTypes, Registers
  <2> QED
    BY <1>2, <1>3, <2>1 DEF Effect
<1>9. timer' \in {"none", "idle", "pending"}
  <2>1. timer \in {"none", "idle", "pending"} /\ timer' = NewTimer(x)
    BY <1>3 DEF LinkTypes, Effect
  <2> QED
    BY <2>1 DEF NewTimer, Stopped
<1>10. up' \in BOOLEAN /\ polling' \in BOOLEAN
  <2>1. up \in BOOLEAN /\ polling \in BOOLEAN
    BY DEF LinkTypes
  <2> QED
    BY <1>3, <2>1 DEF Effect
<1>11. /\ carrier' \in NegoSpeeds \cup {0} /\ iface' \in Interfaces /\ ~stray' /\ ~broken'
       /\ anDone' \in BOOLEAN /\ early' \in BOOLEAN /\ (iface' = "rgmii" => ~early')
  BY <1>3 DEF Effect, LinkTypes
<1>12. linkTodo' \in [Actors -> Seq(LinkSteps)]
  <2>1. linkTodo \in [Actors -> Seq(LinkSteps)] /\ linkTodo' = [linkTodo EXCEPT ![a] = t]
    BY DEF LinkTypes, GoesOn
  <2> QED
    BY <1>1, <2>1
<1> QED
  BY <1>4, <1>5, <1>6, <1>7, <1>8, <1>9, <1>10, <1>11, <1>12 DEF LinkTypes

-----------------------------------------------------------------------------
(* Each step keeps the invariant.                                          *)

LEMMA StopKept ==
  ASSUME LinkTypes, NEW a \in Actors, NEW s \in Seq(LinkSteps), s = linkTodo[a], s # <<>>,
         s[1].op = "phylink_stop", StepBranch(a), UNCHANGED iface, Works(a, s)
  PROVE  LinkTypes' /\ \E t \in Seq(LinkSteps) :
                         linkTodo' = [linkTodo EXCEPT ![a] = t] /\ Works(a, t)'
<1>1. Now(a) = s[1] /\ Rest(a) = Tail(s) /\ Before(s, 1) /\ Shape(Tail(s))
  BY TailParts, ShapeTail, Onward DEF Now, Rest, Works, Goes1
<1>2. /\ up' = FALSE /\ carrier' = 0 /\ polling' = polling
      /\ linkTodo' = [linkTodo EXCEPT
           ![a] = (IF carrier # 0 THEN MacLinkDown ELSE <<>>) \o Tail(s)]
      /\ UNCHANGED <<macOn, speed, page, mii, anDone, early, stray, active, enabled, timer,
                     broken, lpi, tmp>>
  BY <1>1 DEF StepBranch, speedVars, eeeVars
<1>3. Tail(s) = Closing
  <2>1. /\ Tail(s) \in Seq(LinkSteps) /\ Len(Tail(s)) = Len(s) - 1
        /\ \A i \in 1..Len(Tail(s)) : Tail(s)[i] = s[i + 1]
    BY TailParts
  <2>2. Len(s) = 3 /\ s[2] = Do1("polls_off") /\ s[3] = Do2("mac", FALSE)
    <3>1. 1 + 1 = 2 /\ 1 + 2 = 3
      OBVIOUS
    <3> QED
      BY <1>1, <3>1 DEF Before
  <2>3. Len(Tail(s)) = 2
    BY <2>1, <2>2
  <2>4. ASSUME NEW i \in 1..Len(Tail(s)) PROVE Tail(s)[i] = Closing[i]
    <3>1. i \in 1..2 /\ i \in 1..Len(Tail(s)) /\ Tail(s)[i] = s[i + 1]
      BY <2>1, <2>3, Zenon
    <3>2. (i = 1 /\ i + 1 = 2) \/ (i = 2 /\ i + 1 = 3)
      BY <3>1
    <3> QED
      BY <2>2, <3>1, <3>2, ClosingIs
  <2>5. Len(Tail(s)) = Len(Closing)
    BY <2>3, ClosingIs
  <2> QED
    BY <2>1, <2>4, <2>5, ClosingIs, SeqEqual
<1> DEFINE Off == {Do1("polls_off"), Do2("mac", FALSE)}
<1>4. PICK t : t = (IF carrier # 0 THEN MacLinkDown ELSE <<>>) \o Closing
  OBVIOUS
<1>5. /\ t \in Seq(LinkSteps) /\ Shape(t) /\ t # <<>> /\ t[1].op \in {"mac", "polls_off"}
      /\ Off \subseteq Elems(t) /\ Elems(t) \subseteq LinkToSteps(FALSE, FALSE) \cup Off
  <2>1. CASE carrier # 0
    <3>1. t = MacLinkDown \o Closing
      BY <1>4, <2>1
    <3> QED
      BY <3>1, DownThenClosing
  <2>2. CASE ~(carrier # 0)
    <3>1. t = <<>> \o Closing
      BY <1>4, <2>2
    <3>2. t = Closing
      BY <3>1, ClosingIs, ConcatEmptySeq
    <3>3. Closing # <<>> /\ Closing[1].op = "polls_off"
      <4>1. Closing = <<>> => Len(Closing) = 0
        BY ClosingIs, EmptySeq
      <4> QED
        BY <4>1, ClosingIs, StepOf
    <3> QED
      BY <1>1, <1>3, <3>2, <3>3, ClosingIs
  <2> QED
    BY <2>1, <2>2
<1>6. ASSUME NEW x \in Elems(t)
      PROVE  /\ x.op \in {"mac", "active", "eee_init", "enable_result", "polls_off"}
             /\ x.op \in {"mac", "active"} => x.arg = FALSE
  <2>1. \/ x = Do2("mac", FALSE) \/ x = Do2("active", FALSE) \/ x = Do1("eee_init")
        \/ x = Do1("enable_result") \/ x = Do1("polls_off")
    BY <1>5 DEF LinkToSteps
  <2> QED
    BY <2>1 DEF Do1, Do2
<1>7. Has(t, "polls_off", 0) /\ Has(t, "mac", FALSE)
  BY <1>5, StepOf DEF Has
<1>8. /\ ~Has(t, "enabled", FALSE) /\ ~Has(t, "mac", TRUE) /\ ~Has(t, "active", TRUE)
      /\ ~Has(t, "opened", 0) /\ \A x \in Elems(t) : x.op # "rearm"
      /\ \A x \in Elems(t) : x.op \notin Settings
  BY <1>6 DEF Has, Are, Settings
<1>9. timer # "pending"
  BY DEF Works, HeadInv
<1>10. HeadInv(a, t)'
  <2>1. \A i \in 1..Len(t) : t[i].op \notin MiiStores
    BY <1>6 DEF Elems, MiiStores
  <2>2. t[1].op \notin Accesses \cup {"enable_result", "stop_if_refused", "rearm",
                                      "phylink_stop", "eee_init"}
    BY <1>5 DEF Accesses, MiiStores
  <2> QED
    BY <1>8, <2>1, <2>2 DEF HeadInv
<1>11. PendInv(t)'
  BY <1>2, <1>9 DEF PendInv
<1>12. SpeedInv(t)'
  BY <1>2, <1>8 DEF SpeedInv, Settings
<1>13. MacInv(t)'
  BY <1>2, <1>7, <1>8 DEF MacInv
<1>14. UpInv(t)'
  BY <1>2, <1>7, <1>8, <1>9 DEF UpInv
<1>15. LinkTypes'
  <2>1. linkTodo' \in [Actors -> Seq(LinkSteps)]
    BY <1>2, <1>3, <1>4, <1>5 DEF LinkTypes
  <2> QED
    BY <1>2, <2>1 DEF LinkTypes
<1>16. Works(a, t)'
  BY <1>5, <1>10, <1>11, <1>12, <1>13, <1>14 DEF Works
<1>17. linkTodo' = [linkTodo EXCEPT ![a] = t]
  BY <1>2, <1>3, <1>4
<1> QED
  BY <1>5, <1>15, <1>16, <1>17

\* test_an: what mac_config does then comes before what is left of the worker's list.
LEMMA TestKept ==
  ASSUME LinkTypes, NEW a \in Actors, NEW s \in Seq(LinkSteps), s = linkTodo[a], s # <<>>,
         StepTest(a), UNCHANGED iface, Works(a, s)
  PROVE  LinkTypes' /\ \E t \in Seq(LinkSteps) :
                         linkTodo' = [linkTodo EXCEPT ![a] = t] /\ Works(a, t)'
<1>1. Now(a) = s[1] /\ Rest(a) = Tail(s)
  BY TailParts DEF Now, Rest
<1> DEFINE r == Tail(s)
<1>2. PICK complete \in BOOLEAN :
        /\ early' = ~complete
        /\ linkTodo' = [linkTodo EXCEPT ![a] = AnTested(s[1].arg, complete) \o r]
  <2>1. anDone \in BOOLEAN
    BY DEF LinkTypes
  <2> QED
    BY <1>1, <2>1 DEF StepTest
<1>3. /\ s[1].op = "test_an"
      /\ UNCHANGED <<up, polling, carrier, macOn, speed, page, mii, anDone, stray, active,
                     enabled, timer, broken, lpi, tmp>>
  BY <1>1 DEF StepTest, eeeVars
<1>4. s[1] \in Elems(s) /\ Shape(s) /\ Goes1(s, r)
  BY FirstIn DEF Works, Goes1
<1>5. /\ s[1].arg = carrier /\ carrier # 0 /\ iface # "rgmii" /\ Knows(iface, carrier)
      /\ \A x \in Elems(s) : x.op \in Settings => x.arg = carrier
      /\ \A x \in Elems(s) : x.op = "test_an" => iface # "rgmii"
  <2>1. SpeedInv(s)
    BY DEF Works
  <2>2. carrier # 0 /\ iface # "rgmii"
    BY <1>3, <1>4, <2>1 DEF SpeedInv
  <2> QED
    BY <1>3, <1>4, <2>1, <2>2 DEF SpeedInv, Settings
<1>6. carrier \in Nat
  BY LinkAssumption DEF LinkTypes
<1>7. PICK p : p = AnTested(carrier, complete)
  OBVIOUS
<1>8. SetsSpeed(p, carrier, complete)
  BY <1>5, <1>6, <1>7, AnTestedIs
<1>9. /\ r \in Seq(LinkSteps) /\ Shape(r) /\ Elems(r) \subseteq Elems(s) /\ Len(r) \in Nat
      /\ r # <<>> => After(s[1], r[1]) /\ Len(s) >= 2
      /\ Len(r) >= 2 => r[2] = s[3] /\ Len(s) >= 3
  <2>1. /\ r \in Seq(LinkSteps) /\ Shape(r) /\ Elems(r) \subseteq Elems(s) /\ Len(r) \in Nat
        /\ r # <<>> => /\ Len(s) = Len(r) + 1 /\ Len(r) >= 1 /\ After(s[1], r[1])
                       /\ Len(r) >= 2 => r[2] = s[3]
    BY <1>4, Onward
  <2> HIDE DEF r
  <2>2. r = <<>> => Len(r) = 0
    OBVIOUS
  <2>3. r = <<>> \/ r # <<>>
    OBVIOUS
  <2>4. Len(r) >= 2 => r # <<>>
    BY <2>2
  <2>5. /\ r # <<>> => After(s[1], r[1]) /\ Len(s) >= 2
        /\ Len(r) >= 2 => r[2] = s[3] /\ Len(s) >= 3
    BY <2>1, <2>4
  <2> QED
    BY <2>1, <2>5
<1> HIDE DEF r
<1>10. r # <<>> => r[1].op \notin Bound /\ r[1].op # "eee_init"
  BY <1>3, <1>9 DEF After, Bound, Accesses, MiiStores, Are
<1>11. Len(r) >= 2 => r[2].op \notin MiiStores
  <2> SUFFICES ASSUME Len(r) >= 2, r[2].op \in MiiStores PROVE FALSE
    OBVIOUS
  <2>1. 3 \in 3..Len(s) /\ s[3].op \in MiiStores /\ 3 - 2 = 1
    BY <1>9
  <2>2. s[3 - 2].op = "load"
    BY <1>4, <2>1 DEF Shape
  <2> QED
    BY <1>3, <2>1, <2>2
<1>12. Fresh(r)
  BY <1>9, <1>10, <1>11 DEF Fresh
<1>13. PICK t : t = p \o r
  OBVIOUS
<1>14. /\ Fresh(t) /\ t \in Seq(LinkSteps) /\ Shape(t) /\ Elems(t) = Elems(p) \cup Elems(r)
       /\ t # <<>> /\ t[1] \in Elems(p)
  <2>1. Fresh(p) /\ Plain(p) /\ p # <<>> /\ p \in Seq(LinkSteps)
    BY <1>8 DEF SetsSpeed, Fresh
  <2>2. Fresh(t)
    BY <1>10, <1>12, <1>13, <2>1, FreshJoined
  <2>3. /\ Elems(t) = Elems(p) \cup Elems(r)
        /\ \A i \in 1..Len(p) : t[i] = p[i]
    BY <1>9, <1>13, <2>1, JoinedParts
  <2>4. 1 \in 1..Len(p) /\ p[1] \in Elems(p)
    BY <2>1, FirstIn
  <2>5. t # <<>>
    BY <2>3, <2>4, NoneHas
  <2> QED
    BY <2>2, <2>3, <2>4, <2>5 DEF Fresh
<1>15. \A x \in Elems(p) : /\ x.op \in PlainOps \ {"mac", "test_an"}
                           /\ x.op \in Settings => x.arg = carrier
  BY <1>8 DEF SetsSpeed, Plain
<1>16. \A op, arg : /\ Has(p, op, arg) \/ Has(r, op, arg) => Has(t, op, arg)
                    /\ Has(t, op, arg) /\ op \notin PlainOps \ {"mac", "test_an"} => Has(s, op, arg)
                    /\ Has(s, op, arg) /\ op # "test_an" => Has(t, op, arg)
  <2> SUFFICES ASSUME NEW op, NEW arg
               PROVE  /\ Has(p, op, arg) \/ Has(r, op, arg) => Has(t, op, arg)
                      /\ Has(t, op, arg) /\ op \notin PlainOps \ {"mac", "test_an"} =>
                           Has(s, op, arg)
                      /\ Has(s, op, arg) /\ op # "test_an" => Has(t, op, arg)
    OBVIOUS
  <2>1. Has(s, op, arg) => Are(s[1], op, arg) \/ Has(r, op, arg)
    BY TailHas DEF r
  <2>2. Has(p, op, arg) \/ Has(r, op, arg) <=> Has(t, op, arg)
    BY <1>14 DEF Has
  <2>3. Has(r, op, arg) => Has(s, op, arg)
    BY <1>9 DEF Has
  <2>4. op \notin PlainOps \ {"mac", "test_an"} => ~Has(p, op, arg)
    BY <1>15 DEF Has, Are
  <2>5. Are(s[1], op, arg) => op = "test_an"
    BY <1>3 DEF Are
  <2> QED
    BY <2>1, <2>2, <2>3, <2>4, <2>5
<1>17. {"enabled", "mac", "opened", "polls_off", "active", "rearm"}
         \cap (PlainOps \ {"mac", "test_an"}) = {}
  BY DEF PlainOps, Accesses, MiiStores, Settings
<1>18. ~Has(t, "enabled", FALSE)
  <2> SUFFICES ASSUME Has(s, "enabled", FALSE) PROVE FALSE
    BY <1>16, <1>17
  <2>1. Len(s) <= 3
    BY DEF Works, HeadInv
  <2> QED
    BY <1>3, <1>4, <2>1, TurnsOff
<1>19. HeadInv(a, t)'
  <2>1. t[1].op \notin Bound /\ (Len(t) >= 2 => t[2].op \notin MiiStores) /\ Len(t) \in Nat
    BY <1>14 DEF Fresh
  <2>2. t[1].op \notin Accesses \cup {"enable_result", "stop_if_refused", "rearm", "phylink_stop"}
        /\ t[1].op \notin MiiStores
    BY <2>1 DEF Bound, Accesses
  <2>3. \A i \in 1..Len(t) : ~(i <= 2 /\ t[i].op \in MiiStores)
    <3>1. \A i \in 1..Len(t) : i <= 2 => i = 1 \/ (i = 2 /\ Len(t) >= 2)
      BY <2>1
    <3> QED
      BY <2>1, <2>2, <3>1
  <2>4. t[1].op # "eee_init"
    <3>1. t[1].op \in PlainOps
      BY <1>14, <1>15
    <3>2. "eee_init" \notin PlainOps
      BY DEF PlainOps, Accesses, MiiStores, Settings
    <3> QED
      BY <3>1, <3>2
  <2> QED
    BY <1>18, <2>2, <2>3, <2>4 DEF HeadInv
<1>20. PendInv(t)'
  BY <1>3 DEF PendInv, Works
<1>21. SpeedInv(t)'
  <2>1. Has(t, "set_priv", carrier)
    BY <1>8, <1>16 DEF SetsSpeed
  <2>2. complete => /\ Has(t, "set_mac", carrier) /\ Has(t, "set_bus", carrier)
                    /\ iface = "usxgmii" => Has(t, "store_speed", carrier)
    BY <1>8, <1>16 DEF SetsSpeed
  <2>3. ASSUME NEW x \in Elems(t), x.op \in Settings PROVE x.arg = carrier
    <3>1. CASE x \in Elems(p)
      BY <1>15, <2>3, <3>1
    <3>2. CASE x \in Elems(r)
      <4>1. x \in Elems(s)
        BY <1>9, <3>2
      <4> QED
        BY <1>5, <2>3, <4>1
    <3> QED
      BY <1>14, <3>1, <3>2
  <2>4. carrier' = carrier /\ iface' = iface /\ carrier # 0 /\ iface # "rgmii"
        /\ (early' = ~complete)
    BY <1>2, <1>3, <1>5
  <2>5. Knows(iface', carrier')
    BY <1>5, <2>4
  <2> QED
    BY <2>1, <2>2, <2>3, <2>4, <2>5 DEF SpeedInv, Comes
<1>22. MacInv(t)'
  <2>1. MacInv(s)
    BY DEF Works
  <2>2. up /\ (macOn \/ Has(s, "mac", TRUE)) /\ ~Has(s, "mac", FALSE)
    BY <1>3, <1>5, <2>1 DEF MacInv
  <2>3. ~Has(t, "mac", FALSE) /\ (Has(s, "mac", TRUE) => Has(t, "mac", TRUE))
    BY <1>16, <1>17, <2>2
  <2> QED
    BY <1>3, <2>2, <2>3 DEF MacInv
<1>23. UpInv(t)'
  <2>1. UpInv(s) /\ up
    BY <1>5 DEF Works, MacInv
  <2>2. mii.ane \/ Has(s, "store_ane", 0)
    BY <1>5, <2>1 DEF UpInv
  <2>3. Has(s, "store_ane", 0) => Has(t, "store_ane", 0)
    BY <1>16
  <2> QED
    BY <1>3, <2>1, <2>2, <2>3 DEF UpInv
<1>24. linkTodo' = [linkTodo EXCEPT ![a] = t]
  BY <1>2, <1>5, <1>7, <1>13
<1>25. LinkTypes'
  <2>1. linkTodo' \in [Actors -> Seq(LinkSteps)]
    BY <1>14, <1>24 DEF LinkTypes
  <2>2. early' \in BOOLEAN
    BY <1>2
  <2> QED
    BY <1>3, <1>5, <2>1, <2>2 DEF LinkTypes
<1>26. Works(a, t)'
  BY <1>14, <1>19, <1>20, <1>21, <1>22, <1>23 DEF Works
<1> QED
  BY <1>14, <1>24, <1>25, <1>26

LEMMA RunKept ==
  ASSUME LinkInv, LinkFaults = {}, NEW a \in Actors, RunLink(a)
  PROVE  LinkInv'
<1>1. LinkTypes /\ iface' = iface /\ linkTodo[a] # <<>>
      /\ \/ StepSpeed(a) \/ StepXpcs(a) \/ StepTest(a)
         \/ EeeInit(a) \/ StepEee(a) \/ StepBranch(a)
  BY DEF LinkInv, RunLink
<1>2. PICK s \in Seq(LinkSteps) :
        s = linkTodo[a] /\ (\A b \in Actors \ {a} : linkTodo[b] = <<>>) /\ Works(a, s)
  BY <1>1 DEF LinkInv
<1>3. s # <<>> /\ HeadInv(a, s) /\ PendInv(s)
  BY <1>1, <1>2 DEF Works
<1>4. LinkTypes' /\ \E t \in Seq(LinkSteps) :
                      linkTodo' = [linkTodo EXCEPT ![a] = t] /\ Works(a, t)'
  <2>1. CASE StepBranch(a) /\ s[1].op = "phylink_stop"
    BY <1>1, <1>2, <1>3, <2>1, StopKept
  <2>3. CASE StepTest(a)
    BY <1>1, <1>2, <1>3, <2>3, TestKept
  <2>2. CASE ~(StepBranch(a) /\ s[1].op = "phylink_stop") /\ ~StepTest(a)
    <3>1. Effect(a, s[1]) /\ (GoesOn(a, s, Tail(s)) \/ GoesOn(a, s, <<>>))
      <4>1. CASE StepSpeed(a)
        BY <1>1, <1>2, <1>3, <4>1, SpeedEffect
      <4>2. CASE StepXpcs(a)
        BY <1>1, <1>2, <1>3, <4>2, XpcsEffect
      <4>3. CASE EeeInit(a)
        BY <1>1, <1>2, <1>3, <4>3, InitEffect
      <4>4. CASE StepEee(a)
        BY <1>1, <1>2, <1>3, <4>4, EeeEffect
      <4>5. CASE StepBranch(a)
        BY <1>1, <1>2, <1>3, <2>2, <4>5, BranchEffect
      <4> QED
        BY <1>1, <2>2, <4>1, <4>2, <4>3, <4>4, <4>5
    <3>2. PICK t : GoesOn(a, s, t)
      BY <3>1
    <3>3. s[1].op # "phylink_stop" /\ s[1].op # "test_an"
      <4>1. Now(a) = s[1]
        BY <1>2, <1>3, TailParts DEF Now
      <4> QED
        BY <1>1, <2>2, <4>1 DEF StepSpeed, StepXpcs, EeeInit, StepEee, StepBranch
    <3>4. LinkTypes' /\ HeadInv(a, t)' /\ PendInv(t)' /\ SpeedInv(t)' /\ MacInv(t)' /\ UpInv(t)'
      BY <1>1, <1>2, <1>3, <3>1, <3>2, <3>3, TypesKept, HeadKept, PendKept, SpeedKept,
         MacKept, UpKept
    <3>5. t \in Seq(LinkSteps) /\ Shape(t)
      BY <1>2, <1>3, <3>2, Onward DEF Works, GoesOn, Goes1
    <3>6. Works(a, t)'
      BY <3>4, <3>5 DEF Works
    <3> QED
      BY <3>2, <3>4, <3>5, <3>6 DEF GoesOn
  <2> QED
    BY <2>1, <2>2, <2>3
<1>5. PICK t \in Seq(LinkSteps) : linkTodo' = [linkTodo EXCEPT ![a] = t] /\ Works(a, t)'
  BY <1>4
<1>6. linkTodo'[a] = t /\ \A b \in Actors \ {a} : linkTodo'[b] = <<>>
  BY <1>1, <1>2, <1>5 DEF LinkTypes
<1> QED
  BY <1>4, <1>5, <1>6 DEF LinkInv

\* What holds when no call is under way.
Rested == PendInv(<<>>) /\ SpeedInv(<<>>) /\ MacInv(<<>>) /\ UpInv(<<>>)

LEMMA IdleRested == LinkInv /\ Idle => LinkTypes /\ Rested
BY DEF LinkInv, Idle, Works, Rested

\* The speed is where it must be.
SpeedIsSet ==
  /\ Knows(iface, carrier) /\ speed.set_priv = carrier
  /\ \/ early
     \/ /\ speed.set_mac = carrier /\ speed.set_bus = carrier
        /\ iface = "usxgmii" => mii.speed = carrier
Resting ==
  /\ timer = "pending" => enabled
  /\ carrier # 0 => up /\ macOn /\ SpeedIsSet
  /\ ~up => ~macOn /\ timer # "pending"
  /\ polling => up
  /\ up /\ iface # "rgmii" => mii.ane

LEMMA RestedIs == Rested <=> Resting
BY NoneHas DEF Rested, PendInv, SpeedInv, MacInv, UpInv, Comes, Resting, SpeedIsSet

\* A call begins with a list of steps that suits the state.
LEMMA CallKept ==
  ASSUME LinkInv, LinkFaults = {}, NEW a \in Actors, NEW s, CallLink(a, s), up' = up,
         carrier' \in NegoSpeeds \cup {0}, Fresh(s),
         s # <<>> /\ s[1].op = "eee_init" => up,
         Has(s, "enabled", FALSE) => Len(s) <= 3 /\ s[1].op = "disable_mode",
         SpeedInv(s)', MacInv(s)', UpInv(s)'
  PROVE  LinkInv'
<1>1. Idle /\ linkTodo' = [linkTodo EXCEPT ![a] = s]
      /\ UNCHANGED <<iface, polling, macOn, speed, page, mii, anDone, early, stray, active,
                     enabled, timer, broken, lpi, tmp>>
  BY DEF CallLink, MayStart, Start, speedVars, eeeVars
<1>2. LinkTypes /\ (timer = "pending" => enabled)
  BY <1>1, IdleRested, RestedIs DEF Resting
<1>3. s \in Seq(LinkSteps) /\ Shape(s)
  BY DEF Fresh
<1>4. /\ linkTodo' \in [Actors -> Seq(LinkSteps)] /\ linkTodo'[a] = s
      /\ \A b \in Actors \ {a} : linkTodo'[b] = <<>>
  BY <1>1, <1>2, <1>3 DEF LinkTypes, Idle
<1>5. LinkTypes'
  BY <1>1, <1>2, <1>4 DEF LinkTypes
<1>6. HeadInv(a, s)'
  <2> SUFFICES ASSUME s # <<>> PROVE HeadInv(a, s)'
    BY DEF HeadInv
  <2>1. s[1].op \notin Bound /\ (Len(s) >= 2 => s[2].op \notin MiiStores)
    BY DEF Fresh
  <2>2. s[1].op \notin Accesses \cup {"enable_result", "stop_if_refused", "rearm", "phylink_stop"}
        /\ s[1].op \notin MiiStores
    BY <2>1 DEF Bound, Accesses
  <2>3. \A i \in 1..Len(s) : ~(i <= 2 /\ s[i].op \in MiiStores)
    <3>1. \A i \in 1..Len(s) : i <= 2 => i = 1 \/ (i = 2 /\ Len(s) >= 2)
      BY <1>3
    <3> QED
      BY <2>1, <2>2, <3>1
  <2>4. s[1].op = "eee_init" => up'
    OBVIOUS
  <2> QED
    BY <2>2, <2>3, <2>4 DEF HeadInv
<1>7. PendInv(s)'
  BY <1>1, <1>2 DEF PendInv
<1>8. Works(a, s)'
  BY <1>3, <1>6, <1>7 DEF Works
<1> QED
  BY <1>3, <1>4, <1>5, <1>8 DEF LinkInv

\* A call that leaves the link as it is and has no settings to make.
LEMMA SameLink ==
  ASSUME LinkInv, LinkFaults = {}, NEW a \in Actors, NEW s, CallLink(a, s),
         UNCHANGED <<up, carrier>>, Fresh(s),
         s # <<>> /\ s[1].op = "eee_init" => up,
         Has(s, "enabled", FALSE) => Len(s) <= 3 /\ s[1].op = "disable_mode",
         \A x \in Elems(s) : x.op # "test_an" /\ (carrier # 0 => x.op \notin Settings),
         Has(s, "mac", TRUE) => Has(s, "opened", 0),
         Has(s, "mac", FALSE) => s[1].op = "del_if_enabled",
         ~up => ~Has(s, "active", TRUE) /\ \A x \in Elems(s) : x.op # "rearm",
         Has(s, "opened", 0) /\ iface # "rgmii" => Has(s, "store_ane", 0)
  PROVE  LinkInv'
<1>1. /\ Idle /\ UNCHANGED <<iface, polling, macOn, speed, mii, early, timer>>
      /\ up' = up /\ carrier' = carrier
  BY DEF CallLink, MayStart, speedVars, eeeVars
<1>2. LinkTypes /\ Rested
  BY <1>1, IdleRested
<1>3. /\ carrier # 0 => up /\ macOn /\ SpeedIsSet
      /\ ~up => ~macOn /\ timer # "pending"
      /\ polling => up
      /\ up /\ iface # "rgmii" => mii.ane
  BY <1>2, RestedIs DEF Resting
<1>4. SpeedInv(s)'
  <2>1. Knows(iface, carrier) => Knows(iface', carrier')
    BY <1>1
  <2> QED
    BY <1>1, <1>3, <2>1 DEF SpeedInv, Comes, SpeedIsSet
<1>5. MacInv(s)'
  <2>1. macOn' = macOn /\ up' = up /\ carrier' = carrier
    BY DEF CallLink, speedVars
  <2>2. carrier # 0 => up /\ macOn
    BY <1>3
  <2>3. ~up => ~macOn
    BY <1>3
  <2>4. Has(s, "mac", FALSE) => s[1].op \in {"del_if_enabled", "phylink_stop"}
    OBVIOUS
  <2>5. Has(s, "mac", TRUE) => Has(s, "opened", 0)
    OBVIOUS
  <2>6. ASSUME ~up' PROVE ~macOn'
    BY <2>1, <2>3, <2>6
  <2>7. ASSUME carrier' # 0 PROVE up' /\ (macOn' \/ Has(s, "mac", TRUE))
    <3>1. carrier # 0
      BY <2>1, <2>7
    <3> QED
      BY <2>1, <2>2, <3>1
  <2> QED
    BY <2>4, <2>5, <2>6, <2>7, Zenon DEF MacInv
<1>6. UpInv(s)'
  <2>1. timer' = timer /\ up' = up /\ polling' = polling /\ iface' = iface /\ mii' = mii
    BY <1>1
  <2>2. ~up => timer # "pending"
    BY <1>3
  <2>3. polling => up
    BY <1>3
  <2>4. up /\ iface # "rgmii" => mii.ane
    BY <1>3
  <2>5. ~up => ~Has(s, "active", TRUE) /\ \A x \in Elems(s) : x.op # "rearm"
    OBVIOUS
  <2>6. Has(s, "opened", 0) /\ iface # "rgmii" => Has(s, "store_ane", 0)
    OBVIOUS
  <2>7. ASSUME ~up' PROVE /\ timer' # "pending" /\ ~Has(s, "active", TRUE)
                          /\ \A x \in Elems(s) : x.op # "rearm"
    <3>1. ~up
      BY <2>1, <2>7
    <3> QED
      BY <2>1, <2>2, <2>5, <3>1
  <2>8. ASSUME polling' PROVE up'
    BY <2>1, <2>3, <2>8
  <2>9. ASSUME up' \/ Has(s, "opened", 0), iface' # "rgmii"
        PROVE  mii'.ane \/ Has(s, "store_ane", 0)
    <3>1. (up \/ Has(s, "opened", 0)) /\ iface # "rgmii"
      BY <2>1, <2>9
    <3>2. mii.ane \/ Has(s, "store_ane", 0)
      BY <2>4, <2>6, <3>1, Zenon
    <3> QED
      BY <2>1, <3>2
  <2> QED
    BY <2>7, <2>8, <2>9, Zenon DEF UpInv
<1>7. carrier' \in NegoSpeeds \cup {0}
  BY <1>1, <1>2 DEF LinkTypes
<1> QED
  BY <1>1, <1>4, <1>5, <1>6, <1>7, CallKept

\* The link comes up, or another speed is found.
UpSteps(s, eee) == MacConfig(s) \o IF carrier = 0 THEN MacLinkUp(eee) ELSE <<>>

\* What they do: the speed is set everywhere, and the MAC turned on.
UpFacts(p, s) ==
  /\ Fresh(p)
  /\ \A x \in Elems(p) : /\ x.op \in Settings => x.arg = s
                         /\ x.op = "test_an" => iface # "rgmii"
                         /\ x.op \notin {"enabled", "opened"}
  /\ \/ Has(p, "test_an", s)
     \/ Has(p, "set_priv", s) /\ Has(p, "set_mac", s) /\ Has(p, "set_bus", s)
        /\ iface = "rgmii"
  /\ carrier = 0 => Has(p, "mac", TRUE)
  /\ ~Has(p, "mac", FALSE)

LEMMA UpProgram ==
  ASSUME NEW s \in Nat, Knows(iface, s), iface \in Interfaces, NEW eee \in BOOLEAN,
         NEW p, p = UpSteps(s, eee)
  PROVE  UpFacts(p, s)
<1> DEFINE x == MacConfig(s)
           y == IF carrier = 0 THEN MacLinkUp(eee) ELSE <<>>
<1>1. Configures(x, s)
  BY MacConfigIs
<1>2. LinkTo(TRUE, eee) = MacLinkUp(eee)
  BY DEF LinkTo, MacLinkUp
<1>3. /\ Fresh(y) /\ (carrier = 0 => Elems(y) = LinkToSteps(TRUE, eee))
      /\ carrier # 0 => Elems(y) = {}
      /\ y # <<>> => y[1] = Do2("mac", TRUE)
  BY <1>2, LinkToIs, FreshNone
<1>4. p = x \o y
  BY DEF UpSteps
<1> HIDE DEF x, y
<1>5. ASSUME NEW z \in Elems(y)
      PROVE  /\ z.op \in {"mac", "active", "eee_init", "enable_result"}
             /\ z.op = "mac" => z.arg = TRUE
  <2>1. z \in LinkToSteps(TRUE, eee)
    BY <1>3
  <2>2. \/ z = Do2("mac", TRUE) \/ z = Do2("active", eee) \/ z = Do1("eee_init")
        \/ z = Do1("enable_result")
    BY <2>1 DEF LinkToSteps
  <2> QED
    BY <2>2 DEF Do1, Do2
<1>6. y # <<>> => y[1].op # "eee_init" /\ y[1].op = "mac"
  BY <1>3 DEF Do2
<1>7. Fresh(p) /\ Elems(p) = Elems(x) \cup Elems(y)
  <2>1. x \in Seq(LinkSteps) /\ y \in Seq(LinkSteps) /\ Fresh(x) /\ Plain(x)
    BY <1>1, <1>3 DEF Fresh, Configures
  <2>2. Elems(x \o y) = Elems(x) \cup Elems(y)
    BY <2>1, JoinedParts
  <2>3. Fresh(x \o y)
    BY <2>1, <1>3, <1>6, FreshJoined
  <2> QED
    BY <1>4, <2>2, <2>3
<1>8. ASSUME NEW z \in Elems(p)
      PROVE  /\ z.op \in Settings => z.arg = s
             /\ z.op = "test_an" => iface # "rgmii"
             /\ z.op \notin {"enabled", "opened"}
  <2>1. CASE z \in Elems(y)
    BY <1>5, <2>1 DEF Settings
  <2>2. CASE z \in Elems(x)
    <3>1. z.op \in PlainOps
      BY <1>1, <2>2 DEF Configures, Plain
    <3>2. z.op \notin {"enabled", "opened"}
      BY <3>1 DEF PlainOps, Accesses, MiiStores, Settings
    <3> QED
      BY <1>1, <2>2, <3>2 DEF Configures
  <2> QED
    BY <1>7, <2>1, <2>2
<1>9. \/ Has(p, "test_an", s)
      \/ Has(p, "set_priv", s) /\ Has(p, "set_mac", s) /\ Has(p, "set_bus", s) /\ iface = "rgmii"
  BY <1>1, <1>7 DEF Has, Configures
<1>10. carrier = 0 => Has(p, "mac", TRUE)
  BY <1>3, <1>7, StepOf DEF Has, LinkToSteps
<1>12. ~Has(p, "mac", FALSE)
  <2>1. \A z \in Elems(x) : z.op # "mac"
    BY <1>1 DEF Configures
  <2> QED
    BY <1>5, <1>7, <2>1 DEF Has, Are
<1> QED
  BY <1>7, <1>8, <1>9, <1>10, <1>12 DEF UpFacts

LEMMA UpCallKept ==
  ASSUME LinkInv, LinkFaults = {}, NEW s \in NegoSpeeds, NEW eee \in BOOLEAN, ResolveUp(s, eee)
  PROVE  LinkInv'
<1> DEFINE p == UpSteps(s, eee)
<1>1. /\ up /\ s # carrier /\ Knows(iface, s) /\ carrier' = s /\ up' = up
      /\ CallLink("worker", p)
  BY DEF ResolveUp, UpSteps
<1>2. Idle /\ UNCHANGED <<iface, polling, macOn, speed, mii, early, timer>>
  BY <1>1 DEF CallLink, MayStart, speedVars, eeeVars
<1>3. LinkTypes /\ Rested
  BY <1>2, IdleRested
<1>4. iface \in Interfaces /\ s \in Nat /\ s # 0
  BY <1>3, LinkAssumption DEF LinkTypes
<1>5. PICK q : q = UpSteps(s, eee)
  OBVIOUS
<1>6. UpFacts(q, s)
  <2>1. Knows(iface, s)
    BY <1>1
  <2> QED
    BY <1>4, <1>5, <2>1, UpProgram, Zenon
<1>7. CallLink("worker", q)
  BY <1>1, <1>5
<1> HIDE DEF p
<1>8. /\ carrier # 0 => macOn
      /\ iface # "rgmii" => mii.ane
  BY <1>1, <1>3, RestedIs DEF Resting
<1>9. SpeedInv(q)'
  <2>1. Knows(iface', carrier')
    BY <1>1, <1>2
  <2>2. carrier' = s /\ s # 0 /\ iface' = iface
    BY <1>1, <1>2, <1>4
  <2> QED
    BY <1>6, <2>1, <2>2 DEF SpeedInv, Comes, UpFacts
<1>10. MacInv(q)'
  <2>1. macOn' \/ Has(q, "mac", TRUE)
    BY <1>2, <1>6, <1>8, Zenon DEF UpFacts
  <2>2. carrier' # 0 /\ up'
    BY <1>1, <1>4
  <2> QED
    BY <1>6, <2>1, <2>2, Zenon DEF MacInv, UpFacts
<1>11. UpInv(q)'
  <2>1. up' /\ (iface' # "rgmii" => mii'.ane)
    BY <1>1, <1>2, <1>8
  <2> QED
    BY <2>1, Zenon DEF UpInv
<1>12. q # <<>> /\ q[1].op = "eee_init" => up
  BY <1>1
<1>13. ~Has(q, "enabled", FALSE)
  BY <1>6, Zenon DEF Has, Are, UpFacts
<1>14. "worker" \in Actors /\ carrier' \in NegoSpeeds \cup {0}
  BY <1>1 DEF Actors
<1> QED
  BY <1>1, <1>6, <1>7, <1>9, <1>10, <1>11, <1>12, <1>13, <1>14, CallKept DEF UpFacts

LEMMA DownCallKept ==
  ASSUME LinkInv, LinkFaults = {}, ResolveDown
  PROVE  LinkInv'
<1>1. up /\ carrier # 0 /\ carrier' = 0 /\ up' = up /\ CallLink("worker", LinkTo(FALSE, FALSE))
  BY DEF ResolveDown, MacLinkDown, LinkTo
<1>2. Idle /\ UNCHANGED <<iface, polling, macOn, speed, mii, timer>>
  BY <1>1 DEF CallLink, MayStart, speedVars, eeeVars
<1>3. LinkTypes /\ Rested
  BY <1>2, IdleRested
<1>4. up /\ (iface # "rgmii" => mii.ane)
  BY <1>1, <1>3, RestedIs DEF Resting
<1>5. PICK q : q = LinkTo(FALSE, FALSE)
  OBVIOUS
<1>6. Fresh(q) /\ Len(q) = 4 /\ Elems(q) = LinkToSteps(FALSE, FALSE) /\ q[1] = Do2("mac", FALSE)
  BY <1>5, LinkToIs
<1>7. /\ q[1].op = "mac"
      /\ \A x \in Elems(q) : x.op \in {"mac", "active", "eee_init", "enable_result"}
                             /\ (x.op = "mac" => x.arg = FALSE)
  BY <1>6 DEF LinkToSteps, Do1, Do2
<1>8. SpeedInv(q)'
  BY <1>1, <1>7 DEF SpeedInv
<1>9. MacInv(q)'
  <2>1. ~Has(q, "mac", TRUE)
    <3>1. TRUE # FALSE
      OBVIOUS
    <3> QED
      BY <1>7, <3>1, Zenon DEF Has, Are
  <2>2. carrier' = 0 /\ up'
    BY <1>1
  <2> QED
    BY <2>1, <2>2 DEF MacInv
<1>10. UpInv(q)'
  <2>1. up' /\ (iface' # "rgmii" => mii'.ane)
    BY <1>1, <1>2, <1>4
  <2> QED
    BY <2>1, Zenon DEF UpInv
<1>11. ~Has(q, "enabled", FALSE)
  BY <1>7 DEF Has, Are
<1>12. "worker" \in Actors /\ carrier' \in NegoSpeeds \cup {0} /\ CallLink("worker", q)
       /\ (q # <<>> /\ q[1].op = "eee_init" => up)
  BY <1>1, <1>5 DEF Actors
<1> QED
  BY <1>1, <1>6, <1>8, <1>9, <1>10, <1>11, <1>12, CallKept

LEMMA OpenKept ==
  ASSUME LinkInv, LinkFaults = {}, CallOpenLink
  PROVE  LinkInv'
<1>1. ~up /\ CallLink("rtnl", OpenLink) /\ UNCHANGED <<up, carrier>>
  BY DEF CallOpenLink
<1>2. Idle
  BY <1>1 DEF CallLink, MayStart
<1>3. LinkTypes /\ Rested
  BY <1>2, IdleRested
<1>4. carrier = 0 /\ iface \in Interfaces
  BY <1>1, <1>3, RestedIs DEF LinkTypes, Resting
<1>5. PICK q : q = OpenLink
  OBVIOUS
<1>6. /\ Fresh(q)
      /\ \A x \in Elems(q) : /\ x.op \in {"set_mac", "mac", "page", "load", "store_ane", "opened"}
                             /\ x.op = "mac" => x.arg = TRUE
      /\ iface # "rgmii" => Has(q, "store_ane", 0)
      /\ Has(q, "opened", 0)
      /\ q # <<>> => q[1].op # "eee_init"
  BY <1>4, <1>5, OpenLinkIs
<1>7. /\ ~Has(q, "enabled", FALSE) /\ ~Has(q, "mac", FALSE) /\ ~Has(q, "active", TRUE)
      /\ \A x \in Elems(q) : x.op # "rearm" /\ x.op # "test_an"
  BY <1>6 DEF Has, Are
<1>8. "rtnl" \in Actors /\ CallLink("rtnl", q)
  BY <1>1, <1>5 DEF Actors
<1> QED
  BY <1>1, <1>4, <1>6, <1>7, <1>8, SameLink

LEMMA ReleaseKept ==
  ASSUME LinkInv, LinkFaults = {}, CallRelease
  PROVE  LinkInv'
<1>1. up /\ CallLink("rtnl", Release) /\ UNCHANGED <<up, carrier>>
  BY DEF CallRelease
<1>2. PICK q : q = Release
  OBVIOUS
<1>3. /\ Fresh(q) /\ q[1].op = "del_if_enabled"
      /\ Elems(q) = {Do1("del_if_enabled"), Do1("phylink_stop"), Do1("polls_off"),
                     Do2("mac", FALSE)}
  BY <1>2, ReleaseIs
<1>4. \A x \in Elems(q) : x.op \in {"del_if_enabled", "phylink_stop", "polls_off", "mac"}
                          /\ (x.op = "mac" => x.arg = FALSE)
  BY <1>3 DEF Do1, Do2
<1>5. ~Has(q, "mac", TRUE)
  <2>1. TRUE # FALSE
    OBVIOUS
  <2> QED
    BY <1>4, <2>1, Zenon DEF Has, Are
<1>6. /\ ~Has(q, "enabled", FALSE) /\ ~Has(q, "opened", 0)
      /\ \A x \in Elems(q) : x.op \notin Settings /\ x.op # "test_an"
  BY <1>4 DEF Has, Are, Settings
<1>7. "rtnl" \in Actors /\ CallLink("rtnl", q) /\ ~(q # <<>> /\ q[1].op = "eee_init")
  BY <1>1, <1>2, <1>3 DEF Actors
<1> QED
  BY <1>1, <1>3, <1>5, <1>6, <1>7, SameLink

LEMMA SetEeeKept ==
  ASSUME LinkInv, LinkFaults = {}, NEW on \in BOOLEAN, CallSetEee(on)
  PROVE  LinkInv'
<1>1. up /\ CallLink("rtnl", EthtoolSetEee(on)) /\ UNCHANGED <<up, carrier>>
  BY DEF CallSetEee
<1>2. PICK q : q = EthtoolSetEee(on)
  OBVIOUS
<1>3. /\ Fresh(q)
      /\ \A x \in Elems(q) : x.op \in {"eee_init", "stop_if_refused", "phylink_eee", "enabled",
                                       "disable_mode"}
      /\ Has(q, "enabled", FALSE) => Len(q) <= 3 /\ q[1].op = "disable_mode"
  <2>1. CASE on
    <3>1. EthtoolSetEee(on) = EthtoolSetEee(TRUE)
      BY <2>1 DEF EthtoolSetEee
    <3>2. Fresh(q) /\ Elems(q) = {Do1("eee_init"), Do1("stop_if_refused"), Do1("phylink_eee"),
                                  Do2("enabled", TRUE)}
      BY <1>2, <3>1, EeeOnIs
    <3>3. \A x \in Elems(q) : x.op \in {"eee_init", "stop_if_refused", "phylink_eee", "enabled"}
                              /\ (x.op = "enabled" => x.arg = TRUE)
      BY <3>2 DEF Do1, Do2
    <3>4. ~Has(q, "enabled", FALSE)
      <4>1. TRUE # FALSE
        OBVIOUS
      <4> QED
        BY <3>3, <4>1, Zenon DEF Has, Are
    <3> QED
      BY <3>2, <3>3, <3>4
  <2>2. CASE ~on
    <3>1. EthtoolSetEee(on) = EthtoolSetEee(FALSE)
      BY <2>2 DEF EthtoolSetEee
    <3>2. /\ Fresh(q) /\ q[1].op = "disable_mode" /\ Len(q) = 3
          /\ Elems(q) = {Do1("disable_mode"), Do1("phylink_eee"), Do2("enabled", FALSE)}
      BY <1>2, <3>1, EeeOffIs
    <3>3. \A x \in Elems(q) : x.op \in {"disable_mode", "phylink_eee", "enabled"}
      BY <3>2 DEF Do1, Do2
    <3>4. Fresh(q) /\ q[1].op = "disable_mode" /\ Len(q) <= 3
      BY <3>2
    <3> QED
      BY <3>3, <3>4
  <2> QED
    BY <2>1, <2>2
<1>4. /\ ~Has(q, "mac", TRUE) /\ ~Has(q, "mac", FALSE) /\ ~Has(q, "opened", 0)
      /\ \A x \in Elems(q) : x.op \notin Settings /\ x.op # "test_an"
  BY <1>3 DEF Has, Are, Settings
<1>5. "rtnl" \in Actors /\ CallLink("rtnl", q)
  BY <1>1, <1>2 DEF Actors
<1> QED
  BY <1>1, <1>3, <1>4, <1>5, SameLink

LEMMA AnRestartKept ==
  ASSUME LinkInv, LinkFaults = {}, CallAnRestart
  PROVE  LinkInv'
<1>1. up /\ CallLink("rtnl", CtrlAne) /\ UNCHANGED <<up, carrier>>
  BY DEF CallAnRestart
<1>2. PICK q : q = CtrlAne
  OBVIOUS
<1>3. Fresh(q) /\ Elems(q) = RmwSteps("mii", "store_ane", 0)
  BY <1>2, CtrlAneIs
<1>4. \A x \in Elems(q) : x.op \in {"page", "load", "store_ane"}
  BY <1>3 DEF RmwSteps, Do1, Do2
<1>5. /\ ~Has(q, "mac", TRUE) /\ ~Has(q, "mac", FALSE) /\ ~Has(q, "opened", 0)
      /\ ~Has(q, "enabled", FALSE)
      /\ \A x \in Elems(q) : x.op \notin Settings /\ x.op # "test_an"
  BY <1>4 DEF Has, Are, Settings
<1>6. "rtnl" \in Actors /\ CallLink("rtnl", q)
  BY <1>1, <1>2 DEF Actors
<1> QED
  BY <1>1, <1>3, <1>5, <1>6, SameLink

LEMMA TxCleanKept ==
  ASSUME LinkInv, LinkFaults = {}, CallTxClean
  PROVE  LinkInv'
<1>1. polling /\ CallLink("poll", TxClean) /\ UNCHANGED <<up, carrier>>
  BY DEF CallTxClean
<1>2. up
  <2>1. Idle
    BY <1>1 DEF CallLink, MayStart
  <2>2. LinkTypes /\ Rested
    BY <2>1, IdleRested
  <2> QED
    BY <1>1, <2>2, RestedIs DEF Resting
<1>3. PICK q : q = TxClean
  OBVIOUS
<1>4. Fresh(q) /\ Elems(q) = {Do1("test_enabled"), Do1("rearm")}
  BY <1>3, TxCleanIs
<1>5. \A x \in Elems(q) : x.op \in {"test_enabled", "rearm"}
  BY <1>4 DEF Do1, Do2
<1>6. /\ ~Has(q, "mac", TRUE) /\ ~Has(q, "mac", FALSE) /\ ~Has(q, "opened", 0)
      /\ ~Has(q, "enabled", FALSE)
      /\ \A x \in Elems(q) : x.op \notin Settings /\ x.op # "test_an"
  BY <1>5 DEF Has, Are, Settings
<1>7. "poll" \in Actors /\ CallLink("poll", q)
  BY <1>1, <1>3 DEF Actors
<1> QED
  BY <1>1, <1>2, <1>4, <1>6, <1>7, SameLink

\* The timer's callback and the transmitter.
LEMMA TimerKept ==
  ASSUME LinkInv, LinkFaults = {}, EnterLpi \/ Xmit
  PROVE  LinkInv'
<1>1. /\ Idle /\ UNCHANGED <<iface, up, polling, carrier, macOn, speed, page, mii, anDone, early,
                             stray, active, enabled, broken, linkTodo, tmp>>
      /\ timer' \in {timer, Stopped} /\ lpi' \in BOOLEAN
  BY DEF EnterLpi, Xmit, speedVars, MayStart
<1>2. /\ LinkTypes /\ PendInv(<<>>) /\ SpeedInv(<<>>) /\ MacInv(<<>>) /\ UpInv(<<>>)
      /\ Shape(<<>>)
  BY <1>1, IdleRested, FreshNone DEF Rested, Fresh
<1>3. timer' \in {"none", "idle", "pending"} /\ (timer' = "pending" => timer = "pending")
  BY <1>1, <1>2 DEF LinkTypes, Stopped
<1>4. LinkTypes'
  BY <1>1, <1>2, <1>3 DEF LinkTypes
<1>5. PICK s : s = <<>>
  OBVIOUS
<1> PICK a \in Actors : TRUE
  BY DEF Actors
<1>6. HeadInv(a, s)'
  BY <1>5 DEF HeadInv
<1>7. PendInv(s)'
  BY <1>1, <1>2, <1>3, <1>5 DEF PendInv
<1>8. SpeedInv(s)'
  BY <1>1, <1>2, <1>5 DEF SpeedInv, Comes
<1>9. MacInv(s)'
  BY <1>1, <1>2, <1>5 DEF MacInv
<1>10. UpInv(s)'
  BY <1>1, <1>2, <1>3, <1>5 DEF UpInv
<1>11. Works(a, s)'
  BY <1>2, <1>5, <1>6, <1>7, <1>8, <1>9, <1>10 DEF Works
<1>12. s \in Seq(LinkSteps) /\ linkTodo'[a] = s /\ \A b \in Actors \ {a} : linkTodo'[b] = <<>>
  BY <1>1, <1>5 DEF Idle
<1> QED
  BY <1>4, <1>11, <1>12 DEF LinkInv

LEMMA LinkStart == LinkInit => LinkInv
<1> SUFFICES ASSUME LinkInit PROVE LinkInv
  OBVIOUS
<1>1. /\ iface \in Interfaces /\ ~up /\ ~polling /\ carrier = 0 /\ ~macOn /\ timer = "none"
      /\ linkTodo = [a \in Actors |-> <<>>]
  BY DEF LinkInit
<1>2. LinkTypes
  <2>1. mii \in Registers /\ tmp \in [Actors -> Registers]
    BY DEF LinkInit, Registers
  <2>2. speed \in [{"set_mac", "set_bus", "set_priv"} -> Nat]
    BY DEF LinkInit
  <2>3. linkTodo \in [Actors -> Seq(LinkSteps)]
    BY <1>1
  <2> QED
    BY <2>1, <2>2, <2>3 DEF LinkInit, LinkTypes, XpcsPages
<1>3. Rested
  BY <1>1, RestedIs DEF Resting
<1>4. Works("poll", <<>>)
  BY <1>3, FreshNone DEF Works, Rested, HeadInv, Fresh
<1>5. "poll" \in Actors /\ <<>> \in Seq(LinkSteps) /\ \A b \in Actors : linkTodo[b] = <<>>
  BY <1>1 DEF Actors
<1> QED
  BY <1>2, <1>4, <1>5 DEF LinkInv

LEMMA LinkNextKept ==
  ASSUME LinkInv, LinkFaults = {}, [LinkNext]_linkVars
  PROVE  LinkInv'
<1>1. ASSUME NEW a \in Actors, RunLink(a) PROVE LinkInv'
  BY <1>1, RunKept
<1>2. ASSUME NEW s \in NegoSpeeds, NEW eee \in BOOLEAN, ResolveUp(s, eee) PROVE LinkInv'
  BY <1>2, UpCallKept
<1>3. CASE ResolveDown
  BY <1>3, DownCallKept
<1>4. CASE CallOpenLink
  BY <1>4, OpenKept
<1>5. CASE CallRelease
  BY <1>5, ReleaseKept
<1>6. CASE CallAnRestart
  BY <1>6, AnRestartKept
<1>7. CASE CallTxClean
  BY <1>7, TxCleanKept
<1>8. ASSUME NEW on \in BOOLEAN, CallSetEee(on) PROVE LinkInv'
  BY <1>8, SetEeeKept
<1>9. CASE EnterLpi \/ Xmit
  BY <1>9, TimerKept
<1>10. CASE AnCompletes \/ UNCHANGED linkVars
  <2>1. /\ UNCHANGED <<iface, up, polling, carrier, macOn, speed, page, mii, early, stray,
                       active, enabled, timer, broken, lpi, linkTodo, tmp>>
        /\ anDone' \in {anDone, TRUE}
    BY <1>10 DEF AnCompletes, linkVars, eeeVars, speedVars
  <2>2. PICK a \in Actors, s \in Seq(LinkSteps) :
          linkTodo[a] = s /\ (\A b \in Actors \ {a} : linkTodo[b] = <<>>) /\ Works(a, s)
    BY DEF LinkInv
  <2>3. LinkTypes'
    BY <2>1 DEF LinkInv, LinkTypes
  <2>4. HeadInv(a, s)'
    BY <2>1, <2>2 DEF Works, HeadInv
  <2>5. PendInv(s)' /\ SpeedInv(s)'
    BY <2>1, <2>2 DEF Works, PendInv, SpeedInv, Comes
  <2>6. MacInv(s)' /\ UpInv(s)'
    BY <2>1, <2>2 DEF Works, MacInv, UpInv
  <2>7. Works(a, s)'
    BY <2>2, <2>4, <2>5, <2>6 DEF Works
  <2> QED
    BY <2>1, <2>2, <2>3, <2>7 DEF LinkInv
<1> QED
  BY <1>1, <1>2, <1>3, <1>4, <1>5, <1>6, <1>7, <1>8, <1>9, <1>10 DEF LinkNext

LEMMA LinkHolds == LinkInv => LinkTypeOK /\ LinkAgrees /\ EeeTimerOwned
<1> SUFFICES ASSUME LinkInv PROVE LinkTypeOK /\ LinkAgrees /\ EeeTimerOwned
  OBVIOUS
<1>1. LinkTypes
  BY DEF LinkInv
<1>2. LinkTypeOK
  BY <1>1 DEF LinkTypes, LinkTypeOK, XpcsPages, Registers
<1>3. LinkAgrees
  BY <1>1, IdleRested, RestedIs DEF LinkAgrees, LinkTypes, Resting, SpeedIsSet
<1>4. EeeTimerOwned
  BY <1>1, IdleRested, RestedIs DEF EeeTimerOwned, LinkTypes, Resting
<1> QED
  BY <1>2, <1>3, <1>4

-----------------------------------------------------------------------------
(* The theorems.                                                           *)

LinkSpec == LinkInit /\ [][LinkNext]_linkVars

\* With one call at a time, speeds that mac_config knows and settings that
\* phylink accepts, a link that is up has the speed the PHY reported in
\* priv->speed and, unless the report came before the XPCS had completed
\* autonegotiation (tc956xmac_mac_config), in every register that must have it,
\* whatever the speeds, whenever autonegotiation completes and in whatever order
\* the interface is opened, closed and told of speeds.
THEOREM LinkIsAgreed == ASSUME LinkFaults = {} PROVE LinkSpec => [](LinkTypeOK /\ LinkAgrees)
<1>1. LinkInv /\ [LinkNext]_linkVars => LinkInv'
  BY LinkNextKept
<1>2. LinkSpec => []LinkInv
  BY <1>1, LinkStart, PTL DEF LinkSpec
<1> QED
  BY <1>2, LinkHolds, PTL

\* Under the same conditions the EEE timer is pending only while EEE is enabled
\* and the interface open, and tc956xmac_eee_init never sets up a pending one.
THEOREM TimerIsOwned == ASSUME LinkFaults = {} PROVE LinkSpec => []EeeTimerOwned
<1>1. LinkInv /\ [LinkNext]_linkVars => LinkInv'
  BY LinkNextKept
<1>2. LinkSpec => []LinkInv
  BY <1>1, LinkStart, PTL DEF LinkSpec
<1> QED
  BY <1>2, LinkHolds, PTL
=============================================================================
