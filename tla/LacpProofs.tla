----------------------------- MODULE LacpProofs -----------------------------
(***************************************************************************)
(* Proofs about LACP between two switches, for every set of cables, every  *)
(* configuration and slow interval, and any number of failures.            *)
(***************************************************************************)
EXTENDS Lacp, FiniteSetTheorems, TLAPS

Pdus == [sync : BOOLEAN, fast : BOOLEAN] \cup {NoPdu}
MemberRecords == [link : BOOLEAN, partner : Pdus, rx : 0..Never, tx : Nat,
                  bundled : BOOLEAN, individual : BOOLEAN]

LacpTyped ==
    /\ lagConfig \in [LacpSystems -> LacpConfigs \cup LacpStarts]
    /\ member \in [LacpEnds -> MemberRecords]
    /\ DOMAIN lag = LacpSystems
    /\ \A s \in LacpSystems :
          /\ DOMAIN lag[s] = {"partnerless", "fallback", "gates"}
          /\ lag[s].gates # NoGates => DOMAIN lag[s].gates \subseteq LacpMembers
    /\ linkSeen \in [LacpEnds -> BOOLEAN] /\ carrier \in [LacpMembers -> BOOLEAN]
    /\ pdu \in [LacpEnds -> Pdus]
    /\ deaf \in [LacpEnds -> Nat]

Grouped(e) == e[2] \in Names(e[1])

\* Frames of an end that is cut vanish, so what its partner knows is as old as the cut.
DeafnessIsSeen ==
    \A e \in LacpEnds :
        /\ deaf[e] > 0 => e \in cut
        /\ e \in cut => pdu[Partner(e)] = NoPdu
        /\ member[Partner(e)].rx >= deaf[e] \/ member[Partner(e)].rx = Never

\* A partner that hears nothing sends SYNC no longer than its hold time, in flight or
\* as the other end remembers it.
SyncIsTimed ==
    \A e \in LacpEnds : Grouped(Partner(e)) =>
        /\ pdu[e] # NoPdu /\ pdu[e].sync => deaf[e] < HoldTime(Settings(Partner(e)).fast)
        /\ member[e].partner # NoPdu /\ member[e].partner.sync =>
              \/ member[e].rx = Never
              \/ deaf[e] < member[e].rx + HoldTime(Settings(Partner(e)).fast)

\* A bundled member was in SYNC with a current partner when its engine last ran, and
\* the engine runs in every unit of time.
BundleIsFresh ==
    \A e \in LacpEnds : Negotiated(e) =>
        \/ /\ e[1] \notin lagTicked
           /\ Grouped(Partner(e)) =>
                 deaf[e] <= HoldTime(Settings(e).fast) + HoldTime(Settings(Partner(e)).fast)
        \/ /\ member[e].partner # NoPdu /\ member[e].partner.sync
           /\ member[e].rx < HoldTime(Settings(e).fast)

\* The inductive invariant for one-way cables.
OneWayInv == LacpTyped /\ DeafnessIsSeen /\ SyncIsTimed /\ BundleIsFresh

-----------------------------------------------------------------------------
(* The two ends of a cable. *)

\* Partner is the other end of the same cable (lacp.rs: one partner per port).
LEMMA PartnerFacts ==
    ASSUME NEW e \in LacpEnds
    PROVE  /\ e = <<e[1], e[2]>> /\ e[1] \in LacpSystems /\ e[2] \in LacpMembers
           /\ Partner(e) \in LacpEnds /\ Partner(e)[1] \in LacpSystems
           /\ Partner(e)[1] # e[1] /\ Partner(e)[2] = e[2]
           /\ Partner(e) = <<Partner(e)[1], e[2]>>
           /\ Partner(Partner(e)) = e
           /\ \A s \in LacpSystems : s # e[1] => s = Partner(e)[1]
  <1>1. e = <<e[1], e[2]>> /\ e[1] \in LacpSystems /\ e[2] \in LacpMembers
    BY DEF LacpEnds
  <1>2. PICK s \in LacpSystems : \E t \in LacpSystems \ {s} : LacpSystems = {s, t}
    BY LacpAssumption, Zenon
  <1>3. PICK t \in LacpSystems \ {s} : LacpSystems = {s, t}
    BY <1>2, Zenon
  <1>4. \A x \in LacpSystems : LET y == CHOOSE y \in LacpSystems : y # x
                              IN  y \in LacpSystems /\ y # x
    BY <1>3, Zenon
  <1> DEFINE O(x) == CHOOSE y \in LacpSystems : y # x
  <1>5. O(e[1]) \in LacpSystems /\ O(e[1]) # e[1] /\ O(O(e[1])) \in LacpSystems
          /\ O(O(e[1])) # O(e[1])
    BY <1>1, <1>4, Zenon
  <1>6. O(O(e[1])) = e[1] /\ \A x \in LacpSystems : x # e[1] => x = O(e[1])
    BY <1>1, <1>3, <1>5
  <1>7. Partner(e) = <<O(e[1]), e[2]>> /\ Partner(e)[1] = O(e[1]) /\ Partner(e)[2] = e[2]
    BY Zenon DEF Partner
  <1>8. Partner(Partner(e)) = <<O(O(e[1])), e[2]>>
    BY <1>7, Zenon DEF Partner
  <1>9. Partner(e) \in LacpEnds
    BY <1>1, <1>5, <1>7, Zenon DEF LacpEnds
  <1> HIDE DEF O
  <1> QED
    BY <1>1, <1>5, <1>6, <1>7, <1>8, <1>9, Zenon

\* The hold times of the two rates (partner_current).
LEMMA HoldFacts ==
    /\ Never \in Nat /\ Never >= 3
    /\ \A fast \in BOOLEAN : HoldTime(fast) \in Nat /\ HoldTime(fast) >= 3
                               /\ HoldTime(fast) <= Never
  BY LacpAssumption, SMTT(60) DEF Never, HoldTime, Interval

\* The configuration of a member of a group.
LEMMA SettingsFacts ==
    ASSUME LacpTyped, NEW e \in LacpEnds, Grouped(e)
    PROVE  /\ Settings(e).fast \in BOOLEAN
           /\ Settings(e).mode \in {"on", "active", "passive"}
           /\ Settings(e).priority \in Nat
  BY LacpAssumption, PartnerFacts DEF LacpTyped, Grouped, Settings, Names

LEMMA ConfigFacts ==
    ASSUME LacpTyped, NEW s \in LacpSystems
    PROVE  /\ Names(s) \subseteq LacpMembers /\ IsFiniteSet(Names(s))
           /\ \A n \in Names(s) : <<s, n>> \in LacpEnds /\ Grouped(<<s, n>>)
           /\ lagConfig[s].minLinks \in Nat
           /\ lagConfig[s].present \in BOOLEAN
           /\ lagConfig[s].fallback \in {"none", "static", "individual"}
           /\ lagConfig[s].present \/ Names(s) = {}
  <1>1. lagConfig[s] \in LacpConfigs \cup LacpStarts
    BY Zenon DEF LacpTyped
  <1>2. Names(s) \subseteq LacpMembers
    BY <1>1, LacpAssumption, Zenon DEF Names
  <1>3. IsFiniteSet(Names(s))
    BY <1>2, LacpAssumption, FS_Subset, Zenon
  <1> QED
    BY <1>1, <1>2, <1>3, LacpAssumption, Zenon DEF Names, LacpEnds, Grouped

-----------------------------------------------------------------------------
(* What step() leaves behind. *)

\* The members step() opens are members of the group.
LEMMA OpenFacts ==
    ASSUME LacpTyped, NEW s \in LacpSystems, NEW mem \in [LacpEnds -> MemberRecords]
    PROVE  /\ OpenGates(s, mem) \subseteq Names(s)
           /\ Individual(s, mem) \subseteq OpenGates(s, mem)
           /\ FallbackArmed(s, mem) \in BOOLEAN
  <1>1. LoneMember(s, mem) \subseteq Names(s)
    BY Zenon DEF LoneMember
  <1>2. Individual(s, mem) \subseteq Names(s) /\ Selected(s, mem) \subseteq Names(s)
    BY <1>1, Zenon DEF Individual, Selected
  <1> QED
    BY <1>2, Zenon DEF OpenGates, FallbackArmed

\* An evaluation pass computes the gates and never touches what was heard.
LEMMA StepMembers ==
    ASSUME LacpTyped, NEW s \in LacpSystems, NEW mem \in [LacpEnds -> MemberRecords],
           NEW flying, LacpStep(s, mem, flying)
    PROVE  /\ member' \in [LacpEnds -> MemberRecords]
           /\ \A e \in LacpEnds :
                 /\ e[1] # s => member'[e] = mem[e]
                 /\ member'[e].link = mem[e].link /\ member'[e].partner = mem[e].partner
                 /\ member'[e].rx = mem[e].rx
                 /\ e[1] = s /\ Grouped(e) =>
                       /\ member'[e].bundled = (e[2] \in OpenGates(s, mem))
                       /\ member'[e].individual = (e[2] \in Individual(s, mem))
  <1> DEFINE gate(n) == [mem[<<s, n>>] EXCEPT !.bundled = n \in OpenGates(s, mem),
                                              !.individual = n \in Individual(s, mem)]
             gated == [n \in Names(s) |-> gate(n)]
             sends == {n \in Names(s) : RunsLacp(s) /\ Due(<<s, n>>, gated[n])}
  <1>1. member' = [e \in LacpEnds |->
                      IF e[1] # s \/ e[2] \notin Names(s) THEN mem[e]
                      ELSE IF e[2] \in sends THEN [gated[e[2]] EXCEPT !.tx = 0]
                      ELSE gated[e[2]]]
    BY Zenon DEF LacpStep
  <1>2. ASSUME NEW e \in LacpEnds, e[1] = s, e[2] \in Names(s)
        PROVE  /\ gated[e[2]] = gate(e[2]) /\ gate(e[2]) \in MemberRecords
               /\ gate(e[2]).link = mem[e].link /\ gate(e[2]).partner = mem[e].partner
               /\ gate(e[2]).rx = mem[e].rx
               /\ gate(e[2]).bundled = (e[2] \in OpenGates(s, mem))
               /\ gate(e[2]).individual = (e[2] \in Individual(s, mem))
    <2>1. <<s, e[2]>> = e /\ mem[e] \in MemberRecords
      BY <1>2, PartnerFacts, Zenon
    <2>2. gated[e[2]] = gate(e[2])
      BY <1>2, Zenon
    <2> DEFINE open == e[2] \in OpenGates(s, mem)
               own == e[2] \in Individual(s, mem)
    <2>3. open \in BOOLEAN /\ own \in BOOLEAN
      OBVIOUS
    <2>4. gate(e[2]) = [mem[e] EXCEPT !.bundled = open, !.individual = own]
      BY <2>1, Zenon
    <2> HIDE DEF open, own, gate
    <2>5. /\ gate(e[2]) \in MemberRecords
          /\ gate(e[2]).link = mem[e].link /\ gate(e[2]).partner = mem[e].partner
          /\ gate(e[2]).rx = mem[e].rx
          /\ gate(e[2]).bundled = open /\ gate(e[2]).individual = own
      <3>1. LET r == mem[e]
                q == [r EXCEPT !.bundled = open, !.individual = own]
            IN  /\ q \in MemberRecords /\ q.link = r.link /\ q.partner = r.partner
                /\ q.rx = r.rx /\ q.bundled = open /\ q.individual = own
        BY <2>1, <2>3, Zenon DEF MemberRecords
      <3> QED
        BY <2>4, <3>1, Zenon
    <2> QED
      BY <2>2, <2>5, Zenon DEF open, own
  <1>3. ASSUME NEW r \in MemberRecords
        PROVE  LET q == [r EXCEPT !.tx = 0]
               IN  /\ q \in MemberRecords /\ q.link = r.link /\ q.partner = r.partner
                   /\ q.rx = r.rx /\ q.bundled = r.bundled /\ q.individual = r.individual
    BY Zenon DEF MemberRecords
  <1> HIDE DEF gate, gated, sends
  <1>4. ASSUME NEW e \in LacpEnds
        PROVE  /\ member'[e] \in MemberRecords
               /\ e[1] # s => member'[e] = mem[e]
               /\ member'[e].link = mem[e].link /\ member'[e].partner = mem[e].partner
               /\ member'[e].rx = mem[e].rx
               /\ e[1] = s /\ Grouped(e) =>
                     /\ member'[e].bundled = (e[2] \in OpenGates(s, mem))
                     /\ member'[e].individual = (e[2] \in Individual(s, mem))
    <2>1. ASSUME e[1] # s \/ e[2] \notin Names(s) PROVE member'[e] = mem[e]
      BY <1>1, <2>1, Zenon
    <2>2. ASSUME e[1] = s, e[2] \in Names(s)
          PROVE  member'[e] = gate(e[2]) \/ member'[e] = [gate(e[2]) EXCEPT !.tx = 0]
      BY <1>1, <1>2, <2>2, Zenon
    <2>3. CASE e[1] # s \/ e[2] \notin Names(s)
      BY <2>1, <2>3, Zenon DEF Grouped
    <2>4. CASE e[1] = s /\ e[2] \in Names(s)
      <3>1. /\ gate(e[2]) \in MemberRecords
            /\ gate(e[2]).link = mem[e].link /\ gate(e[2]).partner = mem[e].partner
            /\ gate(e[2]).rx = mem[e].rx
            /\ gate(e[2]).bundled = (e[2] \in OpenGates(s, mem))
            /\ gate(e[2]).individual = (e[2] \in Individual(s, mem))
        BY <1>2, <2>4, Zenon
      <3>2. LET r == gate(e[2])
            IN  /\ member'[e] \in MemberRecords /\ member'[e].link = r.link
                /\ member'[e].partner = r.partner /\ member'[e].rx = r.rx
                /\ member'[e].bundled = r.bundled /\ member'[e].individual = r.individual
        BY <1>3, <2>2, <2>4, <3>1, ZenonT(60)
      <3> QED
        BY <2>4, <3>1, <3>2, Zenon
    <2> QED
      BY <2>3, <2>4, Zenon
  <1>5. member' \in [LacpEnds -> MemberRecords]
    BY <1>1, <1>4, Zenon
  <1> QED
    BY <1>4, <1>5, Zenon

LEMMA StepLag ==
    ASSUME LacpTyped, NEW s \in LacpSystems, NEW mem, NEW flying, LacpStep(s, mem, flying)
    PROVE  /\ DOMAIN lag' = LacpSystems
           /\ \A t \in LacpSystems :
                 /\ DOMAIN lag'[t] = {"partnerless", "fallback", "gates"}
                 /\ lag'[t].gates # NoGates => DOMAIN lag'[t].gates \subseteq LacpMembers
           /\ \A t \in LacpSystems : t # s => lag'[t] = lag[t]
           /\ lag'[s].fallback = (lagConfig[s].present /\ FallbackArmed(s, mem))
           /\ \/ lag'[s].gates = NoGates
              \/ lag'[s].gates = [n \in Names(s) |-> n \in OpenGates(s, mem)]
  <1> DEFINE new == IF ~lagConfig[s].present THEN NewLag
                    ELSE [partnerless |-> Partnerless(s, mem),
                          fallback |-> FallbackArmed(s, mem),
                          gates |-> [n \in Names(s) |-> n \in OpenGates(s, mem)]]
  <1>1. lag' = [lag EXCEPT ![s] = new]
    BY Zenon DEF LacpStep
  <1>2. lagConfig[s].present \in BOOLEAN
    BY ConfigFacts, Zenon
  <1>3. /\ DOMAIN new = {"partnerless", "fallback", "gates"}
        /\ new.fallback = (lagConfig[s].present /\ FallbackArmed(s, mem))
        /\ \/ new.gates = NoGates
           \/ new.gates = [n \in Names(s) |-> n \in OpenGates(s, mem)]
    BY <1>2, Zenon DEF NewLag, FallbackArmed
  <1>4. new.gates # NoGates => DOMAIN new.gates \subseteq LacpMembers
    BY <1>3, ConfigFacts, Zenon
  <1> HIDE DEF new
  <1> QED
    BY <1>1, <1>3, <1>4, Zenon DEF LacpTyped

\* Whoever sends SYNC on a group that runs LACP hears its partner (step() sends for
\* an active or a current member, actor_state_bits sets SYNC).
LEMMA StepPdus ==
    ASSUME LacpTyped, NEW s \in LacpSystems, NEW mem \in [LacpEnds -> MemberRecords],
           NEW flying \in [LacpEnds -> Pdus], LacpStep(s, mem, flying)
    PROVE  /\ pdu' \in [LacpEnds -> Pdus]
           /\ \A e \in LacpEnds : pdu'[e] # flying[e] =>
                 /\ Partner(e)[1] = s /\ Grouped(Partner(e)) /\ Partner(e) \notin cut
                 /\ pdu'[e].sync => Current(Partner(e), mem[Partner(e)])
  <1> DEFINE gate(n) == [mem[<<s, n>>] EXCEPT !.bundled = n \in OpenGates(s, mem),
                                              !.individual = n \in Individual(s, mem)]
             gated == [n \in Names(s) |-> gate(n)]
             sends == {n \in Names(s) : RunsLacp(s) /\ Due(<<s, n>>, gated[n])}
             Frame(n) == [sync |-> ActorSync(<<s, n>>, gated[n]),
                          fast |-> Settings(<<s, n>>).fast]
  <1>1. pdu' = [e \in LacpEnds |->
                   IF /\ Partner(e)[1] = s /\ e[2] \in sends
                      /\ carrier[e[2]] /\ Partner(e) \notin cut
                   THEN Frame(e[2]) ELSE flying[e]]
    BY Zenon DEF LacpStep
  <1>2. ASSUME NEW n \in sends
        PROVE  /\ <<s, n>> \in LacpEnds /\ Grouped(<<s, n>>) /\ n \in Names(s)
               /\ Frame(n) \in Pdus
               /\ Frame(n).sync => Current(<<s, n>>, mem[<<s, n>>])
    <2>1. <<s, n>> \in LacpEnds /\ Grouped(<<s, n>>) /\ n \in Names(s)
      BY ConfigFacts, Zenon
    <2>2. mem[<<s, n>>] \in MemberRecords
      BY <2>1, Zenon
    <2>3. gate(n) \in MemberRecords /\ gate(n).rx = mem[<<s, n>>].rx /\ gated[n] = gate(n)
      <3> DEFINE open == n \in OpenGates(s, mem)
                 own == n \in Individual(s, mem)
      <3>1. open \in BOOLEAN /\ own \in BOOLEAN
        OBVIOUS
      <3>2. gate(n) = [mem[<<s, n>>] EXCEPT !.bundled = open, !.individual = own]
        BY Zenon
      <3>3. gated[n] = gate(n)
        BY <2>1, Zenon
      <3> HIDE DEF open, own, gate, gated
      <3>4. LET r == mem[<<s, n>>]
                q == [r EXCEPT !.bundled = open, !.individual = own]
            IN  q \in MemberRecords /\ q.rx = r.rx
        BY <2>2, <3>1, Zenon DEF MemberRecords
      <3> QED
        BY <3>2, <3>3, <3>4, Zenon
    <2>4. Settings(<<s, n>>).fast \in BOOLEAN
      BY <2>1, SettingsFacts, Zenon
    <2>5. ActorSync(<<s, n>>, gated[n]) \in BOOLEAN
      BY <2>3, <2>4, Zenon DEF ActorSync, MemberRecords
    <2>6. Current(<<s, n>>, gated[n]) = Current(<<s, n>>, mem[<<s, n>>])
      BY <2>3, Zenon DEF Current
    <2>7. ActorSync(<<s, n>>, gated[n]) => Current(<<s, n>>, gated[n])
      BY Zenon DEF ActorSync, Due
    <2>8. Frame(n) \in Pdus /\ Frame(n).sync = ActorSync(<<s, n>>, gated[n])
      BY <2>4, <2>5, Zenon DEF Pdus
    <2> HIDE DEF gated, Frame, sends
    <2> QED
      BY <2>1, <2>6, <2>7, <2>8, Zenon
  <1> HIDE DEF gate, gated, sends, Frame
  <1>3. ASSUME NEW e \in LacpEnds
        PROVE  pdu'[e] \in Pdus
    BY <1>1, <1>2, Zenon
  <1>4. ASSUME NEW e \in LacpEnds, pdu'[e] # flying[e]
        PROVE  /\ Partner(e)[1] = s /\ Grouped(Partner(e)) /\ Partner(e) \notin cut
               /\ pdu'[e].sync => Current(Partner(e), mem[Partner(e)])
    <2>1. Partner(e)[1] = s /\ e[2] \in sends /\ Partner(e) \notin cut
            /\ pdu'[e] = Frame(e[2])
      BY <1>1, <1>4, Zenon
    <2>2. Partner(e) = <<s, e[2]>>
      BY <2>1, PartnerFacts, Zenon
    <2> QED
      BY <1>2, <2>1, <2>2, Zenon
  <1>5. pdu' \in [LacpEnds -> Pdus]
    BY <1>1, <1>3, Zenon
  <1> QED
    BY <1>4, <1>5, Zenon

-----------------------------------------------------------------------------
(* The gates. *)

\* What GatesAreWhole says of one switch.
GroupIsWhole(s) ==
    LET open == {n \in DOMAIN lag[s].gates : lag[s].gates[n]}
    IN  /\ \/ open = {} \/ Cardinality(open) >= lagConfig[s].minLinks
           \/ \E n \in open : open = {n} /\ member[<<s, n>>].individual
        /\ lag[s].fallback => ~AnyPartner(s, member)

\* The lowest (priority, number) is one member.
LEMMA LoneIsSingle ==
    ASSUME LacpTyped, NEW s \in LacpSystems, NEW mem,
           NEW x \in LoneMember(s, mem), NEW y \in LoneMember(s, mem)
    PROVE  x = y
  <1>1. x \in Names(s) /\ y \in Names(s)
    BY Zenon DEF LoneMember
  <1>2. x \in Nat /\ y \in Nat
    BY <1>1, ConfigFacts, LacpAssumption, Zenon
  <1>3. Settings(<<s, x>>).priority \in Nat /\ Settings(<<s, y>>).priority \in Nat
    BY <1>1, ConfigFacts, SettingsFacts, Zenon
  <1> QED
    BY <1>2, <1>3 DEF LoneMember

\* min-links, and the member that fallback makes individual (step()).
LEMMA OpenIsWhole ==
    ASSUME LacpTyped, NEW s \in LacpSystems, NEW mem \in [LacpEnds -> MemberRecords]
    PROVE  LET open == OpenGates(s, mem)
           IN  \/ open = {} \/ Cardinality(open) >= lagConfig[s].minLinks
               \/ \E n \in open : open = {n} /\ n \in Individual(s, mem)
  <1> DEFINE own == Individual(s, mem)
             bundled == Selected(s, mem) \ own
  <1>1. CASE own = {}
    <2>1. OpenGates(s, mem) = IF Cardinality(bundled) < lagConfig[s].minLinks
                              THEN {} ELSE bundled
      BY <1>1, Zenon DEF OpenGates
    <2>2. IsFiniteSet(bundled)
      BY ConfigFacts, FS_Subset, Zenon DEF Selected, LoneMember
    <2>3. Cardinality(bundled) \in Nat /\ lagConfig[s].minLinks \in Nat
      BY <2>2, FS_CardinalityType, ConfigFacts, Zenon
    <2> HIDE DEF bundled
    <2> QED
      BY <2>1, <2>3
  <1>2. CASE own # {}
    <2>1. /\ FallbackArmed(s, mem) /\ lagConfig[s].fallback = "individual"
          /\ own = LoneMember(s, mem)
      BY <1>2, Zenon DEF Individual
    <2>2. Selected(s, mem) = LoneMember(s, mem)
      BY <2>1, Zenon DEF Selected, FallbackArmed
    <2>3. bundled = {}
      BY <2>1, <2>2, Zenon
    <2>4. OpenGates(s, mem) = own
      BY <2>3, Zenon DEF OpenGates
    <2>5. PICK x \in own : TRUE
      BY <1>2, Zenon
    <2>6. own = {x}
      BY <2>1, <2>5, LoneIsSingle, SMTT(60)
    <2> QED
      BY <2>4, <2>6, Zenon
  <1> QED
    BY <1>1, <1>2, Zenon

\* A pass leaves the gates of its group whole.
LEMMA StepIsWhole ==
    ASSUME LacpTyped, NEW s \in LacpSystems, NEW mem \in [LacpEnds -> MemberRecords],
           NEW flying, LacpStep(s, mem, flying), lagConfig' = lagConfig,
           lag'[s].gates # NoGates
    PROVE  GroupIsWhole(s)'
  <1>1. lag'[s].gates = [n \in Names(s) |-> n \in OpenGates(s, mem)]
    BY StepLag, Zenon
  <1>2. {n \in DOMAIN lag'[s].gates : lag'[s].gates[n]} = OpenGates(s, mem)
    BY <1>1, OpenFacts, Zenon
  <1>3. ASSUME NEW n \in Individual(s, mem) PROVE member'[<<s, n>>].individual
    <2>1. n \in Names(s)
      BY OpenFacts, Zenon
    <2>2. <<s, n>> \in LacpEnds /\ Grouped(<<s, n>>) /\ <<s, n>>[1] = s /\ <<s, n>>[2] = n
      BY <2>1, ConfigFacts, Zenon
    <2>3. member'[<<s, n>>].individual = (n \in Individual(s, mem))
      BY <2>2, StepMembers, Zenon
    <2> QED
      BY <2>3, Zenon
  <1>4. AnyPartner(s, member)' => AnyPartner(s, mem)
    <2>1. ASSUME NEW n \in Names(s)
          PROVE  Current(<<s, n>>, member[<<s, n>>])' = Current(<<s, n>>, mem[<<s, n>>])
      <3>1. member'[<<s, n>>].rx = mem[<<s, n>>].rx
        BY StepMembers, ConfigFacts
      <3> QED
        BY <3>1, Zenon DEF Current, Settings
    <2>2. Names(s)' = Names(s)
      BY Zenon DEF Names
    <2> QED
      BY <2>1, <2>2, Zenon DEF AnyPartner
  <1>5. lag'[s].fallback => ~AnyPartner(s, mem)
    BY StepLag, Zenon DEF FallbackArmed
  <1>6. LET open == OpenGates(s, mem)
        IN  \/ open = {} \/ Cardinality(open) >= lagConfig'[s].minLinks
            \/ \E n \in open : open = {n} /\ member'[<<s, n>>].individual
    BY OpenIsWhole, <1>3, Zenon
  <1> QED
    BY <1>2, <1>4, <1>5, <1>6, Zenon DEF GroupIsWhole

\* What happens at the other switch changes nothing here.
LEMMA OtherIsWhole ==
    ASSUME LacpTyped, NEW s \in LacpSystems, GroupIsWhole(s), lag[s].gates # NoGates,
           lagConfig'[s] = lagConfig[s], lag'[s] = lag[s],
           \A e \in LacpEnds : e[1] = s => member'[e] = member[e]
    PROVE  GroupIsWhole(s)'
  <1>1. \A n \in LacpMembers : member'[<<s, n>>] = member[<<s, n>>]
    BY Zenon DEF LacpEnds
  <1>2. Names(s)' = Names(s)
    BY Zenon DEF Names
  <1>3. AnyPartner(s, member)' => AnyPartner(s, member)
    BY <1>1, <1>2, ConfigFacts, ZenonT(60) DEF AnyPartner, Current, Settings
  <1>4. DOMAIN lag[s].gates \subseteq LacpMembers
    BY Zenon DEF LacpTyped
  <1>5. \A n \in DOMAIN lag[s].gates : member'[<<s, n>>].individual = member[<<s, n>>].individual
    BY <1>1, <1>4, Zenon
  <1> QED
    BY <1>3, <1>5, Zenon DEF GroupIsWhole

\* A pass of one switch keeps the gates of both whole.
LEMMA StepKeepsWhole ==
    ASSUME LacpTyped, GatesAreWhole, NEW s \in LacpSystems,
           NEW mem \in [LacpEnds -> MemberRecords], NEW flying, LacpStep(s, mem, flying),
           \A e \in LacpEnds : e[1] # s => mem[e] = member[e],
           lagConfig' = lagConfig, lagTicked' \subseteq lagTicked \cup {s}
    PROVE  GatesAreWhole'
  <1>1. ASSUME NEW t \in LacpSystems, lag'[t].gates # NoGates, t \in lagTicked'
        PROVE  GroupIsWhole(t)'
    <2>1. CASE t = s
      BY <1>1, <2>1, StepIsWhole, Zenon
    <2>2. CASE t # s
      <3>1. lag'[t] = lag[t] /\ t \in lagTicked
        BY <1>1, <2>2, StepLag, Zenon
      <3>2. GroupIsWhole(t)
        BY <1>1, <3>1, Zenon DEF GatesAreWhole, GroupIsWhole
      <3>3. \A e \in LacpEnds : e[1] = t => member'[e] = member[e]
        BY <2>2, StepMembers
      <3> QED
        BY <1>1, <3>1, <3>2, <3>3, OtherIsWhole, Zenon
    <2> QED
      BY <2>1, <2>2, Zenon
  <1> QED
    BY <1>1, Zenon DEF GatesAreWhole, GroupIsWhole

-----------------------------------------------------------------------------
(* One-way cables. *)

LEMMA StepTyped ==
    ASSUME LacpTyped, NEW s \in LacpSystems, NEW mem \in [LacpEnds -> MemberRecords],
           NEW flying \in [LacpEnds -> Pdus], LacpStep(s, mem, flying),
           UNCHANGED <<lagConfig, carrier, deaf>>, linkSeen' \in [LacpEnds -> BOOLEAN]
    PROVE  LacpTyped'
  BY StepMembers, StepLag, StepPdus, Zenon DEF LacpTyped

\* step() bundles a member by negotiation only with a current partner in SYNC.
LEMMA StepNegotiates ==
    ASSUME LacpTyped, NEW s \in LacpSystems, NEW mem \in [LacpEnds -> MemberRecords],
           NEW flying, LacpStep(s, mem, flying), UNCHANGED lagConfig,
           NEW e \in LacpEnds, e[1] = s, Negotiated(e)'
    PROVE  /\ member'[e].partner # NoPdu /\ member'[e].partner.sync
           /\ member'[e].rx < HoldTime(Settings(e).fast)
  <1>1. Grouped(e) /\ RunsLacp(s) /\ member'[e].bundled /\ ~lag'[s].fallback
    BY Zenon DEF Negotiated, Grouped, RunsLacp, Names, Settings
  <1>2. ~FallbackArmed(s, mem)
    BY <1>1, StepLag, ConfigFacts, Zenon DEF Grouped
  <1>3. e[2] \in OpenGates(s, mem)
    BY <1>1, StepMembers, Zenon
  <1>4. e[2] \in Selected(s, mem)
    BY <1>2, <1>3, Zenon DEF OpenGates, Individual
  <1>5. Current(<<s, e[2]>>, mem[<<s, e[2]>>])
          /\ mem[<<s, e[2]>>].partner # NoPdu /\ mem[<<s, e[2]>>].partner.sync
    BY <1>1, <1>2, <1>4, Zenon DEF Selected
  <1>6. <<s, e[2]>> = e
    BY PartnerFacts, Zenon
  <1> QED
    <2>1. Current(e, mem[e]) /\ mem[e].partner # NoPdu /\ mem[e].partner.sync
      BY <1>5, <1>6, Zenon
    <2>2. member'[e].partner = mem[e].partner /\ member'[e].rx = mem[e].rx
      BY StepMembers, Zenon
    <2> QED
      BY <2>1, <2>2, Zenon DEF Current

\* What a pass starts from: the member records and frames after its event.
ReadyFor(s, mem, flying) ==
    /\ mem \in [LacpEnds -> MemberRecords] /\ flying \in [LacpEnds -> Pdus]
    /\ \A e \in LacpEnds :
          /\ e[1] # s => mem[e] = member[e]
          /\ e \in cut => flying[Partner(e)] = NoPdu
          /\ mem[Partner(e)].rx >= deaf[e] \/ mem[Partner(e)].rx = Never
          /\ Grouped(Partner(e)) =>
                /\ flying[e] # NoPdu /\ flying[e].sync =>
                      deaf[e] < HoldTime(Settings(Partner(e)).fast)
                /\ mem[e].partner # NoPdu /\ mem[e].partner.sync =>
                      \/ mem[e].rx = Never
                      \/ deaf[e] < mem[e].rx + HoldTime(Settings(Partner(e)).fast)

LEMMA StepOneWay ==
    ASSUME OneWayInv, NEW s \in LacpSystems, NEW mem, NEW flying, ReadyFor(s, mem, flying),
           LacpStep(s, mem, flying), UNCHANGED <<lagConfig, carrier, cut, deaf>>,
           linkSeen' \in [LacpEnds -> BOOLEAN], lagTicked' \subseteq lagTicked \cup {s}
    PROVE  OneWayInv'
  <1>1. /\ LacpTyped /\ mem \in [LacpEnds -> MemberRecords] /\ flying \in [LacpEnds -> Pdus]
    BY Zenon DEF OneWayInv, ReadyFor
  <1>2. LacpTyped'
    BY <1>1, StepTyped, Zenon
  <1>3. \A e \in LacpEnds : Grouped(e)' = Grouped(e) /\ Settings(e)' = Settings(e)
    BY Zenon DEF Grouped, Settings, Names
  <1>4. \A e \in LacpEnds : Partner(e) \in LacpEnds /\ Partner(Partner(e)) = e
    BY PartnerFacts, Zenon
  <1>5. \A e \in LacpEnds :
           member'[e].partner = mem[e].partner /\ member'[e].rx = mem[e].rx
    BY <1>1, StepMembers, ZenonT(60)
  <1>6. \A e \in LacpEnds : pdu'[e] # flying[e] =>
           /\ Partner(e)[1] = s /\ Grouped(Partner(e)) /\ Partner(e) \notin cut
           /\ pdu'[e].sync => Current(Partner(e), mem[Partner(e)])
    BY <1>1, StepPdus, SMTT(60)
  <1>7. DeafnessIsSeen'
    BY <1>4, <1>5, <1>6, SMTT(60) DEF DeafnessIsSeen, OneWayInv, ReadyFor
  <1>8. SyncIsTimed'
    <2>1. ASSUME NEW e \in LacpEnds, Grouped(Partner(e)), pdu'[e] # NoPdu, pdu'[e].sync
          PROVE  deaf[e] < HoldTime(Settings(Partner(e)).fast)
      <3>1. CASE pdu'[e] = flying[e]
        BY <2>1, <3>1, Zenon DEF ReadyFor
      <3>2. CASE pdu'[e] # flying[e]
        <4>1. mem[Partner(e)].rx < HoldTime(Settings(Partner(e)).fast)
          BY <1>6, <2>1, <3>2, Zenon DEF Current
        <4>2. HoldTime(Settings(Partner(e)).fast) \in Nat
                /\ HoldTime(Settings(Partner(e)).fast) <= Never /\ Never \in Nat
          BY <1>1, <1>4, <2>1, SettingsFacts, HoldFacts, Zenon
        <4>3. mem[Partner(e)].rx \in Nat /\ deaf[e] \in Nat
          BY <1>1, <1>4, HoldFacts, SMTT(60) DEF MemberRecords, LacpTyped
        <4>4. mem[Partner(e)].rx >= deaf[e] \/ mem[Partner(e)].rx = Never
          BY Zenon DEF ReadyFor
        <4> QED
          BY <4>1, <4>2, <4>3, <4>4, SMTT(60)
      <3> QED
        BY <3>1, <3>2, Zenon
    <2>2. ASSUME NEW e \in LacpEnds, Grouped(Partner(e)),
                 mem[e].partner # NoPdu, mem[e].partner.sync
          PROVE  \/ mem[e].rx = Never
                 \/ deaf[e] < mem[e].rx + HoldTime(Settings(Partner(e)).fast)
      BY <2>2, Zenon DEF ReadyFor
    <2> QED
      BY <1>3, <1>4, <1>5, <2>1, <2>2, Zenon DEF SyncIsTimed
  <1>9. BundleIsFresh'
    <2> SUFFICES ASSUME NEW e \in LacpEnds, Negotiated(e)'
                 PROVE  \/ /\ e[1] \notin lagTicked'
                           /\ Grouped(Partner(e)) =>
                                 deaf[e] <= HoldTime(Settings(e).fast)
                                              + HoldTime(Settings(Partner(e)).fast)
                        \/ /\ member'[e].partner # NoPdu /\ member'[e].partner.sync
                           /\ member'[e].rx < HoldTime(Settings(e).fast)
      BY <1>3, <1>4, Zenon DEF BundleIsFresh
    <2>1. CASE e[1] = s
      BY <1>1, <2>1, StepNegotiates, Zenon
    <2>2. CASE e[1] # s
      <3>1. e[1] \in LacpSystems
        BY PartnerFacts, Zenon
      <3>2. member'[e] = member[e] /\ lag'[e[1]] = lag[e[1]]
        <4>1. mem[e] = member[e]
          BY <2>2, Zenon DEF ReadyFor
        <4>2. member'[e] = mem[e]
          BY <1>1, <2>2, StepMembers, ZenonT(60)
        <4>3. lag'[e[1]] = lag[e[1]]
          BY <1>1, <2>2, <3>1, StepLag, Zenon
        <4> QED
          BY <4>1, <4>2, <4>3, Zenon
      <3>3. Negotiated(e)
        BY <3>2, Zenon DEF Negotiated, Names, RunsLacp, Settings
      <3>4. e[1] \in lagTicked' => e[1] \in lagTicked
        BY <2>2, Zenon
      <3>5. \/ /\ e[1] \notin lagTicked
               /\ Grouped(Partner(e)) =>
                     deaf[e] <= HoldTime(Settings(e).fast)
                                  + HoldTime(Settings(Partner(e)).fast)
            \/ /\ member[e].partner # NoPdu /\ member[e].partner.sync
               /\ member[e].rx < HoldTime(Settings(e).fast)
        BY <3>3, Zenon DEF OneWayInv, BundleIsFresh
      <3> QED
        BY <3>2, <3>4, <3>5, Zenon
    <2> QED
      BY <2>1, <2>2, Zenon
  <1> QED
    BY <1>2, <1>7, <1>8, <1>9, Zenon DEF OneWayInv

-----------------------------------------------------------------------------
(* Both invariants hold in every state. *)

LacpInv == OneWayInv /\ GatesAreWhole

LEMMA InvInit == LacpInit => LacpInv
  <1> SUFFICES ASSUME LacpInit PROVE LacpInv
    BY Zenon
  <1>1. LacpTyped
    <2>1. NewMember(TRUE) \in MemberRecords
      BY HoldFacts, LacpAssumption DEF NewMember, MemberRecords, Pdus
    <2>2. DOMAIN NewLag = {"partnerless", "fallback", "gates"} /\ NewLag.gates = NoGates
      BY Zenon DEF NewLag
    <2> QED
      BY <2>1, <2>2, Zenon DEF LacpInit, LacpTyped, Pdus
  <1>2. \A e \in LacpEnds : deaf[e] = 0 /\ pdu[e] = NoPdu
    BY Zenon DEF LacpInit
  <1>3. \A e \in LacpEnds : member[e] = NewMember(TRUE) /\ Partner(e) \in LacpEnds
    BY PartnerFacts, Zenon DEF LacpInit
  <1>4. NewMember(TRUE).rx = Never /\ NewMember(TRUE).partner = NoPdu
          /\ NewMember(TRUE).bundled = FALSE
    BY Zenon DEF NewMember
  <1>5. DeafnessIsSeen
    <2>1. \A e \in LacpEnds : pdu[Partner(e)] = NoPdu /\ member[Partner(e)].rx = Never
      BY <1>2, <1>3, <1>4, Zenon
    <2> QED
      BY <1>2, <2>1, SMTT(60) DEF DeafnessIsSeen
  <1>6. SyncIsTimed
    BY <1>2, <1>3, <1>4, Zenon DEF SyncIsTimed
  <1>7. BundleIsFresh
    <2>1. \A e \in LacpEnds : ~member[e].bundled
      BY <1>3, <1>4, Zenon
    <2> QED
      BY <2>1, Zenon DEF BundleIsFresh, Negotiated
  <1>8. GatesAreWhole
    BY Zenon DEF GatesAreWhole, LacpInit
  <1> QED
    BY <1>1, <1>5, <1>6, <1>7, <1>8, Zenon DEF LacpInv, OneWayInv

LEMMA EngineTickInv ==
    ASSUME LacpInv, NEW s \in LacpSystems, LacpEngineTick(s)
    PROVE  LacpInv'
  <1>1. LacpTyped /\ OneWayInv /\ GatesAreWhole
    BY Zenon DEF LacpInv, OneWayInv
  <1>2. ReadyFor(s, member, pdu)
    BY <1>1, Zenon DEF ReadyFor, OneWayInv, LacpTyped, DeafnessIsSeen, SyncIsTimed
  <1>3. linkSeen' \in [LacpEnds -> BOOLEAN]
    BY <1>1, Zenon DEF LacpTyped, LacpEngineTick
  <1>4. OneWayInv'
    BY <1>1, <1>2, <1>3, StepOneWay, Zenon DEF LacpEngineTick
  <1>5. GatesAreWhole'
    BY <1>1, <1>2, StepKeepsWhole, Zenon DEF LacpEngineTick, ReadyFor
  <1> QED
    BY <1>4, <1>5, Zenon DEF LacpInv

\* The records with which a link event goes into step().
LEMMA LinkEventInv ==
    ASSUME LacpInv, NEW x \in LacpEnds, LacpLinkEvent(x)
    PROVE  LacpInv'
  <1>1. LacpTyped /\ OneWayInv /\ GatesAreWhole
    BY Zenon DEF LacpInv, OneWayInv
  <1> DEFINE m == IF x[2] \notin Names(x[1]) THEN member[x]
                  ELSE IF carrier[x[2]] THEN [member[x] EXCEPT !.link = TRUE]
                  ELSE [member[x] EXCEPT !.link = FALSE, !.partner = NoPdu, !.rx = Never]
             mem == [member EXCEPT ![x] = m]
  <1>2. LacpStep(x[1], mem, pdu)
    BY Zenon DEF LacpLinkEvent
  <1>3. x[1] \in LacpSystems
    BY PartnerFacts, Zenon
  <1>4. /\ m \in MemberRecords
        /\ \/ m.rx = Never /\ m.partner = NoPdu
           \/ m.rx = member[x].rx /\ m.partner = member[x].partner
    <2>1. member[x] \in MemberRecords
      BY <1>1, Zenon DEF LacpTyped
    <2>2. [member[x] EXCEPT !.link = TRUE] \in MemberRecords
            /\ [member[x] EXCEPT !.link = TRUE].rx = member[x].rx
            /\ [member[x] EXCEPT !.link = TRUE].partner = member[x].partner
      BY <2>1, Zenon DEF MemberRecords
    <2>3. NoPdu \in Pdus /\ Never \in 0..Never
      BY HoldFacts DEF Pdus
    <2>4. LET down == [member[x] EXCEPT !.link = FALSE, !.partner = NoPdu, !.rx = Never]
          IN  down \in MemberRecords /\ down.rx = Never /\ down.partner = NoPdu
      BY <2>1, <2>3, Zenon DEF MemberRecords
    <2> QED
      BY <2>1, <2>2, <2>4, Zenon
  <1>5. /\ mem \in [LacpEnds -> MemberRecords]
        /\ \A e \in LacpEnds : mem[e] = IF e = x THEN m ELSE member[e]
    BY <1>1, <1>4, ZenonT(60) DEF LacpTyped
  <1> HIDE DEF m, mem
  <1>6. ReadyFor(x[1], mem, pdu)
    BY <1>1, <1>4, <1>5, PartnerFacts, SMTT(60)
    DEF ReadyFor, OneWayInv, LacpTyped, DeafnessIsSeen, SyncIsTimed
  <1>7. linkSeen' \in [LacpEnds -> BOOLEAN]
    BY <1>1, PartnerFacts DEF LacpTyped, LacpLinkEvent
  <1>8. OneWayInv'
    BY <1>1, <1>2, <1>3, <1>6, <1>7, StepOneWay, ZenonT(60) DEF LacpLinkEvent
  <1>9. GatesAreWhole'
    BY <1>1, <1>2, <1>3, <1>6, StepKeepsWhole, SMTT(60) DEF LacpLinkEvent, ReadyFor
  <1> QED
    BY <1>8, <1>9, Zenon DEF LacpInv

LEMMA ReceiveInv ==
    ASSUME LacpInv, NEW x \in LacpEnds, LacpReceive(x)
    PROVE  LacpInv'
  <1>1. LacpTyped /\ OneWayInv /\ GatesAreWhole
    BY Zenon DEF LacpInv, OneWayInv
  <1> DEFINE m == IF x[2] \notin Names(x[1]) THEN member[x]
                  ELSE [member[x] EXCEPT !.partner = pdu[x], !.rx = 0]
             mem == [member EXCEPT ![x] = m]
             flying == [pdu EXCEPT ![x] = NoPdu]
  <1>2. LacpStep(x[1], mem, flying) /\ pdu[x] # NoPdu
    BY Zenon DEF LacpReceive
  <1>3. x[1] \in LacpSystems
    BY PartnerFacts, Zenon
  <1>4. /\ m \in MemberRecords
        /\ \/ m.rx = 0 /\ m.partner = pdu[x]
           \/ m.rx = member[x].rx /\ m.partner = member[x].partner
    <2>1. member[x] \in MemberRecords /\ pdu[x] \in Pdus
      BY <1>1, Zenon DEF LacpTyped
    <2>2. 0 \in 0..Never
      BY HoldFacts
    <2>3. LET heard == [member[x] EXCEPT !.partner = pdu[x], !.rx = 0]
          IN  heard \in MemberRecords /\ heard.rx = 0 /\ heard.partner = pdu[x]
      BY <2>1, <2>2, Zenon DEF MemberRecords
    <2> QED
      BY <2>1, <2>3, Zenon
  <1>5. /\ mem \in [LacpEnds -> MemberRecords]
        /\ \A e \in LacpEnds : mem[e] = IF e = x THEN m ELSE member[e]
    BY <1>1, <1>4, Zenon DEF LacpTyped
  <1>6. /\ flying \in [LacpEnds -> Pdus]
        /\ \A e \in LacpEnds : flying[e] = IF e = x THEN NoPdu ELSE pdu[e]
    BY <1>1, Zenon DEF LacpTyped, Pdus
  <1> HIDE DEF m, mem, flying
  <1>7. ReadyFor(x[1], mem, flying)
    <2>1. ASSUME NEW e \in LacpEnds
          PROVE  /\ e[1] # x[1] => mem[e] = member[e]
                 /\ e \in cut => flying[Partner(e)] = NoPdu
      BY <1>1, <1>5, <1>6, PartnerFacts, Zenon DEF OneWayInv, DeafnessIsSeen
    <2>2. ASSUME NEW e \in LacpEnds
          PROVE  mem[Partner(e)].rx >= deaf[e] \/ mem[Partner(e)].rx = Never
      <3>1. CASE Partner(e) = x
        <4>1. e \notin cut
          BY <1>1, <1>2, <3>1, Zenon DEF OneWayInv, DeafnessIsSeen
        <4>2. deaf[e] = 0
          BY <1>1, <4>1, SMTT(60) DEF OneWayInv, DeafnessIsSeen, LacpTyped
        <4>3. mem[x].rx \in Nat
          BY <1>5, HoldFacts, SMTT(60) DEF MemberRecords
        <4> QED
          BY <3>1, <4>2, <4>3, SMTT(60)
      <3>2. CASE Partner(e) # x
        BY <1>1, <1>5, <3>2, PartnerFacts, Zenon DEF OneWayInv, DeafnessIsSeen
      <3> QED
        BY <3>1, <3>2, Zenon
    <2>3. ASSUME NEW e \in LacpEnds, Grouped(Partner(e)), flying[e] # NoPdu, flying[e].sync
          PROVE  deaf[e] < HoldTime(Settings(Partner(e)).fast)
      BY <1>1, <1>6, <2>3, Zenon DEF OneWayInv, SyncIsTimed
    <2>4. ASSUME NEW e \in LacpEnds, Grouped(Partner(e)),
                 mem[e].partner # NoPdu, mem[e].partner.sync
          PROVE  \/ mem[e].rx = Never
                 \/ deaf[e] < mem[e].rx + HoldTime(Settings(Partner(e)).fast)
      <3>1. CASE e = x /\ m.rx = 0 /\ m.partner = pdu[x]
        <4>1. deaf[x] < HoldTime(Settings(Partner(x)).fast)
          BY <1>1, <1>2, <1>5, <2>4, <3>1, Zenon DEF OneWayInv, SyncIsTimed
        <4>2. HoldTime(Settings(Partner(x)).fast) \in Nat
          BY <1>1, <2>4, <3>1, PartnerFacts, SettingsFacts, HoldFacts, ZenonT(60)
        <4> QED
          BY <1>5, <3>1, <4>1, <4>2, SMTT(60)
      <3>2. CASE ~(e = x /\ m.rx = 0 /\ m.partner = pdu[x])
        <4>1. mem[e].rx = member[e].rx /\ mem[e].partner = member[e].partner
          BY <1>4, <1>5, <3>2, Zenon
        <4> QED
          BY <1>1, <2>4, <4>1, Zenon DEF OneWayInv, SyncIsTimed
      <3> QED
        BY <3>1, <3>2, Zenon
    <2> QED
      BY <1>5, <1>6, <2>1, <2>2, <2>3, <2>4, ZenonT(60) DEF ReadyFor
  <1>8. linkSeen' \in [LacpEnds -> BOOLEAN]
    BY <1>1, Zenon DEF LacpTyped, LacpReceive
  <1>9. OneWayInv'
    BY <1>1, <1>2, <1>3, <1>7, <1>8, StepOneWay, ZenonT(60) DEF LacpReceive
  <1>10. GatesAreWhole'
    BY <1>1, <1>2, <1>3, <1>7, StepKeepsWhole, SMTT(60) DEF LacpReceive, ReadyFor
  <1> QED
    BY <1>9, <1>10, Zenon DEF LacpInv

\* A push restarts what OneWayIsBounded measures, and the engine of that switch must
\* run again.
LEMMA SetConfigInv ==
    ASSUME LacpInv, NEW s \in LacpSystems, NEW c \in LacpConfigs, SetLagConfig(s, c)
    PROVE  LacpInv'
  <1>1. LacpTyped /\ OneWayInv /\ GatesAreWhole
    BY Zenon DEF LacpInv, OneWayInv
  <1>2. \A e \in LacpEnds :
           /\ member'[e] = member[e] \/ member'[e] = NewMember(linkSeen[e])
           /\ e[1] # s => member'[e] = member[e]
    BY Zenon DEF SetLagConfig
  <1>3. \A e \in LacpEnds : NewMember(linkSeen[e]) \in MemberRecords
    BY <1>1, HoldFacts, LacpAssumption, SMTT(60) DEF NewMember, MemberRecords, Pdus, LacpTyped
  <1>4. /\ lagConfig' \in [LacpSystems -> LacpConfigs \cup LacpStarts]
        /\ \A t \in LacpSystems : t # s => lagConfig'[t] = lagConfig[t]
    BY <1>1, Zenon DEF SetLagConfig, LacpTyped
  <1>5. \A e \in LacpEnds : deaf'[e] = 0
    BY Zenon DEF SetLagConfig
  <1>6. /\ \A t \in LacpSystems : lag'[t] = lag[t] \/ lag'[t] = NewLag
        /\ \A t \in LacpSystems : t # s => lag'[t] = lag[t]
        /\ DOMAIN lag' = LacpSystems
    BY <1>1, Zenon DEF SetLagConfig, LacpTyped
  <1>7. DOMAIN NewLag = {"partnerless", "fallback", "gates"} /\ NewLag.gates = NoGates
    BY Zenon DEF NewLag
  <1>8. LacpTyped'
    <2>1. member' \in [LacpEnds -> MemberRecords]
      <3>1. \A e \in LacpEnds : member'[e] \in MemberRecords
        BY <1>1, <1>2, <1>3, Zenon DEF LacpTyped
      <3>2. member' = [e \in LacpEnds |-> member'[e]]
        BY Zenon DEF SetLagConfig
      <3> QED
        BY <3>1, <3>2, Zenon
    <2>2. deaf' \in [LacpEnds -> Nat]
      BY Zenon DEF SetLagConfig
    <2>3. \A t \in LacpSystems :
             /\ DOMAIN lag'[t] = {"partnerless", "fallback", "gates"}
             /\ lag'[t].gates # NoGates => DOMAIN lag'[t].gates \subseteq LacpMembers
      BY <1>1, <1>6, <1>7, Zenon DEF LacpTyped
    <2>4. UNCHANGED <<linkSeen, pdu, carrier, cut>>
      BY Zenon DEF SetLagConfig
    <2> QED
      BY <1>1, <1>4, <1>6, <2>1, <2>2, <2>3, <2>4, Zenon DEF LacpTyped
  <1>9. \A e \in LacpEnds : member'[e].rx \in Nat
    BY <1>8, HoldFacts, SMTT(60) DEF LacpTyped, MemberRecords
  <1>10. UNCHANGED <<pdu, cut>> /\ lagTicked' = lagTicked \ {s}
    BY Zenon DEF SetLagConfig
  <1>11. DeafnessIsSeen'
    BY <1>1, <1>5, <1>9, <1>10, PartnerFacts, SMTT(60) DEF OneWayInv, DeafnessIsSeen
  <1>12. \A e \in LacpEnds : Grouped(e)' =>
            HoldTime(Settings(e).fast)' \in Nat /\ HoldTime(Settings(e).fast)' >= 3
    <2>1. ASSUME NEW e \in LacpEnds, Grouped(e)'
          PROVE  Settings(e)'.fast \in BOOLEAN
      BY <1>4, <2>1, LacpAssumption, PartnerFacts, Zenon DEF Grouped, Settings, Names
    <2> QED
      BY <2>1, HoldFacts, Zenon
  <1>13. SyncIsTimed'
    BY <1>5, <1>9, <1>12, PartnerFacts, SMTT(60) DEF SyncIsTimed
  <1>14. BundleIsFresh'
    <2> SUFFICES ASSUME NEW e \in LacpEnds, Negotiated(e)'
                 PROVE  \/ /\ e[1] \notin lagTicked'
                           /\ Grouped(Partner(e))' =>
                                 deaf'[e] <= HoldTime(Settings(e)'.fast)
                                               + HoldTime(Settings(Partner(e))'.fast)
                        \/ /\ member'[e].partner # NoPdu /\ member'[e].partner.sync
                           /\ member'[e].rx < HoldTime(Settings(e)'.fast)
      BY Zenon DEF BundleIsFresh
    <2>1. Grouped(e)'
      BY Zenon DEF Negotiated, Grouped
    <2>2. Grouped(Partner(e))' =>
            deaf'[e] <= HoldTime(Settings(e)'.fast) + HoldTime(Settings(Partner(e))'.fast)
      BY <1>5, <1>12, <2>1, PartnerFacts, SMTT(60)
    <2>3. CASE e[1] = s
      BY <1>10, <2>2, <2>3, Zenon
    <2>4. CASE e[1] # s
      <3>1. e[1] \in LacpSystems
        BY PartnerFacts, Zenon
      <3>2. member'[e] = member[e] /\ lag'[e[1]] = lag[e[1]]
              /\ lagConfig'[e[1]] = lagConfig[e[1]]
        BY <1>2, <1>4, <1>6, <2>4, <3>1, Zenon
      <3>3. Negotiated(e) /\ Settings(e)' = Settings(e)
        BY <3>2, Zenon DEF Negotiated, Names, RunsLacp, Settings
      <3>4. CASE e[1] \notin lagTicked
        BY <1>10, <2>2, <3>4, Zenon
      <3>5. CASE e[1] \in lagTicked
        <4>1. /\ member[e].partner # NoPdu /\ member[e].partner.sync
              /\ member[e].rx < HoldTime(Settings(e).fast)
          BY <1>1, <3>3, <3>5, Zenon DEF OneWayInv, BundleIsFresh
        <4> QED
          BY <3>2, <3>3, <4>1, Zenon
      <3> QED
        BY <3>4, <3>5, Zenon
    <2> QED
      BY <2>3, <2>4, Zenon
  <1>15. GatesAreWhole'
    <2>1. ASSUME NEW t \in LacpSystems, lag'[t].gates # NoGates, t \in lagTicked'
          PROVE  GroupIsWhole(t)'
      <3>1. t # s /\ t \in lagTicked
        BY <1>10, <2>1, Zenon
      <3>2. lag'[t] = lag[t] /\ lagConfig'[t] = lagConfig[t]
        BY <1>4, <1>6, <3>1, Zenon
      <3>3. GroupIsWhole(t)
        BY <1>1, <2>1, <3>1, <3>2, Zenon DEF GatesAreWhole, GroupIsWhole
      <3>4. \A e \in LacpEnds : e[1] = t => member'[e] = member[e]
        BY <1>2, <3>1, Zenon
      <3> QED
        BY <1>1, <2>1, <3>2, <3>3, <3>4, OtherIsWhole, Zenon
    <2> QED
      BY <2>1, Zenon DEF GatesAreWhole, GroupIsWhole
  <1> QED
    BY <1>8, <1>11, <1>13, <1>14, <1>15, Zenon DEF LacpInv, OneWayInv

LEMMA PullInv ==
    ASSUME LacpInv, NEW n \in LacpMembers, PullOrPlug(n)
    PROVE  LacpInv'
  <1>1. LacpTyped'
    BY Zenon DEF LacpInv, OneWayInv, LacpTyped, PullOrPlug
  <1>2. UNCHANGED <<lagConfig, member, lag, pdu, cut, deaf, lagTicked>>
    BY Zenon DEF PullOrPlug
  <1>3. DeafnessIsSeen' /\ SyncIsTimed'
    BY <1>2, Zenon DEF LacpInv, OneWayInv, DeafnessIsSeen, SyncIsTimed, Grouped, Names, Settings
  <1>4. BundleIsFresh'
    BY <1>2, Zenon DEF LacpInv, OneWayInv, BundleIsFresh, Negotiated, RunsLacp, Grouped, Names, Settings
  <1>5. GatesAreWhole'
    BY <1>2, ZenonT(60) DEF LacpInv, GatesAreWhole, AnyPartner, Current, Names, Settings
  <1> QED
    BY <1>1, <1>3, <1>4, <1>5, Zenon DEF LacpInv, OneWayInv

LEMMA CutInv ==
    ASSUME LacpInv, NEW x \in LacpEnds, CutOrHeal(x)
    PROVE  LacpInv'
  <1>1. LacpTyped /\ OneWayInv /\ GatesAreWhole
    BY Zenon DEF LacpInv, OneWayInv
  <1>2. UNCHANGED <<lagConfig, member, lag, pdu, lagTicked>>
          /\ \A e \in LacpEnds : pdu[e] = NoPdu
    BY Zenon DEF CutOrHeal, Quiet
  <1>3. /\ deaf' \in [LacpEnds -> Nat]
        /\ \A e \in LacpEnds : deaf'[e] = IF e = x THEN 0 ELSE deaf[e]
        /\ \A e \in LacpEnds : e # x => (e \in cut' <=> e \in cut)
    BY <1>1, Zenon DEF CutOrHeal, LacpTyped
  <1>4. LacpTyped'
    BY <1>1, <1>2, <1>3, Zenon DEF LacpTyped, CutOrHeal
  <1>5. \A e \in LacpEnds : deaf'[e] \in Nat /\ deaf[e] \in Nat /\ deaf'[e] <= deaf[e]
    BY <1>1, <1>3, SMTT(60) DEF LacpTyped
  <1>6. DeafnessIsSeen'
    <2>1. \A e \in LacpEnds : member[Partner(e)].rx \in Nat /\ Partner(e) \in LacpEnds
      BY <1>1, HoldFacts, PartnerFacts, SMTT(60) DEF LacpTyped, MemberRecords
    <2>2. ASSUME NEW e \in LacpEnds
          PROVE  /\ deaf'[e] > 0 => e \in cut'
                 /\ pdu'[Partner(e)] = NoPdu
                 /\ member'[Partner(e)].rx >= deaf'[e] \/ member'[Partner(e)].rx = Never
      BY <1>1, <1>2, <1>3, <1>5, <2>1, SMTT(60) DEF OneWayInv, DeafnessIsSeen
    <2> QED
      BY <2>2, Zenon DEF DeafnessIsSeen
  <1>7. \A e \in LacpEnds : /\ Grouped(e)' = Grouped(e) /\ Settings(e)' = Settings(e)
                            /\ Negotiated(e)' = Negotiated(e)
    BY <1>2, ZenonT(60) DEF Grouped, Settings, Names, Negotiated, RunsLacp
  <1>8. \A e \in LacpEnds : Grouped(e) => HoldTime(Settings(e).fast) \in Nat
    BY <1>1, SettingsFacts, HoldFacts, Zenon
  <1>9. SyncIsTimed'
    <2>1. ASSUME NEW e \in LacpEnds, Grouped(Partner(e)),
                 member[e].partner # NoPdu, member[e].partner.sync
          PROVE  \/ member[e].rx = Never
                 \/ deaf'[e] < member[e].rx + HoldTime(Settings(Partner(e)).fast)
      <3>1. \/ member[e].rx = Never
            \/ deaf[e] < member[e].rx + HoldTime(Settings(Partner(e)).fast)
        BY <1>1, <2>1, ZenonT(60) DEF OneWayInv, SyncIsTimed
      <3>2. member[e].rx \in Nat /\ HoldTime(Settings(Partner(e)).fast) \in Nat
        <4>1. member[e] \in MemberRecords /\ HoldTime(Settings(Partner(e)).fast) \in Nat
          BY <1>1, <1>8, <2>1, PartnerFacts, Zenon DEF LacpTyped
        <4> QED
          BY <4>1, HoldFacts DEF MemberRecords
      <3> QED
        BY <1>5, <3>1, <3>2, SMTT(60)
    <2> QED
      BY <1>2, <1>7, <2>1, PartnerFacts, SMTT(60) DEF SyncIsTimed
  <1>10. BundleIsFresh'
    <2>1. ASSUME NEW e \in LacpEnds, Grouped(e), Grouped(Partner(e)),
                 deaf[e] <= HoldTime(Settings(e).fast) + HoldTime(Settings(Partner(e)).fast)
          PROVE  deaf'[e] <= HoldTime(Settings(e).fast) + HoldTime(Settings(Partner(e)).fast)
      <3>1. HoldTime(Settings(e).fast) \in Nat /\ HoldTime(Settings(Partner(e)).fast) \in Nat
        BY <1>8, <2>1, PartnerFacts, Zenon
      <3> QED
        BY <1>5, <2>1, <3>1, SMTT(60)
    <2>2. \A e \in LacpEnds : Negotiated(e) => Grouped(e)
      BY Zenon DEF Negotiated, Grouped
    <2> QED
      BY <1>1, <1>2, <1>7, <2>1, <2>2, PartnerFacts, SMTT(60) DEF OneWayInv, BundleIsFresh
  <1>11. GatesAreWhole'
    BY <1>1, <1>2, ZenonT(60) DEF GatesAreWhole, AnyPartner, Current, Names, Settings
  <1> QED
    BY <1>4, <1>6, <1>9, <1>10, <1>11, Zenon DEF LacpInv, OneWayInv

\* A unit of time passes only when both engines have run and nothing is in flight.
LEMMA TickInv ==
    ASSUME LacpInv, LacpTick
    PROVE  LacpInv'
  <1>1. LacpTyped /\ OneWayInv
    BY Zenon DEF LacpInv, OneWayInv
  <1>2. /\ UNCHANGED <<lagConfig, linkSeen, pdu, carrier, cut>> /\ lagTicked' = {}
        /\ lagTicked = LacpSystems /\ \A e \in LacpEnds : pdu[e] = NoPdu
    BY Zenon DEF LacpTick
  <1>3. ASSUME NEW e \in LacpEnds
        PROVE  /\ member'[e] \in MemberRecords /\ member'[e].partner = member[e].partner
               /\ member'[e].bundled = member[e].bundled
               /\ member'[e].rx = Capped(member[e].rx, Never)
    <2>1. member'[e] = [member[e] EXCEPT !.rx = Capped(@, Never), !.tx = Capped(@, SlowInterval)]
      BY Zenon DEF LacpTick
    <2>2. member[e] \in MemberRecords
      BY <1>1, Zenon DEF LacpTyped
    <2>3. Capped(member[e].rx, Never) \in 0..Never /\ Capped(member[e].tx, SlowInterval) \in Nat
      BY <2>2, HoldFacts, LacpAssumption, SMTT(60) DEF MemberRecords, Capped
    <2> QED
      BY <2>1, <2>2, <2>3, Zenon DEF MemberRecords
  <1>4. ASSUME NEW e \in LacpEnds
        PROVE  /\ deaf'[e] \in Nat /\ deaf[e] \in Nat /\ deaf'[e] <= deaf[e] + 1
               /\ deaf'[e] > 0 => e \in cut
    <2>1. deaf'[e] = IF e \in cut THEN Capped(deaf[e], MaxDeaf) ELSE 0
      BY Zenon DEF LacpTick
    <2>2. deaf[e] \in Nat /\ MaxDeaf \in Nat
      <3>1. MaxDeaf = 2 * Never + 1
        BY Zenon DEF MaxDeaf, Never
      <3> QED
        BY <1>1, <3>1, HoldFacts, SMTT(60) DEF LacpTyped
    <2>3. Capped(deaf[e], MaxDeaf) \in Nat /\ Capped(deaf[e], MaxDeaf) <= deaf[e] + 1
      BY <2>2, SMTT(60) DEF Capped
    <2> QED
      BY <2>1, <2>2, <2>3, SMTT(60)
  <1>5. ASSUME NEW s \in LacpSystems
        PROVE  /\ DOMAIN lag'[s] = {"partnerless", "fallback", "gates"}
               /\ lag'[s].gates = lag[s].gates /\ lag'[s].fallback = lag[s].fallback
    BY <1>1, Zenon DEF LacpTick, LacpTyped
  <1>6. LacpTyped'
    <2>1. member' \in [LacpEnds -> MemberRecords] /\ deaf' \in [LacpEnds -> Nat]
      <3>1. member' = [e \in LacpEnds |-> member'[e]] /\ deaf' = [e \in LacpEnds |-> deaf'[e]]
        BY Zenon DEF LacpTick
      <3> QED
        BY <1>3, <1>4, <3>1, Zenon
    <2>2. DOMAIN lag' = LacpSystems
      BY Zenon DEF LacpTick
    <2> QED
      BY <1>1, <1>2, <1>5, <2>1, <2>2, Zenon DEF LacpTyped
  <1>7. \A e \in LacpEnds : /\ member[e].rx \in Nat /\ member[e].rx <= Never
                            /\ Partner(e) \in LacpEnds
    BY <1>1, HoldFacts, PartnerFacts, SMTT(60) DEF LacpTyped, MemberRecords
  <1>8. DeafnessIsSeen'
    <2>1. ASSUME NEW e \in LacpEnds
          PROVE  member'[Partner(e)].rx >= deaf'[e] \/ member'[Partner(e)].rx = Never
      BY <1>1, <1>3, <1>4, <1>7, HoldFacts, SMTT(60) DEF OneWayInv, DeafnessIsSeen, Capped
    <2> QED
      BY <1>2, <1>4, <1>7, <2>1, ZenonT(60) DEF DeafnessIsSeen
  <1>9. \A e \in LacpEnds : /\ Grouped(e)' = Grouped(e) /\ Settings(e)' = Settings(e)
                            /\ Negotiated(e)' = Negotiated(e)
    BY <1>2, <1>3, <1>5, PartnerFacts, ZenonT(60) DEF Grouped, Settings, Names, Negotiated, RunsLacp
  <1>10. \A e \in LacpEnds : Grouped(e) =>
            HoldTime(Settings(e).fast) \in Nat /\ HoldTime(Settings(e).fast) <= Never
    BY <1>1, SettingsFacts, HoldFacts, Zenon
  <1>11. SyncIsTimed'
    <2>1. ASSUME NEW e \in LacpEnds, Grouped(Partner(e)),
                 member[e].partner # NoPdu, member[e].partner.sync
          PROVE  \/ member'[e].rx = Never
                 \/ deaf'[e] < member'[e].rx + HoldTime(Settings(Partner(e)).fast)
      <3>1. \/ member[e].rx = Never
            \/ deaf[e] < member[e].rx + HoldTime(Settings(Partner(e)).fast)
        BY <1>1, <2>1, Zenon DEF OneWayInv, SyncIsTimed
      <3>2. HoldTime(Settings(Partner(e)).fast) \in Nat
        BY <1>7, <1>10, <2>1, Zenon
      <3>3. member'[e].rx = IF member[e].rx < Never THEN member[e].rx + 1 ELSE Never
        BY <1>3, Zenon DEF Capped
      <3> QED
        BY <1>4, <1>7, <3>1, <3>2, <3>3, HoldFacts, SMTT(60)
    <2> QED
      BY <1>2, <1>3, <1>7, <1>9, <2>1, ZenonT(60) DEF SyncIsTimed
  <1>12. BundleIsFresh'
    <2>1. ASSUME NEW e \in LacpEnds, Negotiated(e), Grouped(Partner(e))
          PROVE  deaf'[e] <= HoldTime(Settings(e).fast) + HoldTime(Settings(Partner(e)).fast)
      <3>1. Grouped(e) /\ e[1] \in lagTicked
        BY <1>2, <2>1, PartnerFacts, Zenon DEF Negotiated, Grouped
      <3>2. /\ member[e].partner # NoPdu /\ member[e].partner.sync
            /\ member[e].rx < HoldTime(Settings(e).fast)
        BY <1>1, <2>1, <3>1, Zenon DEF OneWayInv, BundleIsFresh
      <3>3. /\ HoldTime(Settings(e).fast) \in Nat /\ HoldTime(Settings(e).fast) <= Never
            /\ HoldTime(Settings(Partner(e)).fast) \in Nat
        BY <1>7, <1>10, <2>1, <3>1, Zenon
      <3>4. \/ member[e].rx = Never
            \/ deaf[e] < member[e].rx + HoldTime(Settings(Partner(e)).fast)
        BY <1>1, <2>1, <3>2, Zenon DEF OneWayInv, SyncIsTimed
      <3> QED
        BY <1>4, <1>7, <3>2, <3>3, <3>4, HoldFacts, SMTT(60)
    <2> QED
      BY <1>2, <1>7, <1>9, <2>1, ZenonT(60) DEF BundleIsFresh
  <1>13. GatesAreWhole'
    BY <1>2, Zenon DEF GatesAreWhole
  <1> QED
    BY <1>6, <1>8, <1>11, <1>12, <1>13, Zenon DEF LacpInv, OneWayInv

LEMMA InvStep == LacpInv /\ [LacpNext]_lacpVars => LacpInv'
  <1> SUFFICES ASSUME LacpInv, [LacpNext]_lacpVars PROVE LacpInv'
    BY Zenon
  <1>1. CASE LacpNext
    BY <1>1, EngineTickInv, LinkEventInv, ReceiveInv, SetConfigInv, PullInv, CutInv, TickInv, ZenonT(60)
    DEF LacpNext
  <1>2. CASE UNCHANGED lacpVars
    <2>1. LacpTyped' /\ DeafnessIsSeen'
      BY <1>2, Zenon DEF lacpVars, LacpInv, OneWayInv, LacpTyped, DeafnessIsSeen
    <2>2. SyncIsTimed'
      BY <1>2, Zenon DEF lacpVars, LacpInv, OneWayInv, SyncIsTimed, Grouped, Names, Settings
    <2>3. BundleIsFresh'
      BY <1>2, Zenon DEF lacpVars, LacpInv, OneWayInv, BundleIsFresh, Negotiated, RunsLacp, Grouped,
                  Names, Settings
    <2>4. GatesAreWhole'
      BY <1>2, ZenonT(60) DEF lacpVars, LacpInv, GatesAreWhole, AnyPartner, Current, Names, Settings
    <2> QED
      BY <2>1, <2>2, <2>3, <2>4, Zenon DEF LacpInv, OneWayInv
  <1> QED
    BY <1>1, <1>2, Zenon

LEMMA InvImplies == LacpInv => OneWayIsBounded /\ GatesAreWhole
  <1> SUFFICES ASSUME LacpInv PROVE OneWayIsBounded
    BY Zenon DEF LacpInv
  <1> SUFFICES ASSUME NEW e \in LacpEnds, Negotiated(e), Grouped(Partner(e))
               PROVE  deaf[e] <= HoldTime(Settings(e).fast) + HoldTime(Settings(Partner(e)).fast)
    BY Zenon DEF OneWayIsBounded, Grouped
  <1>1. LacpTyped /\ OneWayInv /\ Grouped(e) /\ Partner(e) \in LacpEnds
    BY PartnerFacts, Zenon DEF LacpInv, OneWayInv, Negotiated, Grouped
  <1>2. /\ HoldTime(Settings(e).fast) \in Nat /\ HoldTime(Settings(e).fast) <= Never
        /\ HoldTime(Settings(Partner(e)).fast) \in Nat /\ Never \in Nat
    BY <1>1, SettingsFacts, HoldFacts, Zenon
  <1>3. member[e].rx \in Nat /\ deaf[e] \in Nat
    BY <1>1, HoldFacts, SMTT(60) DEF LacpTyped, MemberRecords
  <1>4. CASE /\ member[e].partner # NoPdu /\ member[e].partner.sync
             /\ member[e].rx < HoldTime(Settings(e).fast)
    <2>1. \/ member[e].rx = Never
          \/ deaf[e] < member[e].rx + HoldTime(Settings(Partner(e)).fast)
      BY <1>1, <1>4, Zenon DEF OneWayInv, SyncIsTimed
    <2> QED
      BY <1>2, <1>3, <1>4, <2>1, SMTT(60)
  <1> QED
    BY <1>1, <1>4, Zenon DEF OneWayInv, BundleIsFresh

\* A cable that carries frames one way only leaves a negotiated bundle within the hold
\* times of its two ends, whatever the rates, fallbacks and pushes (lacp.rs,
\* partner_current, actor_state_bits and step).
THEOREM OneWayIsAlwaysBounded == LacpSpec => []OneWayIsBounded
  <1>1. LacpInit /\ [][LacpNext]_lacpVars => []LacpInv
    BY InvInit, InvStep, PTL
  <1> QED
    BY <1>1, InvImplies, PTL DEF LacpSpec

\* The gates the engine has sent are at least min-links, none, or the one individual
\* member, and fallback opens none while a partner is heard (lacp.rs, step).
THEOREM GatesAreAlwaysWhole == LacpSpec => []GatesAreWhole
  <1>1. LacpInit /\ [][LacpNext]_lacpVars => []LacpInv
    BY InvInit, InvStep, PTL
  <1> QED
    BY <1>1, InvImplies, PTL DEF LacpSpec
=============================================================================
