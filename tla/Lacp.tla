-------------------------------- MODULE Lacp --------------------------------
(***************************************************************************)
(* The LACP engine of hemlock-orch (lacp.rs), run by the two switches at   *)
(* the ends of one port channel.  Every event (tick, link event, LACPDU,   *)
(* wake-up after a configuration push) ends with one evaluation pass,      *)
(* step(), that chooses the gates and sends the LACPDUs that are due.      *)
(*                                                                         *)
(* Time is discrete, as in Stp: a unit ends when both engines have run and *)
(* every LACPDU and link event of the unit was handled.  The fast interval *)
(* is one unit.  Of a LACPDU only the bits that steer the receiver are     *)
(* kept: SYNC and TIMEOUT.  The state of a cable is its carrier, which     *)
(* both ends see, and for each direction whether frames get through.       *)
(***************************************************************************)
EXTENDS Integers, FiniteSets

CONSTANTS
    LacpSystems,    \* the two switches
    LacpMembers,    \* the cables, numbered like the ports they join
    LacpConfigs,    \* the configurations a switch may be given
    LacpStarts,     \* the ones it may start with
    SlowInterval,   \* the slow interval, in fast ones
    MaxLacpEvents   \* cables that fail or heal and configuration pushes

\* LagConfig: a group that is not configured has no members.
ASSUME LacpAssumption ==
    /\ \E s \in LacpSystems : \E t \in LacpSystems \ {s} : LacpSystems = {s, t}
    /\ LacpMembers \subseteq Nat /\ IsFiniteSet(LacpMembers)
    /\ SlowInterval \in Nat \ {0} /\ MaxLacpEvents \in Nat
    /\ \A c \in LacpConfigs \cup LacpStarts :
          /\ c.minLinks \in Nat /\ c.fallbackTimeout \in Nat /\ c.present \in BOOLEAN
          /\ c.fallback \in {"none", "static", "individual"}
          /\ DOMAIN c.members \subseteq LacpMembers
          /\ c.present \/ DOMAIN c.members = {}
          /\ \A n \in DOMAIN c.members :
                /\ c.members[n].mode \in {"on", "active", "passive"}
                /\ c.members[n].fast \in BOOLEAN /\ c.members[n].priority \in Nat

VARIABLES
    lagConfig,      \* lag.config of each switch
    member,         \* the Member records
    lag,            \* the rest of Lag: partnerless, fallback, lastGates
    linkSeen,       \* inner.link_states
    pdu,            \* the LACPDU in flight towards each end
    carrier,        \* is this cable lit?
    cut,            \* the ends whose frames vanish
    deaf,           \* how long the frames of an end have vanished, under the
                    \* same configurations
    lagTicked,      \* the switches whose tick of this unit has run
    lacpEvents      \* how many of MaxLacpEvents have happened

lacpVars == <<lagConfig, member, lag, linkSeen, pdu, carrier, cut, deaf,
              lagTicked, lacpEvents>>

LacpEnds == LacpSystems \X LacpMembers
Partner(end) == <<CHOOSE t \in LacpSystems : t # end[1], end[2]>>

NoPdu == <<>>
NoGates == <<>>

Interval(fast) == IF fast THEN 1 ELSE SlowInterval
\* partner_current: three times the interval this end asks for.
HoldTime(fast) == 3 * Interval(fast)
\* The age of a LACPDU that was never heard.
Never == HoldTime(FALSE)

NewMember(up) ==
    [link |-> up, partner |-> NoPdu, rx |-> Never, tx |-> SlowInterval,
     bundled |-> FALSE, individual |-> FALSE]

NewLag == [partnerless |-> 0, fallback |-> FALSE, gates |-> NoGates]

Names(s) == DOMAIN lagConfig[s].members
Settings(end) == lagConfig[end[1]].members[end[2]]

Current(end, m) == m.rx < HoldTime(Settings(end).fast)

\* Mutant: SYNC is sent as soon as the link is up.
ActorSyncEager(end, m) == m.link

\* The SYNC bit of actor_state_bits.
ActorSync(end, m) == m.link /\ (Current(end, m) \/ Settings(end).mode = "on")

\* The first member's mode decides whether the group runs LACP at all.
RunsLacp(s) ==
    \A n \in Names(s) : (\A k \in Names(s) : n <= k) => Settings(<<s, n>>).mode # "on"
-----------------------------------------------------------------------------
(* step() of switch s over the member records `mem`. *)

AnyPartner(s, mem) == \E n \in Names(s) : Current(<<s, n>>, mem[<<s, n>>])

Partnerless(s, mem) == IF AnyPartner(s, mem) THEN 0 ELSE lag[s].partnerless

\* Mutant: the fallback clock does not look at the partners.
FallbackArmedDeaf(s, mem) ==
    /\ RunsLacp(s)
    /\ lagConfig[s].fallback # "none"
    /\ lag[s].partnerless >= lagConfig[s].fallbackTimeout

FallbackArmed(s, mem) ==
    /\ RunsLacp(s)
    /\ lagConfig[s].fallback # "none"
    /\ ~AnyPartner(s, mem)
    /\ Partnerless(s, mem) >= lagConfig[s].fallbackTimeout

\* The live member with the lowest (port priority, port number).
LoneMember(s, mem) ==
    LET live == {n \in Names(s) : mem[<<s, n>>].link}
        priority(n) == Settings(<<s, n>>).priority
    IN  {n \in live : \A k \in live : \/ priority(n) < priority(k)
                                      \/ priority(n) = priority(k) /\ n <= k}

\* The members that step() selects, before min-links.
Selected(s, mem) ==
    IF ~RunsLacp(s) THEN {n \in Names(s) : mem[<<s, n>>].link}
    ELSE IF FallbackArmed(s, mem)
    THEN IF lagConfig[s].fallback = "static"
         THEN {n \in Names(s) : mem[<<s, n>>].link}
         ELSE LoneMember(s, mem)
    ELSE {n \in Names(s) : LET m == mem[<<s, n>>]
                           IN  /\ m.link /\ Current(<<s, n>>, m)
                               /\ m.partner # NoPdu /\ m.partner.sync}

Individual(s, mem) ==
    IF FallbackArmed(s, mem) /\ lagConfig[s].fallback = "individual"
    THEN LoneMember(s, mem) ELSE {}

\* min-links closes the whole aggregate; an individual port is exempt.
OpenGates(s, mem) ==
    LET individual == Individual(s, mem)
        bundled == Selected(s, mem) \ individual
    IN  IF Cardinality(bundled) < lagConfig[s].minLinks
        THEN individual ELSE bundled \cup individual

\* Mutant: a passive end never speaks.
DueActive(end, m) ==
    LET current == Current(end, m)
        fast == IF current /\ m.partner # NoPdu THEN m.partner.fast ELSE Settings(end).fast
    IN  /\ m.link
        /\ Settings(end).mode = "active"
        /\ m.tx >= Interval(fast)

\* Is a LACPDU due?  The partner's TIMEOUT bit sets the pace while it is current.
Due(end, m) ==
    LET current == Current(end, m)
        fast == IF current /\ m.partner # NoPdu THEN m.partner.fast ELSE Settings(end).fast
    IN  /\ m.link
        /\ Settings(end).mode = "active" \/ current
        /\ m.tx >= Interval(fast)

LacpStep(s, mem, flying) ==
    LET open == OpenGates(s, mem)
        gated == [n \in Names(s) |->
                     [mem[<<s, n>>] EXCEPT !.bundled = n \in open,
                                           !.individual = n \in Individual(s, mem)]]
        sends == {n \in Names(s) : RunsLacp(s) /\ Due(<<s, n>>, gated[n])}
        Frame(n) == [sync |-> ActorSync(<<s, n>>, gated[n]), fast |-> Settings(<<s, n>>).fast]
    IN  /\ member' = [e \in LacpEnds |->
                         IF e[1] # s \/ e[2] \notin Names(s) THEN mem[e]
                         ELSE IF e[2] \in sends THEN [gated[e[2]] EXCEPT !.tx = 0]
                         ELSE gated[e[2]]]
        /\ lag' = [lag EXCEPT ![s] =
                      IF ~lagConfig[s].present THEN NewLag
                      ELSE [partnerless |-> Partnerless(s, mem),
                            fallback |-> FallbackArmed(s, mem),
                            gates |-> [n \in Names(s) |-> n \in open]]]
        /\ pdu' = [e \in LacpEnds |->
                      IF /\ Partner(e)[1] = s /\ e[2] \in sends
                         /\ carrier[e[2]] /\ Partner(e) \notin cut
                      THEN Frame(e[2]) ELSE flying[e]]
-----------------------------------------------------------------------------
(* Events. *)

\* Both groups are configured, their links are up and nothing was sent yet.
LacpInit ==
    /\ lagConfig \in [LacpSystems -> LacpStarts]
    /\ carrier = [n \in LacpMembers |-> TRUE]
    /\ linkSeen = [e \in LacpEnds |-> TRUE]
    /\ member = [e \in LacpEnds |-> NewMember(TRUE)]
    /\ lag = [s \in LacpSystems |-> NewLag]
    /\ pdu = [e \in LacpEnds |-> NoPdu]
    /\ cut = {} /\ deaf = [e \in LacpEnds |-> 0]
    /\ lagTicked = {} /\ lacpEvents = 0

\* The interval tick, or the wake-up after a configuration push.
LacpEngineTick(s) ==
    /\ s \notin lagTicked
    /\ lagTicked' = lagTicked \cup {s}
    /\ LacpStep(s, member, pdu)
    /\ UNCHANGED <<lagConfig, linkSeen, carrier, cut, deaf, lacpEvents>>

\* A link event: a member that goes down forgets its partner.
LacpLinkEvent(e) ==
    /\ linkSeen[e] # carrier[e[2]]
    /\ linkSeen' = [linkSeen EXCEPT ![e] = carrier[e[2]]]
    /\ LET m == IF e[2] \notin Names(e[1]) THEN member[e]
                ELSE IF carrier[e[2]] THEN [member[e] EXCEPT !.link = TRUE]
                ELSE [member[e] EXCEPT !.link = FALSE, !.partner = NoPdu, !.rx = Never]
       IN  LacpStep(e[1], [member EXCEPT ![e] = m], pdu)
    /\ UNCHANGED <<lagConfig, carrier, cut, deaf, lagTicked, lacpEvents>>

\* A LACPDU: remembered if its port belongs to a group.
LacpReceive(e) ==
    /\ pdu[e] # NoPdu
    /\ LET m == IF e[2] \notin Names(e[1]) THEN member[e]
                ELSE [member[e] EXCEPT !.partner = pdu[e], !.rx = 0]
       IN  LacpStep(e[1], [member EXCEPT ![e] = m], [pdu EXCEPT ![e] = NoPdu])
    /\ UNCHANGED <<lagConfig, linkSeen, carrier, cut, deaf, lagTicked, lacpEvents>>

\* set_configs: a group that stays keeps the runtime state of the members that
\* stay; a new member takes its link from link_states.  The wake-up makes the
\* engine run step() later.
SetLagConfig(s, c) ==
    /\ lacpEvents < MaxLacpEvents
    /\ c # lagConfig[s]
    /\ lacpEvents' = lacpEvents + 1
    /\ lagConfig' = [lagConfig EXCEPT ![s] = c]
    /\ member' = [e \in LacpEnds |->
                     IF e[1] # s \/ e[2] \in Names(s) \cap DOMAIN c.members THEN member[e]
                     ELSE NewMember(linkSeen[e])]
    /\ lag' = [lag EXCEPT ![s] = IF lagConfig[s].present /\ c.present THEN @ ELSE NewLag]
    /\ deaf' = [e \in LacpEnds |-> 0]
    /\ lagTicked' = lagTicked \ {s}
    /\ UNCHANGED <<linkSeen, pdu, carrier, cut>>

\* The environment: between two units of time a cable loses or regains its
\* carrier, or one of its directions fails or heals.
Quiet == lagTicked = {} /\ \A e \in LacpEnds : pdu[e] = NoPdu

PullOrPlug(n) ==
    /\ lacpEvents < MaxLacpEvents /\ Quiet
    /\ lacpEvents' = lacpEvents + 1
    /\ carrier' = [carrier EXCEPT ![n] = ~@]
    /\ UNCHANGED <<lagConfig, member, lag, linkSeen, pdu, cut, deaf, lagTicked>>

CutOrHeal(e) ==
    /\ lacpEvents < MaxLacpEvents /\ Quiet
    /\ lacpEvents' = lacpEvents + 1
    /\ cut' = (cut \ {e}) \cup ({e} \ cut)
    /\ deaf' = [deaf EXCEPT ![e] = 0]
    /\ UNCHANGED <<lagConfig, member, lag, linkSeen, pdu, carrier, lagTicked>>

Capped(n, cap) == IF n < cap THEN n + 1 ELSE cap

MaxDeaf == 2 * HoldTime(FALSE) + 1

LacpTick ==
    /\ lagTicked = LacpSystems
    /\ \A e \in LacpEnds : pdu[e] = NoPdu /\ linkSeen[e] = carrier[e[2]]
    /\ lagTicked' = {}
    /\ member' = [e \in LacpEnds |-> [member[e] EXCEPT !.rx = Capped(@, Never),
                                                       !.tx = Capped(@, SlowInterval)]]
    /\ lag' = [s \in LacpSystems |->
                  [lag[s] EXCEPT !.partnerless = Capped(@, lagConfig[s].fallbackTimeout)]]
    /\ deaf' = [e \in LacpEnds |-> IF e \in cut THEN Capped(deaf[e], MaxDeaf) ELSE 0]
    /\ UNCHANGED <<lagConfig, linkSeen, pdu, carrier, cut, lacpEvents>>

LacpNext ==
    \/ \E s \in LacpSystems : LacpEngineTick(s)
    \/ \E e \in LacpEnds : LacpLinkEvent(e)
    \/ \E e \in LacpEnds : LacpReceive(e)
    \/ \E s \in LacpSystems, c \in LacpConfigs : SetLagConfig(s, c)
    \/ \E n \in LacpMembers : PullOrPlug(n)
    \/ \E e \in LacpEnds : CutOrHeal(e)
    \/ LacpTick

LacpSpec == LacpInit /\ [][LacpNext]_lacpVars /\ []<><<LacpTick>>_lacpVars
-----------------------------------------------------------------------------
(* Properties. *)

\* The shape of the state.
LacpTypeOK ==
    /\ lagTicked \subseteq LacpSystems /\ cut \subseteq LacpEnds
    /\ lacpEvents \in 0..MaxLacpEvents
    /\ \A e \in LacpEnds :
          /\ member[e].rx \in 0..Never /\ member[e].tx \in 0..SlowInterval
          /\ deaf[e] \in 0..MaxDeaf
          /\ member[e].individual => member[e].bundled
    /\ \A s \in LacpSystems : lag[s].gates = NoGates \/ DOMAIN lag[s].gates \subseteq LacpMembers

\* The ends that forward because LACP agreed on it: not static, not by fallback.
Negotiated(e) ==
    /\ e[2] \in Names(e[1]) /\ RunsLacp(e[1])
    /\ member[e].bundled /\ ~lag[e[1]].fallback

\* A cable that carries frames one way only is taken out of the bundle at the
\* end that still hears its partner: within the partner's hold time plus its
\* own, after which the partner has cleared SYNC or fallen silent
\* (lacp.rs:432, :652).
OneWayIsBounded ==
    \A e \in LacpEnds :
        Negotiated(e) /\ Partner(e)[2] \in Names(Partner(e)[1]) =>
            deaf[e] <= HoldTime(Settings(e).fast) + HoldTime(Settings(Partner(e)).fast)

\* What was last sent to the gate pusher (lacp.rs:695) never lets fewer members
\* forward than min-links asks for, unless fallback has made a single member
\* individual; and never opens a gate by fallback while a partner is heard.
GatesAreWhole ==
    \A s \in LacpSystems : lag[s].gates # NoGates /\ s \in lagTicked =>
        LET open == {n \in DOMAIN lag[s].gates : lag[s].gates[n]}
        IN  /\ \/ open = {} \/ Cardinality(open) >= lagConfig[s].minLinks
               \/ \E n \in open : open = {n} /\ member[<<s, n>>].individual
            /\ lag[s].fallback => ~AnyPartner(s, member)

\* A cable LACP can use: both groups hold it and run LACP, it is lit and
\* frames pass both ways.
Usable(n) ==
    /\ carrier[n]
    /\ \A s \in LacpSystems : n \in Names(s) /\ RunsLacp(s) /\ <<s, n>> \notin cut

\* Two passive ends keep up a bundle that already talks and never start one:
\* what they settle on depends on the past.
SomebodyActive ==
    \A n \in LacpMembers : Usable(n) =>
        \E s \in LacpSystems : Settings(<<s, n>>).mode = "active"

\* The engines settle: once cables and configurations rest, a group that runs
\* LACP without fallback forwards on exactly the usable cables, or on none when
\* they are fewer than its min-links, whatever rates the two ends ask for and
\* whichever of them is passive (lacp.rs:703-726).
LagSettles ==
    <>[](\A s \in LacpSystems :
            SomebodyActive /\ RunsLacp(s) /\ lagConfig[s].fallback = "none" =>
                LET usable == {n \in LacpMembers : Usable(n)}
                IN  {n \in Names(s) : member[<<s, n>>].bundled}
                       = IF Cardinality(usable) >= lagConfig[s].minLinks THEN usable ELSE {})
=============================================================================
