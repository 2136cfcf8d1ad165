--------------------------- MODULE NetworkTargets ---------------------------
(***************************************************************************)
(* Where a Network service call goes: a device to restart, a client to     *)
(* reconnect or let in, a site to make vouchers for, the consoles to       *)
(* refresh. Sites of several consoles may carry one id (every console's    *)
(* default site does), the records of a site are missing until a poll has  *)
(* read it, and devices and clients move between consoles and sites.       *)
(***************************************************************************)
EXTENDS Naturals, FiniteSets

CONSTANTS
  NetConsole,   \* config entries of consoles, all loaded
  Site,         \* site ids
  Device, Client,
  Unread,       \* the records of a site no poll has read
  NoSite,       \* a call without site_id
  MaxNetMoves   \* bound: devices and clients that go elsewhere

Thing == Device \cup Client
Place == NetConsole \X Site

ASSUME NetTargetsAssumption ==
  /\ IsFiniteSet(NetConsole) /\ Device \cap Client = {} /\ MaxNetMoves \in Nat
  /\ NoSite \notin NetConsole \cup Site \cup Thing

VARIABLES
  sites,     \* the sites of each console, read before its entry is loaded
  at,        \* the console and site that really have each thing
  listed,    \* the cached records of each console's sites
  rowsOf,    \* registry rows: <<console, site, thing>>
  sent,      \* the call being served and where it goes
  netMoves

netTargetVars == <<sites, at, listed, rowsOf, sent, netMoves>>

Nothing == [by |-> "none", of |-> NoSite, siteOf |-> NoSite, res |-> NoSite]
NotSent == [by |-> "none", of |-> NoSite, siteOf |-> NoSite, res |-> NoSite,
            named |-> NoSite, answer |-> "none", to |-> NoSite, site |-> NoSite]

NetTargetsTypeOK ==
  /\ sites \in [NetConsole -> SUBSET Site \ {{}}]
  /\ at \in [Thing -> Place]
  /\ \A c \in NetConsole, s \in Site : listed[c][s] = Unread \/ listed[c][s] \subseteq Thing
  /\ rowsOf \subseteq NetConsole \X Site \X Thing
  /\ netMoves \in 0 .. MaxNetMoves

NetTargetsInit ==
  /\ sites \in [NetConsole -> SUBSET Site \ {{}}]
  /\ at \in [Thing -> {p \in Place : p[2] \in sites[p[1]]}]
  /\ listed = [c \in NetConsole |-> [s \in Site |-> Unread]]
  /\ rowsOf = {} /\ sent = NotSent /\ netMoves = 0

-----------------------------------------------------------------------------
(* What the caches answer: a site that was not read cannot tell.           *)
Lists(c, s, x) == listed[c][s] # Unread /\ x \in listed[c][s]
ListsSomewhere(c, x) == \E s \in Site : Lists(c, s, x)
MayHave(c, s, x) ==
  IF s = NoSite THEN ListsSomewhere(c, x)
  ELSE listed[c][s] = Unread \/ x \in listed[c][s]

Matching(s) == {c \in NetConsole : s = NoSite \/ s \in sites[c]}

ById(x) == [Nothing EXCEPT !.by = "id", !.res = x]
ByRow(p) == [by |-> "row", of |-> p[1], siteOf |-> p[2], res |-> p[3]]
NetTargets == {ById(x) : x \in Thing} \cup {ByRow(p) : p \in rowsOf}
OnlyOne(S) == CHOOSE c \in S : TRUE

SendTo(t, s, c, site) ==
  [by |-> t.by, of |-> t.of, siteOf |-> t.siteOf, res |-> t.res,
   named |-> s, answer |-> "sent", to |-> c, site |-> site]
Deny(t, s, why) == [SendTo(t, s, NoSite, NoSite) EXCEPT !.answer = why]

DeviceConsoles_FirstCandidate(t, s) ==
  LET having == {c \in Matching(s) : MayHave(c, s, t.res)}
  IN IF t.of \in having THEN {t.of}
     ELSE IF having = {} THEN {} ELSE {OnlyOne(having)}

(* _select_device_entry over the consoles that have the site.              *)
DeviceConsoles(t, s) ==
  LET having == {c \in Matching(s) : MayHave(c, s, t.res)}
      owning == {c \in having : ListsSomewhere(c, t.res)}
  IN IF t.of \in having THEN {t.of}
     ELSE IF Cardinality(having) <= 1 THEN having ELSE owning

(* The site sent: the one the call names, else one the console lists the   *)
(* device in.                                                              *)
SitesToSend(c, named, x) ==
  IF named # NoSite THEN {named} ELSE {s \in Site : Lists(c, s, x)}

(* _select_network_entry and resolve_network_device_call. A row of the     *)
(* entry narrows a call without a site to the row's site.                  *)
DeviceAnswer(t, named) ==
  LET s == IF named = NoSite THEN t.siteOf ELSE named
      chosen == DeviceConsoles(t, s)
  IN IF Matching(s) = {} \/ (t.by = "row" /\ t.of \notin Matching(s))
       THEN {Deny(t, named, "otherConsole")}
     ELSE IF Cardinality(chosen) # 1 THEN {Deny(t, named, "notOne")}
     ELSE LET c == OnlyOne(chosen) IN
          IF SitesToSend(c, named, t.res) = {} THEN {Deny(t, named, "siteRequired")}
          ELSE {SendTo(t, named, c, site) : site \in SitesToSend(c, named, t.res)}

ClientConsoles_FirstOfSite(t, s) ==
  IF t.by = "row" THEN {t.of} ELSE {OnlyOne(Matching(s))}

(* The client branch: a row's entry first, then the console that may have  *)
(* the client, then the one that lists it. One console with the site takes *)
(* the call unseen.                                                        *)
ClientConsoles(t, s) ==
  LET having == {c \in Matching(s) : MayHave(c, s, t.res)}
      owning == {c \in Matching(s) : ListsSomewhere(c, t.res)}
  IN IF Cardinality(Matching(s)) = 1 THEN Matching(s)
     ELSE IF t.by = "row" THEN {t.of}
     ELSE IF Cardinality(having) = 1 THEN having
     ELSE owning

ClientAnswer(t, s) ==
  IF Matching(s) = {} \/ (t.by = "row" /\ t.of \notin Matching(s))
    THEN Deny(t, s, "otherConsole")
  ELSE IF Cardinality(ClientConsoles(t, s)) # 1 THEN Deny(t, s, "notOne")
  ELSE SendTo(t, s, OnlyOne(ClientConsoles(t, s)), s)

-----------------------------------------------------------------------------
(* A call is resolved between two awaits: nothing moves until it returned. *)
CallOver ==
  /\ sent # NotSent /\ sent' = NotSent
  /\ UNCHANGED <<sites, at, listed, rowsOf, netMoves>>

(* A poll reads a site; the platforms add rows for what is new.            *)
ReadSite(c, s) ==
  /\ sent = NotSent
  /\ s \in sites[c]
  /\ LET held == {x \in Thing : at[x] = <<c, s>>} IN
       /\ listed' = [listed EXCEPT ![c][s] = held]
       /\ rowsOf' = rowsOf \cup {<<c, s, x>> : x \in held}
  /\ UNCHANGED <<sent, sites, at, netMoves>>

GoElsewhere(x, p) ==
  /\ sent = NotSent
  /\ netMoves < MaxNetMoves /\ p[2] \in sites[p[1]] /\ p # at[x]
  /\ at' = [at EXCEPT ![x] = p] /\ netMoves' = netMoves + 1
  /\ UNCHANGED <<sent, sites, listed, rowsOf>>

(* restart_device, power_cycle_port.                                       *)
DeviceCall(t, s) ==
  /\ sent = NotSent
  /\ t.res \in Device
  /\ sent' \in DeviceAnswer(t, s)
  /\ UNCHANGED <<sites, at, listed, rowsOf, netMoves>>

(* authorize_guest; reconnect_client also wants a record of the client in  *)
(* the site's cache, connected and wireless.                               *)
ClientCall(t, s, reconnect) ==
  /\ sent = NotSent
  /\ t.res \in Client
  /\ LET answer == ClientAnswer(t, s) IN
     sent' = IF reconnect /\ answer.answer = "sent" /\ ~Lists(answer.to, s, t.res)
             THEN Deny(t, s, "notConnected") ELSE answer
  /\ UNCHANGED <<sites, at, listed, rowsOf, netMoves>>

(* generate_voucher, delete_voucher: the site's only console.              *)
SiteCall(s) ==
  /\ sent = NotSent
  /\ sent' = IF Cardinality(Matching(s)) = 1 THEN SendTo(Nothing, s, OnlyOne(Matching(s)), s)
             ELSE Deny(Nothing, s, "notOne")
  /\ UNCHANGED <<sites, at, listed, rowsOf, netMoves>>

(* export_network_rules: the console named, which must have the site when  *)
(* one is named too, else the only one with the site.                      *)
ExportCall(c, s) ==
  /\ sent = NotSent
  /\ LET able == IF c = NoSite THEN Matching(s) ELSE {c} \cap Matching(s) IN
     sent' = IF Cardinality(able) = 1 THEN SendTo(Nothing, s, OnlyOne(able), s)
             ELSE Deny(Nothing, s, "notOne")
  /\ UNCHANGED <<sites, at, listed, rowsOf, netMoves>>

NetTargetsNext ==
  \/ CallOver
  \/ \E c \in NetConsole \cup {NoSite}, s \in Site \cup {NoSite} : ExportCall(c, s)
  \/ \E c \in NetConsole, s \in Site : ReadSite(c, s)
  \/ \E x \in Thing, p \in Place : GoElsewhere(x, p)
  \/ \E t \in NetTargets, s \in Site \cup {NoSite} : DeviceCall(t, s)
  \/ \E t \in NetTargets, s \in Site, reconnect \in BOOLEAN : ClientCall(t, s, reconnect)
  \/ \E s \in Site : SiteCall(s)

NetTargetsSpec == NetTargetsInit /\ [][NetTargetsNext]_netTargetVars

-----------------------------------------------------------------------------
Current(x) ==
  \A c \in NetConsole : \A s \in sites[c] :
    listed[c][s] # Unread /\ (x \in listed[c][s] <=> at[x] = <<c, s>>)

(* When the caches agree with the consoles, a device call goes to the      *)
(* console and site the device is in; one that names the device, and no    *)
(* wrong site, is not refused; and a client call by id goes to the console *)
(* whose site has the client, also when another console has a site of the  *)
(* same id.                                                                *)
NetCallsReachTheirTarget ==
  sent.res \in Thing /\ Current(sent.res) =>
    LET home == at[sent.res] IN
    /\ sent.res \in Device /\ sent.answer = "sent" =>
         sent.to = home[1] /\ sent.site = home[2]
    /\ sent.by = "id" /\ sent.res \in Device /\ sent.named \in {NoSite, home[2]} =>
         sent.answer = "sent"
    /\ sent.by = "id" /\ sent.res \in Client /\ sent.named = home[2] =>
         sent.to = home[1]

(* Before that, a device call never goes to a console that has read the    *)
(* named site and does not list the device, nor to one that cannot tell    *)
(* while another lists the device in that site, unless the row says so.    *)
DeviceCallsFollowTheCaches ==
  sent.res \in Device /\ sent.answer = "sent" =>
    /\ MayHave(sent.to, sent.site, sent.res)
    /\ ~ListsSomewhere(sent.to, sent.res) =>
         \/ sent.by = "row" /\ sent.of = sent.to
         \/ \A c \in NetConsole : ~Lists(c, sent.site, sent.res)

(* A Network call goes where its target is, as far as anybody can know.    *)
NetCallsAreRouted == NetCallsReachTheirTarget /\ DeviceCallsFollowTheCaches
=============================================================================
