------------------------------- MODULE Status -------------------------------
(***************************************************************************)
(* One answer of /api/status (src/fleet/web.py, src/fleet/queries.py).     *)
(* It is put together from many transactions: the attribution of payouts,  *)
(* read once, the payouts it leaves out, the hosts to show, and then, for  *)
(* one card beside another, the provider_ids linked to its host and the    *)
(* payouts of the hashes these own.  The collectors of module Identities   *)
(* go on meanwhile, and payouts are ingested.                              *)
(*                                                                         *)
(* The sections of a card read the same hashes one after the other; they   *)
(* are one read here.  The votes are module Votes; here they may be any.   *)
(* The clock stands still while an answer is computed.                     *)
(***************************************************************************)
EXTENDS Identities, Hourly

CONSTANTS
    Former,         \* hosts with snapshots that are configured no more
    Voted,          \* hosts that win the votes of a hash now and then
    Order,          \* the ids of providers and hosts, as sorted() has them
    MaxDiscovered,  \* MAX_DISCOVERED_HOSTS
    Payouts,        \* the payouts of the account: hash, model and time
    NoHash,         \* the hash of a payout that came without one
    Late,           \* payouts that are ingested after the start
    Nows,           \* times at which the status is asked for
    Nobody

ASSUME StatusAssumption ==
    /\ Former \cap (Macs \cup Providers \cup {NoMac}) = {} /\ Voted \subseteq Macs \cup Former
    /\ MaxDiscovered \in Nat
    /\ Order \in Seq(ToSet(Order)) /\ ToSet(Order) = Providers \cup Macs \cup Former
    /\ \A i, j \in DOMAIN Order : Order[i] = Order[j] => i = j
    /\ Nobody \notin ToSet(Order) /\ NoHash \notin Hashes
    /\ Late \subseteq Payouts /\ IsFiniteSet(Payouts) /\ Nows \subseteq Nat
    /\ \A p \in Payouts : /\ p.hash \in Hashes \cup {NoHash}
                         /\ p.model \in ToSet(Names) /\ p.at \in Nat

VARIABLES
    stored,      \* the payouts in the earnings table
    now,         \* time.time()
    phase,       \* where the answer is
    attributed,  \* its `attributed': per hash the owner, or Nobody
    counted,     \* the payouts counted in `unattributed'
    extras,      \* its `extras'
    known,       \* history: the ids without a collector that these were cut from
    cards        \* per host on display, its card

answer == <<phase, attributed, counted, extras, known, cards>>
statusVars == <<vars, stored, now, answer>>

Hosts == Macs \cup Former
Owned == [Hashes -> Providers \cup Hosts \cup {Nobody}]

\* A card that was asked for, read its owners, is complete, or failed.
Card == [state : {"asked", "owners", "complete", "failed"},
         owners : SUBSET (Providers \cup Hosts), payouts : SUBSET Payouts]
NewCard == [state |-> "asked", owners |-> {}, payouts |-> {}]
ErrorHost == [state |-> "failed", owners |-> {}, payouts |-> {}]

StatusTypeOK ==
    /\ TypeOK
    /\ stored \subseteq Payouts /\ Payouts \ Late \subseteq stored
    /\ now \in Nows
    /\ phase \in {"none", "unattributed", "extras", "cards"}
    /\ attributed \in Owned
    /\ counted \subseteq Payouts
    /\ extras \subseteq known /\ known \subseteq Providers \cup Hosts
    /\ DOMAIN cards \subseteq Hosts /\ Range(cards) \subseteq Card

NoAnswer == /\ phase' = "none"
            /\ attributed' = [h \in Hashes |-> Nobody]
            /\ counted' = {} /\ extras' = {} /\ known' = {} /\ cards' = <<>>

StatusInit == /\ Init
              /\ stored = Payouts \ Late
              /\ now \in Nows
              /\ phase = "none"
              /\ attributed = [h \in Hashes |-> Nobody]
              /\ counted = {} /\ extras = {} /\ known = {} /\ cards = <<>>

-----------------------------------------------------------------------------
(* The account-wide part.                                                  *)

Ingest(p) == /\ p \in Late \ stored
             /\ stored' = stored \cup {p}
             /\ UNCHANGED <<vars, now, answer>>

(* provider_hosts: an identity overrides the votes, two leave the payouts  *)
(* nobody's.                                                               *)
PossibleOwners(h) == CASE Attributed(h)   -> Owners(h)
                       [] Owners(h) = {}  -> Voted \cup {Nobody}
                       [] OTHER           -> {Nobody}

ReadAttribution ==
    /\ phase = "none"
    /\ attributed' \in Owned
    /\ \A h \in Hashes : attributed'[h] \in PossibleOwners(h)
    /\ phase' = "unattributed"
    /\ UNCHANGED <<vars, stored, now, counted, extras, known, cards>>

OwnerOf(p) == IF p.hash = NoHash THEN Nobody ELSE attributed[p.hash]

\* unattributed_recent, where its limit is not reached.
ReadUnattributed ==
    /\ phase = "unattributed"
    /\ counted' = {p \in stored : p.at <= now /\ OwnerOf(p) = Nobody}
    /\ phase' = "extras"
    /\ UNCHANGED <<vars, stored, now, attributed, extras, known, cards>>

\* known_host_ids: no provider that is linked, every host with a snapshot.
Known == {o \in Providers \cup Macs : /\ \E h \in Hashes : <<h, o>> \in identities
                                      /\ o \in Providers => links[o] = NoMac}
         \cup snapshots \cup Former

\* Mutant of Discovered: identities are not looked at.
DiscoveredHeartbeats == (snapshots \cup Former) \ Macs

\* unconfigured_host_ids: the first of those that no collector is for.
Discovered ==
    LET places == {i \in DOMAIN Order : Order[i] \in Known \ Macs}
    IN  {Order[i] : i \in {j \in places :
                              Cardinality({k \in places : k <= j}) <= MaxDiscovered}}

(* Cards are for the configured hosts and for those discovered by name;    *)
(* provider_ids are only counted.                                          *)
ReadExtras ==
    /\ phase = "extras"
    /\ extras' = Discovered /\ known' = Known \ Macs
    /\ cards' = [c \in Macs \cup (extras' \ Providers) |-> NewCard]
    /\ phase' = "cards"
    /\ UNCHANGED <<vars, stored, now, attributed, counted>>

(* An error in one of these reads leaves an error on every configured card.*)
SharedFails ==
    /\ phase \in {"none", "unattributed", "extras"}
    /\ cards' = [c \in Macs |-> ErrorHost]
    /\ phase' = "cards"
    /\ UNCHANGED <<vars, stored, now, attributed, counted, extras, known>>

-----------------------------------------------------------------------------
(* The cards.                                                              *)

UpdateCard(c, from, to) ==
    /\ phase = "cards" /\ c \in DOMAIN cards /\ cards[c].state = from
    /\ cards' = [cards EXCEPT ![c] = to]
    /\ UNCHANGED <<vars, stored, now, phase, attributed, counted, extras, known>>

\* _owner_aliases: the host and the provider_ids linked to it.
ReadOwners(c) ==
    UpdateCard(c, "asked", [NewCard EXCEPT
        !.state = "owners", !.owners = {c} \cup {p \in Providers : links[p] = c}])

\* Mutant of HashesOf: the attribution is read again for every card.
HashesOfNow(c) ==
    {h \in Hashes : IF Owners(h) = {} THEN attributed[h] \in cards[c].owners
                    ELSE Attributed(h) /\ Owners(h) \subseteq cards[c].owners}

\* The hashes of a card's owners, by the one attribution of the answer.
HashesOf(c) == {h \in Hashes : attributed[h] \in cards[c].owners}

ReadPayouts(c) ==
    UpdateCard(c, "owners", [NewCard EXCEPT
        !.state = "complete",
        !.payouts = {p \in stored : p.at <= now /\ p.hash \in HashesOf(c)}])

\* _status_row: an error is one card's.
CardFails(c) == UpdateCard(c, "asked", ErrorHost) \/ UpdateCard(c, "owners", ErrorHost)

Complete == phase = "cards" /\ \A c \in DOMAIN cards : cards[c].state \in {"complete", "failed"}

(* The answer is sent, or the client is gone.                              *)
Send == /\ Complete
        /\ NoAnswer
        /\ UNCHANGED <<vars, stored, now>>

Answer == \/ ReadAttribution \/ ReadUnattributed \/ ReadExtras \/ SharedFails
          \/ \E c \in Hosts : ReadOwners(c) \/ ReadPayouts(c) \/ CardFails(c)
          \/ Send

StatusNext == \/ Next /\ UNCHANGED <<stored, now, answer>>
              \/ \E p \in Payouts : Ingest(p)
              \/ Answer

StatusSpec == StatusInit /\ [][StatusNext]_statusVars

-----------------------------------------------------------------------------
(* Properties.                                                             *)

Shown(p) == {c \in DOMAIN cards : p \in cards[c].payouts}

(* No payout is on two cards of one answer, although owners are read card  *)
(* by card while hashes are identified and providers are linked.           *)
OneCard == \A p \in Payouts : Cardinality(Shown(p)) <= 1

\* What the cap has cut off: the list is full, of ids that come before it.
Place(o) == CHOOSE i \in DOMAIN Order : Order[i] = o
CutOff == {o \in known : /\ Cardinality(extras) >= MaxDiscovered
                         /\ \A e \in extras : Place(e) < Place(o)}

(* What is missing on the cards is told, but for what the cap cuts off.  A *)
(* payout that was there when the answer was begun, of a host or of a      *)
(* provider that stays, is on a card, or counted as unattributed, or its   *)
(* provider is counted as not linked, or a card is in error: whatever is   *)
(* linked, pruned and identified between the reads.  The exception is an   *)
(* id behind a full list of others, a former Mac behind providers, say:    *)
(* nothing in the answer tells of its payouts.                             *)
NothingIsLost ==
    Complete =>
        \A p \in Payouts \ Late :
            p.at > now \/ OwnerOf(p) \in Providers \ Steady
            \/ p \in counted \/ Shown(p) # {}
            \/ OwnerOf(p) \in extras \cap Providers \/ OwnerOf(p) \in CutOff
            \/ \E c \in DOMAIN cards : cards[c] = ErrorHost

Panels == {cards[c].payouts : c \in {d \in DOMAIN cards : cards[d].state = "complete"}}

(* The hourly panels: every job of the hours is counted in its own hour,   *)
(* every portion that has begun shows a model, one that had most jobs in   *)
(* it, exactly when it had any, and a glyph stands for the same model on   *)
(* every card, and for no other, until the labels are all used.            *)
HourlyIsExact ==
    Complete =>
        LET legend == SharedLegend(Panels, now)
            same(p, q) == HourOf(p.at) = HourOf(q.at) /\ PortionOf(p.at) = PortionOf(q.at)
        IN  /\ \A payouts \in Panels, hour \in HoursOf(now) :
                LET row == HourlyRows(payouts, now)[hour]
                    own == {p \in payouts : hour <= p.at /\ p.at < hour + HourSeconds}
                IN  /\ row.jobs = Cardinality(own)
                    /\ \A k \in DOMAIN row.portions :
                          row.portions[k] = NoModel <=> \A p \in own : PortionOf(p.at) # k
                    /\ \A p \in own :
                          \/ now = hour
                          \/ /\ PortionOf(p.at) \in DOMAIN row.portions
                             /\ LET busiest == row.portions[PortionOf(p.at)]
                                    jobs(m) == Cardinality({q \in own : same(p, q) /\ q.model = m})
                                IN  busiest \in DOMAIN legend /\ jobs(busiest) >= jobs(p.model)
            /\ \A m, n \in DOMAIN legend :
                  m # n /\ legend[m] = legend[n] =>
                      legend[m] = Overflow /\ ToSet(Labels) \subseteq Range(legend)
=============================================================================
