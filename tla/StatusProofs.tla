---------------------------- MODULE StatusProofs ----------------------------
(***************************************************************************)
(* Theorems about the identity tables, for every account, every set of     *)
(* Macs and every row that an earlier version left, and about one answer   *)
(* of /api/status that reads them, for every set of hosts and payouts, and *)
(* every outcome of the votes.                                             *)
(***************************************************************************)
EXTENDS Status, FiniteSetTheorems, FunctionTheorems, WellFoundedInduction, TLAPS

(* What the probe's requests and its transaction know of each other.       *)

Probing == {"attestation", "earnings", "insert", "prune"}

\* No other Mac's collector copies the listing.
ProbeIsAlone == \A m \in Macs : pc[m] \in Probing => m = Probe

\* Owners that nothing may forget are there: a Mac has its heartbeat, a
\* provider that stays is still listed.
OwnedByKnown(rows) == \A row \in rows : /\ row[2] \in Macs => row[2] \in snapshots
                                        /\ row[2] \in Steady => row[2] \in listed

OwnersAreKnown == OwnedByKnown(identities) /\ OwnedByKnown(draft)

\* However old an answer is, who stays is still listed.
AnswersAreTrue == \A m \in Macs : ids[m] \cap Steady \subseteq listed

\* An answer that is not blank misses no provider that stays and is stored, until
\* the transaction that it leads to is over.
AnswerIsWhole ==
    pc[Probe] = "prune" \/ (pc[Probe] \in {"earnings", "insert"} /\ ids[Probe] # {}) =>
        \A row \in identities : row[2] \in Steady => row[2] \in ids[Probe]

\* What the open transaction has left of the rows that are to be kept.
DraftKeeps ==
    pc[Probe] = "prune" =>
        \A row \in identities : row[2] \in Steady \cup Macs => row \in draft

\* A provider is linked, or about to be, to the Mac that holds its key only.
LinksFollowKeys ==
    /\ \A p \in Providers : links[p] # NoMac => links[p] = KeyOf[p]
    /\ \A m \in Macs : pc[m] = "link" => \A p \in ids[m] : KeyOf[p] = m

IInv == /\ TypeOK /\ ProbeIsAlone /\ OwnersAreKnown /\ AnswersAreTrue
        /\ AnswerIsWhole /\ DraftKeeps /\ LinksFollowKeys

-----------------------------------------------------------------------------

LEMMA InitHolds == Init => IInv
  <1> SUFFICES ASSUME Init PROVE IInv  OBVIOUS
  <1>1. TypeOK
    BY ProbeAssumption, ProvidersAssumption, LegacyAssumption
       DEF Init, TypeOK, Rows, Steps
  <1>2. OwnersAreKnown
    <2>1. \A row \in Legacy : row[2] \in Macs \cap snapshots
      BY LegacyAssumption DEF Init
    <2>2. QED
      BY <2>1, ProvidersAssumption DEF Init, OwnersAreKnown, OwnedByKnown
  <1>3. QED
    BY <1>1, <1>2, ProbeAssumption
       DEF Init, IInv, ProbeIsAlone, Probing, AnswersAreTrue, AnswerIsWhole,
           DraftKeeps, LinksFollowKeys

(* The account: who stays and is listed remains so.                        *)
LEMMA AccountHolds ==
  ASSUME IInv, listed' \subseteq Providers, earning' \subseteq Sessions,
         listed \cap Steady \subseteq listed', UNCHANGED <<tables, ticks>>
  PROVE  IInv'
  BY DEF IInv, TypeOK, tables, ticks, ProbeIsAlone, OwnersAreKnown, OwnedByKnown,
         AnswersAreTrue, AnswerIsWhole, DraftKeeps, LinksFollowKeys

LEMMA StartTickHolds ==
  ASSUME IInv, NEW m \in Macs, NEW daemon \in {"unread", "read", "keyed"},
         StartTick(m, daemon)
  PROVE  IInv'
  <1> USE DEF StartTick, Step, account
  <1>1. snapshots \subseteq snapshots' /\ snapshots' \subseteq Macs
    BY DEF IInv, TypeOK
  <1>2. TypeOK'
    BY <1>1 DEF IInv, TypeOK, Steps
  <1>3. /\ pc'[m] \in {"attestation", "key", "idle"}
        /\ pc'[m] = "attestation" => m = Probe
        /\ \A n \in Macs \ {m} : pc'[n] = pc[n]
    BY DEF IInv, TypeOK
  <1>4. ProbeIsAlone'
    BY <1>3 DEF IInv, ProbeIsAlone, Probing
  <1>5. QED
    BY <1>1, <1>2, <1>3, <1>4, ProbeAssumption
       DEF IInv, OwnersAreKnown, OwnedByKnown, AnswersAreTrue, AnswerIsWhole,
           DraftKeeps, LinksFollowKeys

LEMMA FetchProvidersHolds ==
  ASSUME IInv, NEW m \in Macs, NEW blank \in BOOLEAN, FetchProviders(m, blank)
  PROVE  IInv'
  <1> USE DEF FetchProviders, Step, account, tables
  <1>1. m = Probe
    BY DEF IInv, ProbeIsAlone, Probing
  <1>2. ids'[m] \in {{}, listed} /\ pc'[m] = "earnings"
    BY DEF IInv, TypeOK
  <1>3. \A n \in Macs \ {m} : ids'[n] = ids[n] /\ pc'[n] = pc[n]
    BY DEF IInv, TypeOK
  <1>4. TypeOK'
    BY DEF IInv, TypeOK, Steps
  <1>5. OwnersAreKnown' /\ ProbeIsAlone'
    BY <1>1, <1>3 DEF IInv, OwnersAreKnown, OwnedByKnown, ProbeIsAlone
  <1>6. AnswersAreTrue' /\ DraftKeeps' /\ LinksFollowKeys'
    BY <1>1, <1>2, <1>3 DEF IInv, AnswersAreTrue, DraftKeeps, LinksFollowKeys
  <1>7. AnswerIsWhole'
    BY <1>1, <1>2 DEF IInv, AnswerIsWhole, OwnersAreKnown, OwnedByKnown
  <1>8. QED  BY <1>4, <1>5, <1>6, <1>7 DEF IInv

LEMMA FetchEarningsHolds ==
  ASSUME IInv, NEW m \in Macs, FetchEarnings(m)
  PROVE  IInv'
  <1> USE DEF FetchEarnings, Step, account, tables
  <1>1. m = Probe
    BY DEF IInv, ProbeIsAlone, Probing
  <1>2. pc'[m] = "insert" /\ \A n \in Macs \ {m} : pc'[n] = pc[n]
    BY DEF IInv, TypeOK
  <1>3. \A row \in draft' : row \in Rows /\ row[2] \in Providers \cap ids[m]
    BY ProvidersAssumption DEF HashToProvider, Rows
  <1>4. TypeOK'
    BY <1>3 DEF IInv, TypeOK, Steps
  <1>5. OwnersAreKnown'
    BY <1>3, ProvidersAssumption DEF IInv, OwnersAreKnown, OwnedByKnown, AnswersAreTrue
  <1>6. QED
    BY <1>1, <1>2, <1>4, <1>5
       DEF IInv, ProbeIsAlone, AnswersAreTrue, AnswerIsWhole, DraftKeeps, LinksFollowKeys

(* A tick that goes on, or ends, past the probe's part.                    *)
LEMMA LeaveHolds ==
  ASSUME IInv, NEW m \in Macs, NEW step \in {"key", "idle"}, Step(m, step),
         ids' \in [Macs -> SUBSET Providers], ids'[m] \subseteq ids[m],
         \A n \in Macs \ {m} : ids'[n] = ids[n],
         draft' \subseteq draft, m # Probe => draft' = draft,
         keyed' = keyed, UNCHANGED <<account, tables>>
  PROVE  IInv'
  <1> USE DEF Step, account, tables
  <1>1. pc'[m] = step /\ \A n \in Macs \ {m} : pc'[n] = pc[n]
    BY DEF IInv, TypeOK
  <1>2. TypeOK'
    BY DEF IInv, TypeOK, Steps
  <1>3. OwnersAreKnown' /\ AnswersAreTrue' /\ LinksFollowKeys'
    BY <1>1 DEF IInv, OwnersAreKnown, OwnedByKnown, AnswersAreTrue, LinksFollowKeys
  <1>4. ProbeIsAlone' /\ AnswerIsWhole' /\ DraftKeeps'
    BY <1>1, ProbeAssumption DEF IInv, ProbeIsAlone, Probing, AnswerIsWhole, DraftKeeps
  <1>5. QED  BY <1>2, <1>3, <1>4 DEF IInv

LEMMA PruneHolds ==
  ASSUME IInv, NEW m \in Macs, Prune(m)
  PROVE  IInv'
  <1> USE DEF Prune, Step
  <1>1. m = Probe
    BY DEF IInv, ProbeIsAlone, Probing
  <1>2. CASE ids[m] = {}
    <2>1. AfterIdentities(m) \in {"key", "idle"}  BY DEF AfterIdentities
    <2>2. ids' \in [Macs -> SUBSET Providers]  BY <1>2 DEF IInv, TypeOK
    <2>3. QED  BY <1>1, <1>2, <2>1, <2>2, LeaveHolds
  <1>3. CASE ids[m] # {}
    <2> USE DEF account, tables
    <2>1. pc'[m] = "prune" /\ \A n \in Macs \ {m} : pc'[n] = pc[n]
      BY <1>3 DEF IInv, TypeOK
    <2>2. draft' = {row \in identities \cup draft : Spared(row[2], ids[m])}
      BY <1>3
    <2>3. TypeOK'
      BY <1>3, <2>2 DEF IInv, TypeOK, Steps
    <2>4. OwnersAreKnown'
      BY <2>2 DEF IInv, OwnersAreKnown, OwnedByKnown
    <2>5. DraftKeeps'
      <3> SUFFICES ASSUME NEW row \in identities, row[2] \in Steady \cup Macs
                   PROVE  Spared(row[2], ids[m])
        BY <2>2 DEF DraftKeeps
      <3>1. CASE row[2] \in Macs
        BY <3>1 DEF IInv, OwnersAreKnown, OwnedByKnown, Spared
      <3>2. CASE row[2] \in Steady
        BY <1>1, <1>3, <3>2 DEF IInv, AnswerIsWhole, Spared
      <3>3. QED  BY <3>1, <3>2
    <2>6. QED
      BY <1>1, <1>3, <2>1, <2>3, <2>4, <2>5
         DEF IInv, ProbeIsAlone, AnswersAreTrue, AnswerIsWhole, LinksFollowKeys
  <1>4. QED  BY <1>2, <1>3

LEMMA CommitHolds ==
  ASSUME IInv, NEW m \in Macs, CommitIdentities(m)
  PROVE  IInv'
  <1> USE DEF CommitIdentities, Step, account
  <1>1. m = Probe
    BY DEF IInv, ProbeIsAlone, Probing
  <1>2. pc'[m] \in {"key", "idle"} /\ \A n \in Macs \ {m} : pc'[n] = pc[n]
    BY DEF IInv, TypeOK, AfterIdentities
  <1>3. ids'[m] = {} /\ \A n \in Macs \ {m} : ids'[n] = ids[n]
    BY DEF IInv, TypeOK
  <1>4. \A p \in Providers : links'[p] \in {links[p], NoMac}
    BY DEF IInv, TypeOK
  <1>5. TypeOK'
    BY DEF IInv, TypeOK, Steps, AfterIdentities
  <1>6. OwnersAreKnown'
    BY DEF IInv, OwnersAreKnown, OwnedByKnown
  <1>7. ProbeIsAlone' /\ AnswerIsWhole' /\ DraftKeeps'
    BY <1>1, <1>2, <1>3 DEF IInv, ProbeIsAlone, Probing, AnswerIsWhole, DraftKeeps
  <1>8. AnswersAreTrue' /\ LinksFollowKeys'
    BY <1>2, <1>3, <1>4 DEF IInv, AnswersAreTrue, LinksFollowKeys
  <1>9. QED  BY <1>5, <1>6, <1>7, <1>8 DEF IInv

LEMMA FetchKeyHolds ==
  ASSUME IInv, NEW m \in Macs, NEW blank \in BOOLEAN, FetchKey(m, blank)
  PROVE  IInv'
  <1> USE DEF FetchKey, Step, account, tables
  <1>1. ids'[m] \in {{}, {p \in listed : KeyOf[p] = m}} /\ pc'[m] \in {"idle", "link"}
    BY DEF IInv, TypeOK
  <1>2. \A n \in Macs \ {m} : ids'[n] = ids[n] /\ pc'[n] = pc[n]
    BY DEF IInv, TypeOK
  <1>3. TypeOK'
    BY <1>1 DEF IInv, TypeOK, Steps
  <1>4. OwnersAreKnown' /\ AnswersAreTrue' /\ LinksFollowKeys'
    BY <1>1, <1>2 DEF IInv, OwnersAreKnown, OwnedByKnown, AnswersAreTrue, LinksFollowKeys
  <1>5. ProbeIsAlone' /\ AnswerIsWhole' /\ DraftKeeps'
    BY <1>1, <1>2, ProbeAssumption
       DEF IInv, ProbeIsAlone, Probing, AnswerIsWhole, DraftKeeps
  <1>6. QED  BY <1>3, <1>4, <1>5 DEF IInv

LEMMA WriteLinksHolds ==
  ASSUME IInv, NEW m \in Macs, WriteLinks(m)
  PROVE  IInv'
  <1> USE DEF WriteLinks, Step, account
  <1>1. pc'[m] = "idle" /\ ids'[m] = {}
    BY DEF IInv, TypeOK
  <1>2. \A n \in Macs \ {m} : ids'[n] = ids[n] /\ pc'[n] = pc[n]
    BY DEF IInv, TypeOK
  <1>3. TypeOK'
    BY DEF IInv, TypeOK, Steps
  <1>4. \A p \in Providers : links'[p] = (IF p \in ids[m] THEN KeyOf[p] ELSE links[p])
    BY DEF IInv, TypeOK, LinksFollowKeys
  <1>5. LinksFollowKeys'
    BY <1>1, <1>2, <1>4 DEF IInv, LinksFollowKeys
  <1>6. OwnersAreKnown' /\ AnswersAreTrue'
    BY <1>1, <1>2 DEF IInv, OwnersAreKnown, OwnedByKnown, AnswersAreTrue
  <1>7. ProbeIsAlone' /\ AnswerIsWhole' /\ DraftKeeps'
    BY <1>1, <1>2, ProbeAssumption
       DEF IInv, ProbeIsAlone, Probing, AnswerIsWhole, DraftKeeps
  <1>8. QED  BY <1>3, <1>5, <1>6, <1>7 DEF IInv

LEMMA NextHolds == IInv /\ [Next]_vars => IInv'
  <1> SUFFICES ASSUME IInv, [Next]_vars PROVE IInv'  OBVIOUS
  <1>1. ASSUME NEW p \in Providers, Join(p) \/ Leave(p) PROVE IInv'
    <2>1. listed' \subseteq Providers /\ listed \cap Steady \subseteq listed'
      BY <1>1 DEF Join, Leave, IInv, TypeOK
    <2>2. earning' \subseteq Sessions /\ UNCHANGED <<tables, ticks>>
      BY <1>1 DEF Join, Leave, IInv, TypeOK
    <2>3. QED  BY <2>1, <2>2, AccountHolds
  <1>2. ASSUME NEW h \in Hashes, Earn(h) \/ Outdate(h) PROVE IInv'
    <2>1. listed' = listed /\ earning' \subseteq Sessions /\ UNCHANGED <<tables, ticks>>
      BY <1>2 DEF Earn, Outdate, IInv, TypeOK
    <2>2. QED  BY <2>1, AccountHolds DEF IInv, TypeOK
  <1>3. ASSUME NEW m \in Macs, Tick(m) PROVE IInv'
    <2>1. ASSUME FailIdentities(m) \/ Abandon(m) PROVE IInv'
      <3>1. \E step \in {"key", "idle"} : Step(m, step)
        BY <2>1 DEF FailIdentities, Abandon, AfterIdentities
      <3>2. /\ ids' \in [Macs -> SUBSET Providers] /\ ids'[m] = {}
            /\ \A n \in Macs \ {m} : ids'[n] = ids[n]
        BY <2>1 DEF FailIdentities, Abandon, IInv, TypeOK
      <3>3. draft' \subseteq draft /\ (m # Probe => draft' = draft)
        BY <2>1 DEF FailIdentities, Abandon, IInv, ProbeIsAlone, Probing
      <3>4. keyed' = keyed /\ UNCHANGED <<account, tables>>
        BY <2>1 DEF FailIdentities, Abandon
      <3>5. QED  BY <3>1, <3>2, <3>3, <3>4, LeaveHolds
    <2>2. QED
      BY <1>3, <2>1, StartTickHolds, FetchProvidersHolds, FetchEarningsHolds,
         PruneHolds, CommitHolds, FetchKeyHolds, WriteLinksHolds DEF Tick
  <1>4. CASE UNCHANGED vars
    BY <1>4, AccountHolds DEF vars, account, IInv, TypeOK
  <1>5. QED  BY <1>1, <1>2, <1>3, <1>4 DEF Next, Account

-----------------------------------------------------------------------------

(* What a tick has fetched, deleted and not committed yet never speaks     *)
(* against a row that must stay (_ingest_account_provider_identities).     *)
THEOREM Invariance == Spec => []IInv
  BY InitHolds, NextHolds, PTL DEF Spec

(* The state stays in its types.                                           *)
THEOREM TypeCorrect == Spec => []TypeOK
  BY Invariance, PTL DEF IInv

(* Only the commit of the probe's transaction touches the stored rows.     *)
LEMMA OnlyCommitForgets ==
  ASSUME IInv, [Next]_vars
  PROVE  identities' = identities \/ \E m \in Macs : CommitIdentities(m)
  BY DEF Next, Account, Tick, vars, account, tables, ticks, Join, Leave, Earn, Outdate,
         StartTick, FetchProviders, FetchEarnings, Prune, FailIdentities, FetchKey,
         WriteLinks, Abandon

LEMMA IdentityStays ==
  ASSUME IInv, [Next]_vars, NEW row \in identities, row[2] \in Steady \cup snapshots
  PROVE  row \in identities'
  <1>1. CASE identities' = identities  BY <1>1
  <1>2. ASSUME NEW m \in Macs, CommitIdentities(m) PROVE row \in identities'
    <2>1. m = Probe /\ pc[Probe] = "prune" /\ identities' = draft
      BY <1>2 DEF CommitIdentities, IInv, ProbeIsAlone, Probing
    <2>2. row[2] \in Steady \cup Macs  BY DEF IInv, TypeOK
    <2>3. QED  BY <2>1, <2>2 DEF IInv, DraftKeeps
  <1>3. QED  BY <1>1, <1>2, OnlyCommitForgets

\* Nor does a provider that stays and is identified lose its link.
LEMMA LinkStays ==
  ASSUME IInv, [Next]_vars, NEW row \in identities, row[2] \in Steady,
         links[row[2]] # NoMac
  PROVE  links'[row[2]] # NoMac
  <1> DEFINE o == row[2]
  <1>1. o \in Providers /\ Providers \cap Macs = {} /\ NoMac \notin Macs
    BY ProvidersAssumption, ProbeAssumption
  <1>2. CASE links' = links  BY <1>2
  <1>3. ASSUME NEW m \in Macs, CommitIdentities(m) PROVE links'[o] # NoMac
    <2>1. m = Probe /\ pc[Probe] = "prune"
      BY <1>3 DEF CommitIdentities, IInv, ProbeIsAlone, Probing
    <2>2. o \in ids[Probe]
      BY <2>1 DEF IInv, AnswerIsWhole
    <2>3. links'[o] = links[o]
      BY <1>1, <1>3, <2>1, <2>2 DEF CommitIdentities
    <2>4. QED  BY <2>3
  <1>4. ASSUME NEW m \in Macs, WriteLinks(m) PROVE links'[o] # NoMac
    <2>1. links'[o] = IF o \in ids[m] THEN m ELSE links[o]
      BY <1>1, <1>4 DEF WriteLinks
    <2>2. QED  BY <1>1, <2>1
  <1>5. QED
    BY <1>2, <1>3, <1>4
       DEF Next, Account, Tick, vars, account, tables, ticks, Join, Leave, Earn, Outdate,
           StartTick, FetchProviders, FetchEarnings, Prune, FailIdentities, FetchKey,
           Abandon

(* Identities of providers that stay, and of Macs that are alive, survive  *)
(* every tick (_ingest_account_provider_identities), whatever is listed.       *)
THEOREM IdentitiesAreKept == Spec => IdentityIsKept
  <1>1. ASSUME IInv, [Next]_vars,
               NEW row \in identities, row[2] \in Steady \cup snapshots
        PROVE  row \in identities'
    BY <1>1, IdentityStays
  <1>2. IInv /\ [Next]_vars =>
            [\A row \in identities :
                row[2] \in Steady \cup snapshots => row \in identities']_vars
    BY <1>1
  <1>3. QED  BY <1>2, Invariance, PTL DEF Spec, IdentityIsKept

(* A provider that stays keeps its link once it is identified: the safe    *)
(* half of being known for good (_record_provider_fleet_link).             *)
THEOREM LinksAreKept ==
    Spec => [][\A row \in identities :
                  row[2] \in Steady /\ links[row[2]] # NoMac => links'[row[2]] # NoMac]_vars
  <1>1. IInv /\ [Next]_vars =>
            [\A row \in identities :
                row[2] \in Steady /\ links[row[2]] # NoMac => links'[row[2]] # NoMac]_vars
    BY LinkStays
  <1>2. QED  BY <1>1, Invariance, PTL DEF Spec

-----------------------------------------------------------------------------
(* The cards of an answer.                                                 *)

\* Cards exist from the moment the hosts are known.  None is a provider's.
CardsAreHosts == /\ phase # "cards" => DOMAIN cards = {}
                 /\ DOMAIN cards \cap Providers = {}

\* What a card may own, whenever that is read: its host, and the providers whose
\* key that host holds.
MayOwn(c) == {c} \cup {p \in Providers : KeyOf[p] = c}

OwnersAreProven == \A c \in DOMAIN cards : cards[c].owners \subseteq MayOwn(c)

\* A card shows what the one attribution of the answer gives to these.
PayoutsAreOwned ==
    \A c \in DOMAIN cards : \A p \in cards[c].payouts :
        attributed[p.hash] \in MayOwn(c)

StatusInv == CardsAreHosts /\ OwnersAreProven /\ PayoutsAreOwned

-----------------------------------------------------------------------------

LEMMA NewCardFacts ==
    /\ NewCard.owners = {} /\ NewCard.payouts = {}
    /\ ErrorHost.owners = {} /\ ErrorHost.payouts = {}
  BY DEF NewCard, ErrorHost

(* Of the identities the answer needs one fact: links follow the keys.     *)
LEMMA StatusIdentities == StatusSpec => []IInv
  <1>1. StatusInit => IInv
    BY InitHolds DEF StatusInit
  <1>2. IInv /\ [StatusNext]_statusVars => IInv'
    <2> SUFFICES ASSUME IInv, [StatusNext]_statusVars PROVE IInv'  OBVIOUS
    <2>1. [Next]_vars
      BY DEF StatusNext, statusVars, Ingest, Answer, ReadAttribution, ReadUnattributed,
             ReadExtras, SharedFails, ReadOwners, ReadPayouts, CardFails, UpdateCard, Send
    <2>2. QED  BY <2>1, NextHolds
  <1>3. QED  BY <1>1, <1>2, PTL DEF StatusSpec

\* What one card reads changes no other.
LEMMA UpdateHolds ==
  ASSUME StatusInv, NEW c, NEW from, NEW to, UpdateCard(c, from, to),
         to.owners \subseteq MayOwn(c),
         \A p \in to.payouts : attributed[p.hash] \in MayOwn(c)
  PROVE  StatusInv'
  <1>1. DOMAIN cards' = DOMAIN cards /\ c \in DOMAIN cards
    BY DEF UpdateCard
  <1>2. cards'[c] = to /\ \A d \in DOMAIN cards \ {c} : cards'[d] = cards[d]
    BY DEF UpdateCard
  <1>3. phase' = phase /\ attributed' = attributed
    BY DEF UpdateCard
  <1>4. QED
    BY <1>1, <1>2, <1>3
       DEF StatusInv, CardsAreHosts, OwnersAreProven, PayoutsAreOwned, MayOwn

LEMMA CardHolds ==
  ASSUME StatusInv, IInv, NEW c \in Hosts, ReadOwners(c) \/ ReadPayouts(c) \/ CardFails(c)
  PROVE  StatusInv'
  <1>1. CASE ReadOwners(c)
    <2> DEFINE owners == {c} \cup {p \in Providers : links[p] = c}
               to == [NewCard EXCEPT !.state = "owners", !.owners = owners]
    <2>1. to.owners = owners /\ to.payouts = {}
      BY DEF NewCard
    <2>2. UpdateCard(c, "asked", to)
      BY <1>1 DEF ReadOwners
    <2>3. owners \subseteq MayOwn(c)
      BY ProbeAssumption, StatusAssumption DEF Hosts, IInv, LinksFollowKeys, MayOwn
    <2> HIDE DEF to, owners
    <2>4. QED  BY <2>1, <2>2, <2>3, UpdateHolds
  <1>2. CASE ReadPayouts(c)
    <2> DEFINE payouts == {p \in stored : p.at <= now /\ p.hash \in HashesOf(c)}
               to == [NewCard EXCEPT !.state = "complete", !.payouts = payouts]
    <2>1. to.owners = {} /\ to.payouts = payouts
      BY DEF NewCard
    <2>2. UpdateCard(c, "owners", to)
      BY <1>2 DEF ReadPayouts
    <2>3. cards[c].owners \subseteq MayOwn(c)
      BY <2>2 DEF UpdateCard, StatusInv, OwnersAreProven
    <2>4. \A p \in payouts : attributed[p.hash] \in MayOwn(c)
      BY <2>3 DEF HashesOf
    <2> HIDE DEF to, payouts
    <2>5. QED  BY <2>1, <2>2, <2>4, UpdateHolds
  <1>3. CASE CardFails(c)
    BY <1>3, NewCardFacts, UpdateHolds DEF CardFails
  <1>4. QED  BY <1>1, <1>2, <1>3

\* Steps that make cards make them empty, for hosts.
LEMMA EmptyCardsHold ==
  ASSUME NEW hosts, hosts \cap Providers = {}, NEW card,
         card.owners = {}, card.payouts = {},
         cards' = [c \in hosts |-> card], phase' = "cards"
  PROVE  StatusInv'
  BY DEF StatusInv, CardsAreHosts, OwnersAreProven, PayoutsAreOwned

LEMMA NoCardsHold ==
  ASSUME DOMAIN cards' = {}
  PROVE  StatusInv'
  BY DEF StatusInv, CardsAreHosts, OwnersAreProven, PayoutsAreOwned

LEMMA StatusInitHolds == StatusInit => StatusInv
  BY DEF StatusInit, StatusInv, CardsAreHosts, OwnersAreProven, PayoutsAreOwned

LEMMA StatusNextHolds == IInv /\ StatusInv /\ [StatusNext]_statusVars => StatusInv'
  <1> SUFFICES ASSUME IInv, StatusInv, [StatusNext]_statusVars PROVE StatusInv'
    OBVIOUS
  <1>1. CASE UNCHANGED answer
    BY <1>1 DEF answer, StatusInv, CardsAreHosts, OwnersAreProven, PayoutsAreOwned
  <1>2. CASE ReadAttribution \/ ReadUnattributed
    <2>1. DOMAIN cards' = {}
      BY <1>2 DEF ReadAttribution, ReadUnattributed, StatusInv, CardsAreHosts
    <2>2. QED  BY <2>1, NoCardsHold
  <1>3. CASE ReadExtras
    <2>1. (Macs \cup (extras' \ Providers)) \cap Providers = {}
      BY ProvidersAssumption
    <2>2. QED  BY <1>3, <2>1, NewCardFacts, EmptyCardsHold DEF ReadExtras
  <1>4. CASE SharedFails
    BY <1>4, ProvidersAssumption, NewCardFacts, EmptyCardsHold DEF SharedFails
  <1>5. ASSUME NEW c \in Hosts, ReadOwners(c) \/ ReadPayouts(c) \/ CardFails(c)
        PROVE  StatusInv'
    BY <1>5, CardHolds
  <1>6. CASE Send
    <2>1. DOMAIN cards' = {}  BY <1>6 DEF Send, NoAnswer
    <2>2. QED  BY <2>1, NoCardsHold
  <1>7. QED
    BY <1>1, <1>2, <1>3, <1>4, <1>5, <1>6 DEF StatusNext, Ingest, Answer, statusVars

-----------------------------------------------------------------------------

(* An owner has one card.                                                  *)
LEMMA OneOwner ==
  ASSUME CardsAreHosts, NEW c \in DOMAIN cards, NEW d \in DOMAIN cards,
         NEW o \in MayOwn(c), o \in MayOwn(d)
  PROVE  c = d
  BY DEF CardsAreHosts, MayOwn

LEMMA OneCardHolds == StatusInv => OneCard
  <1> SUFFICES ASSUME StatusInv, NEW p \in Payouts
               PROVE  Cardinality(Shown(p)) <= 1
    BY DEF OneCard
  <1>1. \A c, d \in Shown(p) : c = d
    BY OneOwner DEF StatusInv, PayoutsAreOwned, Shown
  <1>2. CASE Shown(p) = {}
    BY <1>2, FS_EmptySet
  <1>3. ASSUME NEW c \in Shown(p) PROVE Cardinality(Shown(p)) <= 1
    <2>1. Shown(p) = {c}  BY <1>1
    <2>2. QED  BY <2>1, FS_Singleton
  <1>4. QED  BY <1>2, <1>3

(* No payout is on two cards of an answer, although each card reads its    *)
(* owners in a transaction of its own (_owner_aliases, build_status):      *)
(* links follow the keys, and all cards share one attribution.             *)
THEOREM PayoutsAreOnOneCard == StatusSpec => []OneCard
  <1>1. StatusSpec => []StatusInv
    BY StatusInitHolds, StatusNextHolds, StatusIdentities, PTL DEF StatusSpec
  <1>2. QED  BY <1>1, OneCardHolds, PTL

-----------------------------------------------------------------------------
(* The types.                                                              *)

\* The steps of the answer leave the tables alone, those of the tables the answer.
LEMMA AnswerKeepsTables ==
  ASSUME [StatusNext]_statusVars
  PROVE  /\ now' = now
         /\ \/ [Next]_vars /\ UNCHANGED answer
            \/ Answer /\ UNCHANGED <<vars, stored>>
         /\ \/ UNCHANGED stored
            \/ UNCHANGED answer /\ \E p \in Payouts : stored' = stored \cup {p}
  BY DEF StatusNext, statusVars, Ingest, answer, Answer, ReadAttribution,
         ReadUnattributed, ReadExtras, SharedFails, ReadOwners, ReadPayouts, CardFails,
         UpdateCard, Send

\* A card shows no payout of tomorrow.
DueCards == {card \in Card : \A p \in card.payouts : p.at <= now}

AnswerTypes ==
    /\ stored \subseteq Payouts /\ Payouts \ Late \subseteq stored
    /\ now \in Nows
    /\ phase \in {"none", "unattributed", "extras", "cards"}
    /\ attributed \in Owned
    /\ counted \subseteq Payouts
    /\ extras \subseteq known /\ known \subseteq Providers \cup Hosts
    /\ DOMAIN cards \subseteq Hosts
    /\ \A c \in DOMAIN cards : cards[c] \in DueCards

LEMMA TypedIsTyped == IInv /\ AnswerTypes => StatusTypeOK
  BY DEF IInv, AnswerTypes, StatusTypeOK, Range, DueCards

LEMMA NewCardIsCard == \A time : \A card \in {NewCard, ErrorHost} :
                          card \in Card /\ \A p \in card.payouts : p.at <= time
  BY DEF NewCard, ErrorHost, Card

LEMMA DiscoveredFacts ==
  ASSUME IInv
  PROVE  /\ Discovered \subseteq Known \ Macs
         /\ Known \subseteq Providers \cup Hosts
  <1>1. Known \subseteq Providers \cup Hosts
    BY DEF Known, Hosts, IInv, TypeOK
  <1>2. Discovered \subseteq Known \ Macs
    BY DEF Discovered
  <1>3. QED  BY <1>1, <1>2

LEMMA UpdateIsTyped ==
  ASSUME AnswerTypes, NEW c, NEW from, NEW to \in DueCards, UpdateCard(c, from, to)
  PROVE  AnswerTypes'
  <1>1. /\ DOMAIN cards' = DOMAIN cards /\ c \in DOMAIN cards
        /\ cards'[c] = to /\ \A d \in DOMAIN cards \ {c} : cards'[d] = cards[d]
    BY DEF UpdateCard
  <1>2. UNCHANGED <<stored, now, phase, attributed, counted, extras, known>>
    BY DEF UpdateCard
  <1>3. DueCards' = DueCards
    BY <1>2 DEF DueCards
  <1>4. QED  BY <1>1, <1>2, <1>3 DEF AnswerTypes

LEMMA CardIsTyped ==
  ASSUME AnswerTypes, IInv, NEW c \in Hosts, ReadOwners(c) \/ ReadPayouts(c) \/ CardFails(c)
  PROVE  AnswerTypes'
  <1>1. CASE ReadOwners(c)
    <2> DEFINE to == [NewCard EXCEPT
                        !.state = "owners", !.owners = {c} \cup {p \in Providers : links[p] = c}]
    <2>1. to \in DueCards
      BY DEF NewCard, Card, DueCards
    <2>2. UpdateCard(c, "asked", to)
      BY <1>1 DEF ReadOwners
    <2> HIDE DEF to
    <2>3. QED  BY <2>1, <2>2, UpdateIsTyped
  <1>2. CASE ReadPayouts(c)
    <2> DEFINE to == [NewCard EXCEPT
                        !.state = "complete",
                        !.payouts = {p \in stored : p.at <= now /\ p.hash \in HashesOf(c)}]
    <2>1. to \in DueCards
      BY DEF NewCard, Card, DueCards, AnswerTypes
    <2>2. UpdateCard(c, "owners", to)
      BY <1>2 DEF ReadPayouts
    <2> HIDE DEF to
    <2>3. QED  BY <2>1, <2>2, UpdateIsTyped
  <1>3. CASE CardFails(c)
    BY <1>3, NewCardIsCard, UpdateIsTyped DEF CardFails, DueCards
  <1>4. QED  BY <1>1, <1>2, <1>3

LEMMA InitIsTyped == StatusInit => AnswerTypes
  BY DEF StatusInit, AnswerTypes, Owned

LEMMA NextIsTyped == IInv /\ AnswerTypes /\ [StatusNext]_statusVars => AnswerTypes'
  <1> SUFFICES ASSUME IInv, AnswerTypes, [StatusNext]_statusVars PROVE AnswerTypes'
    OBVIOUS
  <1>0. NewCard \in DueCards' /\ ErrorHost \in DueCards'
    BY NewCardIsCard DEF DueCards
  <1>1. CASE UNCHANGED answer
    BY <1>1, AnswerKeepsTables DEF answer, AnswerTypes, DueCards
  <1>2. CASE ReadAttribution
    BY <1>2 DEF ReadAttribution, AnswerTypes, DueCards
  <1>3. CASE ReadUnattributed
    BY <1>3 DEF ReadUnattributed, AnswerTypes, DueCards
  <1>4. CASE ReadExtras
    <2>1. extras' \subseteq known' /\ known' \subseteq Providers \cup Hosts
      BY <1>4, DiscoveredFacts DEF ReadExtras
    <2>2. Macs \cup (extras' \ Providers) \subseteq Hosts
      BY <2>1 DEF Hosts
    <2>3. DOMAIN cards' \subseteq Hosts /\ \A c \in DOMAIN cards' : cards'[c] = NewCard
      BY <1>4, <2>2 DEF ReadExtras
    <2>4. \A c \in DOMAIN cards' : cards'[c] \in DueCards'
      BY <1>0, <2>3
    <2>5. QED  BY <1>4, <2>1, <2>3, <2>4 DEF ReadExtras, AnswerTypes
  <1>5. CASE SharedFails
    <2>1. DOMAIN cards' \subseteq Hosts /\ \A c \in DOMAIN cards' : cards'[c] = ErrorHost
      BY <1>5 DEF SharedFails, Hosts
    <2>2. \A c \in DOMAIN cards' : cards'[c] \in DueCards'
      BY <1>0, <2>1
    <2>3. QED  BY <1>5, <2>1, <2>2 DEF SharedFails, AnswerTypes
  <1>6. ASSUME NEW c \in Hosts, ReadOwners(c) \/ ReadPayouts(c) \/ CardFails(c)
        PROVE  AnswerTypes'
    BY <1>6, CardIsTyped
  <1>7. CASE Send
    BY <1>7 DEF Send, NoAnswer, AnswerTypes, Owned
  <1>8. QED
    BY <1>1, <1>2, <1>3, <1>4, <1>5, <1>6, <1>7, AnswerKeepsTables DEF Answer

LEMMA AnswersAreTyped == StatusSpec => []AnswerTypes
  BY InitIsTyped, NextIsTyped, StatusIdentities, PTL DEF StatusSpec

(* The answer stays in its types through every failure of a part of it:    *)
(* cards are of hosts, whatever ids are discovered.                        *)
THEOREM StatusTypeCorrect == StatusSpec => []StatusTypeOK
  BY AnswersAreTyped, StatusIdentities, TypedIsTyped, PTL

-----------------------------------------------------------------------------
(* What is on no card is told.  A payout that the answer can lose has an   *)
(* owner who is still to be found on a card when the cards are made: the   *)
(* host, or a provider whose link can only be won, not lost, meanwhile;    *)
(* or it is behind a full list of discovered ids.                          *)

InError == \E c \in DOMAIN cards : cards[c] = ErrorHost

\* The answer has gone this far without an error for all.
Counted == phase = "extras" \/ (phase = "cards" /\ ~ InError)
Carded == phase = "cards" /\ ~ InError

UnownedIsCounted ==
    Counted => \A p \in Payouts \ Late : p.at <= now /\ OwnerOf(p) = Nobody => p \in counted

OwnerIsIdentified ==
    \A h \in Hashes : attributed[h] \in Steady => <<h, attributed[h]>> \in identities

\* Whose card a hash belongs on.
Home(h, c) == \/ attributed[h] = c
              \/ /\ attributed[h] \in Steady \ known
                 /\ KeyOf[attributed[h]] = c

\* What is known and has no collector is listed, or behind a full list.
ListedOrCut == Carded => known \subseteq extras \cup CutOff

LinkedOrKnown ==
    Carded => \A h \in Hashes :
        attributed[h] \in Steady => attributed[h] \in known \/ links[attributed[h]] # NoMac

HostsHaveCards ==
    Carded => /\ Macs \subseteq DOMAIN cards
              /\ Former \subseteq DOMAIN cards \cup CutOff

CardShowsHome ==
    Carded => \A c \in DOMAIN cards :
        /\ cards[c].state # "failed"
        /\ cards[c].state = "owners" =>
              \A h \in Hashes : Home(h, c) => attributed[h] \in cards[c].owners
        /\ cards[c].state = "complete" =>
              \A p \in Payouts \ Late :
                  p.at <= now /\ p.hash # NoHash /\ Home(p.hash, c) => p \in cards[c].payouts

LossInv == /\ UnownedIsCounted /\ OwnerIsIdentified /\ ListedOrCut
           /\ LinkedOrKnown /\ HostsHaveCards /\ CardShowsHome

LEMMA PayoutFacts ==
  ASSUME AnswerTypes, NEW p \in Payouts
  PROVE  /\ p.at \in Nat /\ now \in Nat
         /\ p.hash # NoHash => p.hash \in Hashes /\ OwnerOf(p) = attributed[p.hash]
         /\ p.hash = NoHash => OwnerOf(p) = Nobody
  BY StatusAssumption DEF AnswerTypes, OwnerOf

\* Any set of numbers has a least one.
LEMMA LeastExists ==
  ASSUME NEW S \in SUBSET Nat, S # {}
  PROVE  \E i \in S : \A j \in S : i <= j
  <1> DEFINE less == OpToRel(<, Nat)
  <1>1. IsWellFoundedOn(less, Nat)
    BY NatLessThanWellFounded
  <1>2. \A i, j \in Nat : i < j => <<i, j>> \in less
    BY DEF OpToRel
  <1> HIDE DEF less
  <1>3. PICK i \in S : \A j \in S : ~ (<<j, i>> \in less)
    BY <1>1, WFMin
  <1>4. ASSUME NEW j \in S PROVE i <= j
    <2>1. i \in Nat /\ j \in Nat  OBVIOUS
    <2>2. ~ (j < i)  BY <1>2, <1>3, <2>1
    <2>3. QED  BY <2>1, <2>2
  <1>5. QED  BY <1>4

\* All that is known and has no collector is discovered, or behind a full list.
LEMMA DiscoveredOrBehind ==
  ASSUME IInv, NEW o \in Known \ Macs, o \notin Discovered
  PROVE  /\ Cardinality(Discovered) >= MaxDiscovered
         /\ \A e \in Discovered : Place(e) < Place(o)
  <1> DEFINE places == {i \in DOMAIN Order : Order[i] \in Known \ Macs}
             upTo(j) == {k \in places : k <= j}
             first == {j \in places : Cardinality(upTo(j)) <= MaxDiscovered}
  <1>1. DOMAIN Order = 1 .. Len(Order) /\ Len(Order) \in Nat /\ MaxDiscovered \in Nat
    BY StatusAssumption
  <1>2. places \subseteq Nat /\ IsFiniteSet(places)
    <2>1. IsFiniteSet(1 .. Len(Order))
      BY <1>1, FS_Interval
    <2>2. QED  BY <1>1, <2>1, FS_Subset
  <1>3. Discovered = {Order[i] : i \in first}
    BY DEF Discovered
  <1>4. \A i \in DOMAIN Order : Place(Order[i]) = i
    BY StatusAssumption DEF Place
  <1>5. PICK q \in places : Order[q] = o
    <2>1. o \in Providers \cup Macs \cup Former
      BY DEF Known, IInv, TypeOK
    <2>2. QED  BY <2>1, StatusAssumption DEF ToSet
  <1>6. q \notin first
    BY <1>3, <1>5
  \* The rank of a place grows.
  <1>7. ASSUME NEW i \in places, NEW j \in first, i <= j PROVE i \in first
    <2>1. upTo(i) \subseteq upTo(j) /\ IsFiniteSet(upTo(j))
      BY <1>2, <1>7, FS_Subset
    <2>2. Cardinality(upTo(j)) <= MaxDiscovered
      OBVIOUS
    <2> HIDE DEF upTo
    <2>3. /\ Cardinality(upTo(i)) <= Cardinality(upTo(j)) /\ IsFiniteSet(upTo(i))
          /\ Cardinality(upTo(i)) \in Nat /\ Cardinality(upTo(j)) \in Nat
      BY <2>1, FS_Subset, FS_CardinalityType
    <2>4. Cardinality(upTo(i)) <= MaxDiscovered
      BY <1>1, <2>2, <2>3
    <2>5. QED  BY <2>4
  <1>8. first \subseteq places /\ IsFiniteSet(first)
    <2>1. first \in SUBSET places
      OBVIOUS
    <2> HIDE DEF first, places
    <2>2. QED  BY <1>2, <2>1, FS_Subset
  <1>9. \A i \in first : i < q
    <2>1. ASSUME NEW i \in first, ~ (i < q) PROVE FALSE
      <3>1. q \in Nat /\ i \in Nat /\ q <= i
        BY <1>2, <1>8, <2>1
      <3>2. QED  BY <1>6, <1>7, <3>1
    <2>2. QED  BY <2>1
  <1>10. Cardinality(Discovered) = Cardinality(first)
    <2> DEFINE id == [i \in first |-> Order[i]]
    <2>1. \A i, j \in first : Order[i] = Order[j] => i = j
      BY StatusAssumption
    <2> HIDE DEF first
    <2>2. id \in Bijection(first, Discovered)
      BY <1>3, <2>1, Fun_IsBij
    <2>3. ExistsBijection(first, Discovered)
      BY <2>2 DEF ExistsBijection
    <2>4. QED  BY <1>8, <2>3, FS_Bijection
  \* The first place that is cut off has all others at or before it.
  <1>11. PICK r \in places \ first : \A j \in places \ first : r <= j
    <2>1. places \ first \in SUBSET Nat /\ places \ first # {}
      BY <1>2, <1>5, <1>6
    <2> HIDE DEF first, places
    <2>2. QED  BY <2>1, LeastExists
  <1>12. upTo(r) = first \cup {r}
    <2>1. \A k \in places : k <= r => k \in first \cup {r}
      <3> SUFFICES ASSUME NEW k \in places, k <= r, k \notin first PROVE k = r
        OBVIOUS
      <3>1. r <= k /\ k \in Nat /\ r \in Nat
        BY <1>2, <1>11
      <3>2. QED  BY <3>1
    <2>2. ASSUME NEW k \in first PROVE k <= r
      <3>1. k \in Nat /\ r \in Nat
        BY <1>2, <1>8
      <3>2. ~ (r <= k)
        BY <1>7, <1>11
      <3>3. QED  BY <3>1, <3>2
    <2>3. r \in places /\ r <= r
      BY <1>2
    <2> HIDE DEF first
    <2>4. QED  BY <1>8, <2>1, <2>2, <2>3
  <1>13. ~ (Cardinality(upTo(r)) <= MaxDiscovered)
    BY <1>11
  <1> HIDE DEF first, upTo, places
  <1>14. Cardinality(first \cup {r}) = Cardinality(first) + 1 /\ Cardinality(first) \in Nat
    BY <1>8, <1>11, FS_AddElement, FS_CardinalityType
  <1>15. Cardinality(Discovered) >= MaxDiscovered
    BY <1>1, <1>10, <1>12, <1>13, <1>14
  <1>16. ASSUME NEW e \in Discovered PROVE Place(e) < Place(o)
    <2>1. PICK i \in first : e = Order[i]
      BY <1>3
    <2>2. Place(e) = i /\ Place(o) = q
      BY <1>4, <1>5, <1>8, <2>1 DEF places
    <2>3. QED  BY <1>9, <2>2
  <1>17. QED  BY <1>15, <1>16

\* An owner whom the answer finds is nobody, a host, or identified.
LEMMA OwnersFound ==
  ASSUME IInv, ReadAttribution, NEW h \in Hashes, attributed'[h] \in Steady
  PROVE  <<h, attributed'[h]>> \in identities
  <1>1. attributed'[h] \in PossibleOwners(h)
    BY DEF ReadAttribution
  <1>2. /\ attributed'[h] \in Providers /\ attributed'[h] # Nobody
        /\ attributed'[h] \notin Voted
    BY StatusAssumption, ProvidersAssumption
  <1>3. attributed'[h] \in Owners(h)
    BY <1>1, <1>2 DEF PossibleOwners
  <1>4. QED  BY <1>3 DEF Owners

LEMMA AttributionLoses ==
  ASSUME IInv, ReadAttribution
  PROVE  LossInv'
  <1>1. phase' = "unattributed" /\ identities' = identities
    BY DEF ReadAttribution, vars, tables
  <1>2. ~ Counted' /\ ~ Carded'
    BY <1>1 DEF Counted, Carded
  <1>3. OwnerIsIdentified'
    BY <1>1, OwnersFound DEF OwnerIsIdentified
  <1>4. QED
    BY <1>2, <1>3
       DEF LossInv, UnownedIsCounted, ListedOrCut, LinkedOrKnown, HostsHaveCards, CardShowsHome

LEMMA UnattributedLoses ==
  ASSUME AnswerTypes, LossInv, ReadUnattributed
  PROVE  LossInv'
  <1>1. phase = "unattributed" /\ phase' = "extras" /\ identities' = identities
        /\ attributed' = attributed /\ now' = now
    BY DEF ReadUnattributed, vars, tables
  <1>2. ~ Carded'
    BY <1>1 DEF Carded
  <1>3. OwnerIsIdentified'
    BY <1>1 DEF LossInv, OwnerIsIdentified
  <1>4. UnownedIsCounted'
    BY <1>1 DEF ReadUnattributed, AnswerTypes, UnownedIsCounted, OwnerOf
  <1>5. QED
    BY <1>2, <1>3, <1>4 DEF LossInv, ListedOrCut, LinkedOrKnown, HostsHaveCards, CardShowsHome

LEMMA ExtrasLoses ==
  ASSUME IInv, AnswerTypes, LossInv, ReadExtras
  PROVE  LossInv'
  <1>1. /\ phase = "extras" /\ phase' = "cards" /\ identities' = identities
        /\ attributed' = attributed /\ now' = now /\ links' = links /\ counted' = counted
        /\ extras' = Discovered /\ known' = Known \ Macs
        /\ cards' = [c \in Macs \cup (extras' \ Providers) |-> NewCard]
    BY DEF ReadExtras, vars, tables
  <1>2. OwnerIsIdentified'
    BY <1>1 DEF LossInv, OwnerIsIdentified
  <1>3. UnownedIsCounted'
    BY <1>1 DEF LossInv, UnownedIsCounted, Counted, OwnerOf
  <1>4. LinkedOrKnown'
    <2> SUFFICES ASSUME NEW h \in Hashes, attributed[h] \in Steady, links[attributed[h]] = NoMac
                 PROVE  attributed[h] \in Known \ Macs
      BY <1>1 DEF LinkedOrKnown
    <2>1. <<h, attributed[h]>> \in identities
      BY <1>1 DEF LossInv, OwnerIsIdentified
    <2>2. attributed[h] \in Providers /\ attributed[h] \notin Macs
      BY ProvidersAssumption
    <2>3. QED  BY <2>1, <2>2 DEF Known
  <1>5. known' \subseteq extras' \cup CutOff'
    BY <1>1, DiscoveredOrBehind DEF CutOff
  <1>6. ListedOrCut'
    BY <1>5 DEF ListedOrCut
  <1>7. HostsHaveCards'
    <2>1. Former \subseteq known' /\ Former \cap Providers = {}
      BY <1>1, StatusAssumption DEF Known
    <2>2. DOMAIN cards' = Macs \cup (extras' \ Providers)
      BY <1>1
    <2>3. QED  BY <1>5, <2>1, <2>2 DEF HostsHaveCards
  <1>8. CardShowsHome'
    <2>1. NewCard.state = "asked"
      BY DEF NewCard
    <2>2. QED  BY <1>1, <2>1 DEF CardShowsHome
  <1>9. QED  BY <1>2, <1>3, <1>4, <1>6, <1>7, <1>8 DEF LossInv

LEMMA SharedLoses ==
  ASSUME LossInv, SharedFails
  PROVE  LossInv'
  <1>1. phase' = "cards" /\ identities' = identities
        /\ attributed' = attributed /\ cards' = [c \in Macs |-> ErrorHost]
    BY DEF SharedFails, vars, tables
  <1>2. InError'
    BY <1>1, ProbeAssumption DEF InError
  <1>3. ~ Counted' /\ ~ Carded'
    BY <1>1, <1>2 DEF Counted, Carded
  <1>4. OwnerIsIdentified'
    BY <1>1 DEF LossInv, OwnerIsIdentified
  <1>5. QED
    BY <1>3, <1>4
       DEF LossInv, UnownedIsCounted, ListedOrCut, LinkedOrKnown, HostsHaveCards, CardShowsHome

\* A card that is put in place of an unfinished one, and shows its home.
ShowsHome(c, card) ==
    /\ card.state # "failed"
    /\ card.state = "owners" =>
          \A h \in Hashes : Home(h, c) => attributed[h] \in card.owners
    /\ card.state = "complete" =>
          \A p \in Payouts \ Late :
              p.at <= now /\ p.hash # NoHash /\ Home(p.hash, c) => p \in card.payouts

LEMMA UpdateLoses ==
  ASSUME LossInv, NEW c, NEW from \in {"asked", "owners"}, NEW to, UpdateCard(c, from, to),
         Carded => to = ErrorHost \/ ShowsHome(c, to)
  PROVE  LossInv'
  <1>1. /\ DOMAIN cards' = DOMAIN cards /\ c \in DOMAIN cards
        /\ cards'[c] = to /\ \A d \in DOMAIN cards \ {c} : cards'[d] = cards[d]
        /\ cards[c].state = from /\ phase = "cards"
    BY DEF UpdateCard
  <1>2. UNCHANGED <<vars, now, phase, attributed, counted, extras, known>>
    BY DEF UpdateCard
  <1>3. InError => InError'
    <2>1. cards[c] # ErrorHost
      BY <1>1 DEF ErrorHost
    <2>2. QED  BY <1>1, <2>1 DEF InError
  <1>4. OwnerIsIdentified'
    BY <1>2 DEF LossInv, OwnerIsIdentified, vars, tables
  <1>5. SUFFICES ASSUME Carded' PROVE LossInv'
    BY <1>1, <1>2, <1>4
       DEF LossInv, UnownedIsCounted, Counted, Carded, ListedOrCut, LinkedOrKnown,
           HostsHaveCards, CardShowsHome
  <1>6. Carded /\ Counted /\ ~ InError'
    BY <1>2, <1>3, <1>5 DEF Carded, Counted
  <1>7. to # ErrorHost
    BY <1>1, <1>6 DEF InError
  <1>8. UnownedIsCounted' /\ ListedOrCut' /\ LinkedOrKnown' /\ HostsHaveCards'
    BY <1>1, <1>2, <1>6
       DEF LossInv, UnownedIsCounted, OwnerOf, ListedOrCut, LinkedOrKnown, HostsHaveCards,
           CutOff, vars, tables
  <1>9. CardShowsHome'
    <2>1. \A d \in DOMAIN cards : ShowsHome(d, cards[d])
      BY <1>6 DEF LossInv, CardShowsHome, ShowsHome
    <2>2. \A d \in DOMAIN cards : ShowsHome(d, cards'[d])
      BY <1>1, <1>6, <1>7, <2>1
    <2>3. QED  BY <1>1, <1>2, <2>2 DEF CardShowsHome, ShowsHome, Home
  <1>10. QED  BY <1>4, <1>8, <1>9 DEF LossInv

LEMMA CardLoses ==
  ASSUME IInv, AnswerTypes, LossInv, NEW c \in Hosts,
         ReadOwners(c) \/ ReadPayouts(c) \/ CardFails(c)
  PROVE  LossInv'
  <1>1. CASE ReadOwners(c)
    <2> DEFINE owners == {c} \cup {p \in Providers : links[p] = c}
               to == [NewCard EXCEPT !.state = "owners", !.owners = owners]
    <2>1. to.state = "owners" /\ to.owners = owners
      BY DEF NewCard
    <2>2. UpdateCard(c, "asked", to)
      BY <1>1 DEF ReadOwners
    <2>3. ASSUME Carded, NEW h \in Hashes, Home(h, c) PROVE attributed[h] \in owners
      <3>1. CASE attributed[h] = c
        BY <3>1
      <3>2. CASE attributed[h] \in Steady \ known /\ KeyOf[attributed[h]] = c
        <4>1. attributed[h] \in Providers
          BY <3>2, ProvidersAssumption
        <4>2. links[attributed[h]] # NoMac
          BY <2>3, <3>2 DEF LossInv, LinkedOrKnown
        <4>3. links[attributed[h]] = c
          BY <3>2, <4>1, <4>2 DEF IInv, LinksFollowKeys
        <4>4. QED  BY <4>1, <4>3
      <3>3. QED  BY <2>3, <3>1, <3>2 DEF Home
    <2> HIDE DEF owners, to
    <2>4. Carded => ShowsHome(c, to)
      BY <2>1, <2>3 DEF ShowsHome
    <2>5. QED  BY <2>2, <2>4, UpdateLoses
  <1>2. CASE ReadPayouts(c)
    <2> DEFINE payouts == {p \in stored : p.at <= now /\ p.hash \in HashesOf(c)}
               to == [NewCard EXCEPT !.state = "complete", !.payouts = payouts]
    <2>1. to.state = "complete" /\ to.payouts = payouts
      BY DEF NewCard
    <2>2. UpdateCard(c, "owners", to)
      BY <1>2 DEF ReadPayouts
    <2>3. ASSUME Carded, NEW p \in Payouts \ Late, p.at <= now, p.hash # NoHash, Home(p.hash, c)
          PROVE  p \in payouts
      <3>1. p.hash \in Hashes /\ p \in stored
        BY <2>3, PayoutFacts DEF AnswerTypes
      <3>2. c \in DOMAIN cards /\ cards[c].state = "owners"
        BY <2>2 DEF UpdateCard
      <3>3. attributed[p.hash] \in cards[c].owners
        BY <2>3, <3>1, <3>2 DEF LossInv, CardShowsHome
      <3>4. QED  BY <2>3, <3>1, <3>3 DEF HashesOf
    <2> HIDE DEF payouts, to
    <2>4. Carded => ShowsHome(c, to)
      BY <2>1, <2>3 DEF ShowsHome
    <2>5. QED  BY <2>2, <2>4, UpdateLoses
  <1>3. CASE CardFails(c)
    BY <1>3, UpdateLoses DEF CardFails
  <1>4. QED  BY <1>1, <1>2, <1>3

\* Whatever the collectors do to the tables, the owners stay identified and linked.
LEMMA TablesLose ==
  ASSUME IInv, LossInv, [Next]_vars, UNCHANGED <<answer, now>>
  PROVE  LossInv'
  <1>1. OwnerIsIdentified'
    <2> SUFFICES ASSUME NEW h \in Hashes, attributed[h] \in Steady
                 PROVE  <<h, attributed[h]>> \in identities'
      BY DEF OwnerIsIdentified, answer
    <2>1. <<h, attributed[h]>> \in identities
      BY DEF LossInv, OwnerIsIdentified
    <2>2. QED  BY <2>1, IdentityStays
  <1>2. LinkedOrKnown'
    <2> SUFFICES ASSUME Carded, NEW h \in Hashes, attributed[h] \in Steady \ known
                 PROVE  links'[attributed[h]] # NoMac
      BY DEF LinkedOrKnown, Carded, InError, answer
    <2>1. <<h, attributed[h]>> \in identities
      BY DEF LossInv, OwnerIsIdentified, Carded
    <2>2. links[attributed[h]] # NoMac
      BY DEF LossInv, LinkedOrKnown
    <2>3. QED  BY <2>1, <2>2, LinkStays
  <1>3. UnownedIsCounted' /\ ListedOrCut' /\ HostsHaveCards' /\ CardShowsHome'
    BY DEF LossInv, UnownedIsCounted, ListedOrCut, HostsHaveCards, CardShowsHome, CutOff,
           Counted, Carded, InError, OwnerOf, Home, answer
  <1>4. QED  BY <1>1, <1>2, <1>3 DEF LossInv

\* Nobody is not a provider, and before the attribution is read nobody owns a hash.
LEMMA NoAnswerLoses ==
  ASSUME attributed' = [h \in Hashes |-> Nobody], phase' = "none"
  PROVE  LossInv'
  <1>1. Nobody \notin Steady
    BY StatusAssumption, ProvidersAssumption
  <1>2. QED
    BY <1>1 DEF LossInv, UnownedIsCounted, OwnerIsIdentified, ListedOrCut, LinkedOrKnown,
                HostsHaveCards, CardShowsHome, Counted, Carded

LEMMA InitLoses == StatusInit => LossInv
  <1>1. Nobody \notin Steady
    BY StatusAssumption, ProvidersAssumption
  <1>2. QED
    BY <1>1 DEF StatusInit, LossInv, UnownedIsCounted, OwnerIsIdentified, ListedOrCut,
                LinkedOrKnown, HostsHaveCards, CardShowsHome, Counted, Carded

LEMMA NextLoses ==
  ASSUME IInv, AnswerTypes, LossInv, [StatusNext]_statusVars
  PROVE  LossInv'
  <1>1. CASE UNCHANGED answer
    <2>1. [Next]_vars /\ now' = now
      BY DEF StatusNext, statusVars, Ingest, Answer, ReadAttribution, ReadUnattributed,
             ReadExtras, SharedFails, ReadOwners, ReadPayouts, CardFails, UpdateCard, Send
    <2>2. QED  BY <1>1, <2>1, TablesLose
  <1>2. CASE Send
    BY <1>2, NoAnswerLoses DEF Send, NoAnswer
  <1>3. QED
    BY <1>1, <1>2, AnswerKeepsTables, AttributionLoses, UnattributedLoses, ExtrasLoses,
       SharedLoses, CardLoses DEF Answer

\* An answer that is complete has every payout on the card of its home.
LEMMA LossIsTold == IInv /\ AnswerTypes /\ LossInv => NothingIsLost
  <1> SUFFICES ASSUME IInv, AnswerTypes, LossInv, Complete, ~ InError,
                      NEW p \in Payouts \ Late, ~ (p.at > now),
                      OwnerOf(p) \notin Providers \ Steady,
                      p \notin counted, OwnerOf(p) \notin CutOff,
                      OwnerOf(p) \notin extras \cap Providers
               PROVE  Shown(p) # {}
    BY DEF NothingIsLost, InError
  <1>1. Carded /\ Counted
    BY DEF Complete, Carded, Counted
  <1>2. p.at <= now
    BY PayoutFacts
  <1>3. OwnerOf(p) # Nobody
    BY <1>1, <1>2 DEF LossInv, UnownedIsCounted
  <1> DEFINE h == p.hash
  <1>4. h \in Hashes /\ OwnerOf(p) = attributed[h] /\ h # NoHash
    BY <1>3, PayoutFacts
  <1>5. attributed[h] \in Steady \/ attributed[h] \in Hosts
    BY <1>3, <1>4 DEF AnswerTypes, Owned
  <1>6. \E c \in DOMAIN cards : Home(h, c)
    <2>1. CASE attributed[h] \in Hosts
      BY <1>1, <1>4, <2>1 DEF LossInv, HostsHaveCards, Home, Hosts
    <2>2. CASE attributed[h] \in Steady
      <3>1. attributed[h] \in Providers
        BY <2>2, ProvidersAssumption
      <3>2. attributed[h] \notin known
        BY <1>1, <1>4, <3>1 DEF LossInv, ListedOrCut
      <3>3. links[attributed[h]] # NoMac
        BY <1>1, <1>4, <2>2, <3>2 DEF LossInv, LinkedOrKnown
      <3>4. KeyOf[attributed[h]] \in Macs
        BY <3>1, <3>3 DEF IInv, TypeOK, LinksFollowKeys
      <3>5. QED  BY <1>1, <1>4, <2>2, <3>2, <3>4 DEF LossInv, HostsHaveCards, Home
    <2>3. QED  BY <1>5, <2>1, <2>2
  <1>7. PICK c \in DOMAIN cards : Home(h, c)
    BY <1>6
  <1>8. cards[c].state = "complete"
    BY <1>1 DEF Complete, LossInv, CardShowsHome
  <1>9. p \in cards[c].payouts
    BY <1>1, <1>2, <1>4, <1>7, <1>8 DEF LossInv, CardShowsHome
  <1>10. QED  BY <1>9 DEF Shown

(* No payout of a host or of a provider that stays is missing from an      *)
(* answer without a trace, but behind a full list of discovered ids:       *)
(* whatever the collectors link, prune and identify between its reads      *)
(* (shared_status_data, unconfigured_host_ids, build_status), for every    *)
(* cap.                                                                    *)
THEOREM LossesAreTold == StatusSpec => []NothingIsLost
  <1>1. IInv /\ AnswerTypes /\ LossInv /\ [StatusNext]_statusVars => LossInv'
    BY NextLoses
  <1>2. StatusSpec => []LossInv
    BY <1>1, InitLoses, StatusIdentities, AnswersAreTyped, PTL DEF StatusSpec
  <1>3. QED  BY <1>2, StatusIdentities, AnswersAreTyped, LossIsTold, PTL

-----------------------------------------------------------------------------
(* Numbers.                                                                *)

LEMMA MinFacts ==
  ASSUME NEW S \in SUBSET Nat, S # {}
  PROVE  Min(S) \in S
  BY LeastExists DEF Min

LEMMA MaxFacts ==
  ASSUME NEW n \in Nat, NEW S \in SUBSET (1 .. n), S # {}
  PROVE  Max(S) \in S
  <1> DEFINE T == {n - i : i \in S}
  <1>1. T \in SUBSET Nat /\ T # {}
    <2>1. \A i \in 1 .. n : n - i \in Nat  OBVIOUS
    <2>2. QED  BY <2>1
  <1>2. PICK k \in T : \A l \in T : k <= l
    <2> HIDE DEF T
    <2>1. QED  BY <1>1, LeastExists
  <1>3. PICK i \in S : k = n - i
    OBVIOUS
  <1>4. ASSUME NEW j \in S PROVE i >= j
    <2>1. n - i <= n - j  BY <1>2, <1>3
    <2>2. i \in Int /\ j \in Int  OBVIOUS
    <2>3. QED  BY <2>1, <2>2
  <1>5. QED  BY <1>4 DEF Max

\* What holds of 0, and of each number after one of which it holds, up to n.
LEMMA Induct ==
  ASSUME NEW n \in Nat, NEW S, 0 \in S, \A k \in 0 .. n - 1 : k \in S => k + 1 \in S
  PROVE  \A k \in 0 .. n : k \in S
  <1> DEFINE Bad == {k \in 0 .. n : k \notin S}
  <1> SUFFICES ASSUME Bad # {} PROVE FALSE
    OBVIOUS
  <1>1. Bad \in SUBSET Nat
    OBVIOUS
  <1>2. PICK b \in Bad : \A j \in Bad : b <= j
    <2> HIDE DEF Bad
    <2>1. QED  BY <1>1, LeastExists
  <1>3. b \in 0 .. n /\ b \notin S /\ b # 0
    OBVIOUS
  <1>4. b - 1 \in 0 .. n - 1 /\ b - 1 \notin Bad
    BY <1>2, <1>3
  <1>5. b - 1 \in S
    BY <1>3, <1>4
  <1>6. b - 1 + 1 = b
    BY <1>3
  <1>7. QED  BY <1>3, <1>4, <1>5, <1>6

-----------------------------------------------------------------------------
(* Hours and portions.                                                     *)

LEMMA DivFacts ==
  ASSUME NEW t \in Nat, NEW h \in Nat \ {0}
  PROVE  /\ t \div h \in Nat /\ t % h \in Nat /\ t % h < h
         /\ t = (t \div h) * h + (t % h)
  OBVIOUS

LEMMA MulMore ==
  ASSUME NEW h \in Nat \ {0}, NEW a \in Int, NEW b \in Int, a < b
  PROVE  a * h + h <= b * h
  OBVIOUS

LEMMA DivMore ==
  ASSUME NEW h \in Nat \ {0}, NEW a \in Nat, NEW b \in Nat, a <= b
  PROVE  a \div h <= b \div h
  OBVIOUS

LEMMA DivLess ==
  ASSUME NEW h \in Nat \ {0}, NEW a \in Nat, NEW b \in Nat, b % h = 0, a < b
  PROVE  a \div h < b \div h
  OBVIOUS

LEMMA Units ==
    /\ HourSeconds \in Nat \ {0} /\ PortionSeconds \in Nat \ {0} /\ Buckets \in Nat \ {0}
    /\ HourSeconds % PortionSeconds = 0
  BY HoursAssumption

LEMMA HourFacts ==
  ASSUME NEW t \in Nat
  PROVE  /\ HourOf(t) \in Nat /\ HourOf(t) <= t /\ t < HourOf(t) + HourSeconds
         /\ t % HourSeconds = t - HourOf(t) /\ t % HourSeconds \in Nat
         /\ t % HourSeconds < HourSeconds
  <1> DEFINE q == t \div HourSeconds
             r == t % HourSeconds
  <1>1. q \in Nat /\ r \in Nat /\ r < HourSeconds /\ t = q * HourSeconds + r
    BY Units, DivFacts
  <1>2. HourOf(t) = q * HourSeconds
    BY DEF HourOf
  <1> HIDE DEF q
  <1>3. q * HourSeconds \in Nat
    BY <1>1, Units
  <1> DEFINE m == q * HourSeconds
  <1>4. m \in Nat /\ t = m + r /\ HourOf(t) = m
    BY <1>1, <1>2, <1>3
  <1> HIDE DEF m, r
  <1>5. HourOf(t) \in Nat /\ HourOf(t) <= t /\ r = t - HourOf(t)
    BY <1>1, <1>4
  <1>6. t < HourOf(t) + HourSeconds
    BY <1>1, <1>4, Units
  <1>7. QED  BY <1>1, <1>5, <1>6 DEF r

\* Every job is in the one hour that began at or before it and was not over.
LEMMA HourIsOne ==
  ASSUME NEW time \in Nat, NEW t \in Nat, NEW hour \in HoursOf(time)
  PROVE  /\ hour \in Int /\ hour <= HourOf(time)
         /\ HourOf(t) = hour <=> hour <= t /\ t < hour + HourSeconds
  <1> DEFINE H == HourSeconds
             q == time \div H
             p == t \div H
  <1>1. PICK b \in 0 .. Buckets - 1 : hour = HourOf(time) - b * H
    BY DEF HoursOf
  <1>2. q \in Nat /\ p \in Nat /\ HourOf(time) = q * H /\ HourOf(t) = p * H
    BY Units, DivFacts DEF HourOf
  <1>3. b \in Nat /\ H \in Nat \ {0}
    BY <1>1, Units
  <1> HIDE DEF H, p, q
  <1>4. q - b \in Int /\ hour = (q - b) * H /\ b * H \in Nat /\ q * H \in Nat
    BY <1>1, <1>2, <1>3
  <1>5. hour \in Int /\ hour <= HourOf(time)
    BY <1>1, <1>2, <1>4
  <1>6. ASSUME hour <= t, t < hour + H PROVE HourOf(t) = hour
    <2>1. p * H <= t /\ t < p * H + H
      BY <1>2, HourFacts DEF H
    <2>2. ~ (p < q - b)
      <3>1. p < q - b => p * H + H <= (q - b) * H
        BY <1>2, <1>3, <1>4, MulMore
      <3>2. p * H \in Nat
        BY <1>2, <1>3
      <3>3. QED  BY <1>3, <1>4, <1>5, <1>6, <2>1, <3>1, <3>2
    <2>3. ~ (q - b < p)
      <3>1. q - b < p => (q - b) * H + H <= p * H
        BY <1>2, <1>3, <1>4, MulMore
      <3>2. p * H \in Nat
        BY <1>2, <1>3
      <3>3. QED  BY <1>3, <1>4, <1>5, <1>6, <2>1, <3>1, <3>2
    <2>4. p = q - b
      BY <1>2, <1>4, <2>2, <2>3
    <2>5. QED  BY <1>2, <1>4, <2>4
  <1>7. HourOf(t) = hour => hour <= t /\ t < hour + H
    BY HourFacts DEF H
  <1>8. QED  BY <1>5, <1>6, <1>7 DEF H

\* The portion of a job has begun, unless the hour begins this very moment.
LEMMA PortionHasBegun ==
  ASSUME NEW time \in Nat, NEW t \in Nat, t <= time, NEW hour \in HoursOf(time),
         HourOf(t) = hour, time # hour
  PROVE  PortionOf(t) \in 0 .. HourSize(hour, time) - 1
  <1> DEFINE r == t % HourSeconds
             s == time - hour
  <1>1. r \in Nat /\ r < HourSeconds /\ r = t - hour /\ hour \in Nat
    BY HourFacts
  <1>2. PortionOf(t) = r \div PortionSeconds
    BY DEF PortionOf
  <1>3. r \div PortionSeconds \in Nat
    BY <1>1, Units, DivFacts
  <1>4. hour <= HourOf(time) /\ HourOf(time) \in Nat /\ HourOf(time) <= time
    BY HourIsOne, HourFacts
  <1>5. CASE hour < HourOf(time)
    <2>1. HourSize(hour, time) = HourSeconds \div PortionSeconds
      BY <1>5 DEF HourSize
    <2>2. HourSeconds \div PortionSeconds \in Nat
      BY Units, DivFacts
    <2> HIDE DEF r
    <2>3. r \div PortionSeconds < HourSeconds \div PortionSeconds
      BY <1>1, Units, DivLess
    <2>4. QED  BY <1>2, <1>3, <2>1, <2>2, <2>3
  <1>6. CASE ~ (hour < HourOf(time))
    <2>1. hour < time /\ s \in Nat /\ r <= s
      BY <1>1, <1>4, <1>6
    <2>2. HourSize(hour, time) = (s \div PortionSeconds) + 1
      BY <1>1, <1>6, <2>1 DEF HourSize
    <2> HIDE DEF r, s
    <2>3. s \div PortionSeconds \in Nat
      BY <2>1, Units, DivFacts
    <2>4. r \div PortionSeconds <= s \div PortionSeconds
      BY <1>1, <2>1, Units, DivMore
    <2>5. QED  BY <1>2, <1>3, <2>2, <2>3, <2>4
  <1>7. QED  BY <1>5, <1>6

-----------------------------------------------------------------------------
(* The model of a portion.                                                 *)

LEMMA NamesFacts ==
    /\ Len(Names) \in Nat /\ DOMAIN Names = 1 .. Len(Names)
    /\ NoModel \notin ToSet(Names) /\ ToSet(Names) = {Names[i] : i \in 1 .. Len(Names)}
  BY HoursAssumption DEF ToSet

LEMMA FiniteJobs ==
  ASSUME NEW S \in SUBSET Payouts
  PROVE  /\ IsFiniteSet(S) /\ Cardinality(S) \in Nat
         /\ \A T \in SUBSET S : /\ IsFiniteSet(T) /\ Cardinality(T) \in Nat
                                /\ Cardinality(T) <= Cardinality(S)
                                /\ T # {} => Cardinality(T) > 0
  <1>1. IsFiniteSet(S)
    BY StatusAssumption, FS_Subset
  <1>2. Cardinality(S) \in Nat
    BY <1>1, FS_CardinalityType
  <1>3. ASSUME NEW T \in SUBSET S
        PROVE  /\ IsFiniteSet(T) /\ Cardinality(T) \in Nat
               /\ Cardinality(T) <= Cardinality(S)
               /\ T # {} => Cardinality(T) > 0
    <2>1. IsFiniteSet(T) /\ Cardinality(T) <= Cardinality(S)
      BY <1>1, FS_Subset
    <2>2. Cardinality(T) \in Nat
      BY <2>1, FS_CardinalityType
    <2>3. T # {} => Cardinality(T) # 0
      BY <2>1, FS_EmptySet
    <2>4. QED  BY <2>1, <2>2, <2>3
  <1>4. QED  BY <1>1, <1>2, <1>3

JobsOf(S, m) == {p \in S : p.model = m}

\* A portion shows no model exactly if it had no job, else one with most of them.
LEMMA BusiestFacts ==
  ASSUME NEW S \in SUBSET Payouts
  PROVE  /\ Busiest(S) = NoModel <=> S = {}
         /\ S # {} => /\ Busiest(S) \in ToSet(Names)
                      /\ \A m \in ToSet(Names) :
                            Cardinality(JobsOf(S, m)) <= Cardinality(JobsOf(S, Busiest(S)))
  <1> DEFINE n == Len(Names)
             c == Cardinality(S)
             jobs(i) == Cardinality({p \in S : p.model = Names[i]})
             most == {i \in DOMAIN Names : \A j \in DOMAIN Names : jobs(j) <= jobs(i)}
  <1>1. Busiest(S) = IF S = {} THEN NoModel ELSE Names[Max(most)]
    BY DEF Busiest
  <1>2. CASE S = {}
    BY <1>1, <1>2
  <1>3. CASE S # {}
    <2>1. n \in Nat /\ DOMAIN Names = 1 .. n
      BY NamesFacts
    <2>2. n >= 1
      <3>1. PICK p : p \in S
        BY <1>3
      <3>2. p.model \in {Names[i] : i \in 1 .. n}
        BY <3>1, StatusAssumption, NamesFacts
      <3>3. QED  BY <2>1, <3>2
    <2>3. ASSUME NEW i PROVE jobs(i) \in Nat /\ jobs(i) <= c /\ c \in Nat
      <3>1. {p \in S : p.model = Names[i]} \in SUBSET S
        OBVIOUS
      <3>2. QED  BY <3>1, FiniteJobs
    <2> HIDE DEF jobs, c
    <2> DEFINE T == {c - jobs(i) : i \in 1 .. n}
    <2>4. T \in SUBSET Nat /\ T # {}
      <3>1. \A i \in 1 .. n : c - jobs(i) \in Nat
        BY <2>3
      <3>2. 1 \in 1 .. n
        BY <2>1, <2>2
      <3>3. QED  BY <3>1, <3>2
    <2>5. PICK k \in T : \A l \in T : k <= l
      <3> HIDE DEF T
      <3>1. QED  BY <2>4, LeastExists
    <2>6. PICK i \in 1 .. n : k = c - jobs(i)
      BY <2>5
    <2>7. ASSUME NEW j \in 1 .. n PROVE jobs(j) <= jobs(i)
      <3>1. c - jobs(i) <= c - jobs(j)
        BY <2>5, <2>6
      <3>2. jobs(i) \in Nat /\ jobs(j) \in Nat /\ c \in Nat
        BY <2>3
      <3>3. QED  BY <3>1, <3>2
    <2>8. most # {} /\ most \in SUBSET (1 .. n)
      BY <2>1, <2>7
    <2>9. Max(most) \in most
      <3> HIDE DEF most, n
      <3>1. QED  BY <2>1, <2>8, MaxFacts
    <2>10. Busiest(S) = Names[Max(most)]
      BY <1>1, <1>3
    <2>11. Max(most) \in 1 .. n /\ \A j \in 1 .. n : jobs(j) <= jobs(Max(most))
      BY <2>1, <2>9
    <2> HIDE DEF most
    <2>12. Busiest(S) \in ToSet(Names)
      BY <2>10, <2>11, NamesFacts
    <2>13. ASSUME NEW m \in ToSet(Names)
           PROVE  Cardinality(JobsOf(S, m)) <= Cardinality(JobsOf(S, Busiest(S)))
      <3>1. PICK j \in 1 .. n : m = Names[j]
        BY NamesFacts
      <3>2. jobs(j) <= jobs(Max(most))
        BY <2>11
      <3>3. QED  BY <2>10, <3>1, <3>2 DEF jobs, JobsOf
    <2>14. QED  BY <1>3, <2>12, <2>13, NamesFacts
  <1>4. QED  BY <1>2, <1>3

-----------------------------------------------------------------------------
(* The legend.                                                             *)

LEMMA FreeFacts ==
  ASSUME NEW glyphs, glyphs \in Seq(ToSet(glyphs)), NEW used, Free(glyphs, used) # {}
  PROVE  FirstFree(glyphs, used) \notin used
  <1>1. Free(glyphs, used) \in SUBSET Nat
    BY DEF Free
  <1>2. Min(Free(glyphs, used)) \in Free(glyphs, used)
    BY <1>1, MinFacts
  <1>3. QED  BY <1>2 DEF Free, FirstFree

\* A glyph is new, or it is the one that is shared when the labels are used.
LEMMA GlyphFacts ==
  ASSUME NEW m \in ToSet(Names), NEW used
  PROVE  \/ Glyph(m, used) \notin used
         \/ Glyph(m, used) = Overflow /\ ToSet(Labels) \subseteq used
  <1>1. Initials[m] \in Seq(ToSet(Initials[m])) /\ Labels \in Seq(ToSet(Labels))
    BY HoursAssumption
  <1>2. CASE Free(Initials[m], used) # {}
    BY <1>1, <1>2, FreeFacts DEF Glyph
  <1>3. CASE Free(Initials[m], used) = {} /\ Free(Labels, used) # {}
    BY <1>1, <1>3, FreeFacts DEF Glyph
  <1>4. CASE Free(Initials[m], used) = {} /\ Free(Labels, used) = {}
    <2>1. Glyph(m, used) = Overflow
      BY <1>4 DEF Glyph
    <2>2. ToSet(Labels) \subseteq used
      BY <1>4 DEF Free, ToSet
    <2>3. QED  BY <2>1, <2>2
  <1>5. QED  BY <1>2, <1>3, <1>4

\* The legend after the next name.
NextLetters(models, before, k) ==
    IF Names[k] \notin models THEN before
    ELSE With(before, Names[k], Glyph(Names[k], Range(before)))

\* The legends after each of the names.
LEMMA LettersSteps ==
  ASSUME NEW models
  PROVE  \E steps : /\ steps[0] = <<>>
                    /\ \A k \in 1 .. Len(Names) :
                          steps[k] = NextLetters(models, steps[k - 1], k)
                    /\ Letters(models) = steps[Len(Names)]
  <1> DEFINE n == Len(Names)
             Value(f, k) ==
                LET before == f[k - 1]
                IN  CASE k = 0 -> <<>>
                      [] k > 0 /\ Names[k] \notin models -> before
                      [] OTHER -> With(before, Names[k], Glyph(Names[k], Range(before)))
             IsIter(l, f) == f = [k \in 0 .. l |-> Value(f, k)]
             Exists(l) == \E f : IsIter(l, f)
  <1>1. n \in Nat
    BY NamesFacts
  <1>2. Exists(0)
    <2> DEFINE f == [k \in 0 .. 0 |-> <<>>]
    <2>1. IsIter(0, f)
      OBVIOUS
    <2>2. QED  BY <2>1
  <1>3. ASSUME NEW l \in 0 .. n - 1, Exists(l) PROVE Exists(l + 1)
    <2>0. l \in Nat
      OBVIOUS
    <2>1. PICK f : IsIter(l, f)
      BY <1>3
    <2> DEFINE g == [k \in 0 .. l + 1 |-> IF k <= l THEN f[k] ELSE Value(f, k)]
    <2>2. \A k \in 0 .. l : g[k] = f[k]
      BY <2>0
    <2>3. \A k \in 0 .. l : f[k] = Value(f, k)
      BY <2>1
    <2>4. ASSUME NEW k \in 0 .. l + 1 PROVE g[k] = Value(g, k)
      <3>1. g[k] = Value(f, k)
        BY <2>0, <2>3
      <3>2. k # 0 => k - 1 \in 0 .. l
        BY <2>0
      <3> HIDE DEF g
      <3>3. k # 0 => g[k - 1] = f[k - 1]
        BY <2>2, <3>2
      <3>4. QED  BY <3>1, <3>3
    <2>5. g = [k \in 0 .. l + 1 |-> Value(g, k)]
      <3>1. g = [k \in 0 .. l + 1 |-> g[k]]
        OBVIOUS
      <3> HIDE DEF g
      <3>2. QED  BY <2>4, <3>1
    <2> HIDE DEF g
    <2>6. QED  BY <2>5
  <1> DEFINE Good == {l \in 0 .. n : Exists(l)}
  <1>4. \A l \in 0 .. n : l \in Good
    <2> HIDE DEF Exists
    <2>1. 0 \in Good
      BY <1>1, <1>2
    <2>2. \A l \in 0 .. n - 1 : l \in Good => l + 1 \in Good
      BY <1>1, <1>3
    <2> HIDE DEF Good
    <2>3. QED  BY <1>1, <2>1, <2>2, Induct
  <1>5. \E f : IsIter(n, f)
    <2>1. Exists(n)
      <3> HIDE DEF Exists
      <3>1. QED  BY <1>1, <1>4
    <2>2. QED  BY <2>1
  <1> DEFINE letters == CHOOSE f : IsIter(n, f)
  <1>6. IsIter(n, letters)
    <2> HIDE DEF IsIter
    <2>1. QED  BY <1>5
  <1>7. Letters(models) = letters[n]
    BY DEF Letters
  <1>8. letters[0] = <<>> /\ \A k \in 1 .. n : letters[k] = NextLetters(models, letters[k - 1], k)
    <2> HIDE DEF letters
    <2>1. \A k \in 0 .. n : letters[k] = Value(letters, k)
      BY <1>6
    <2>2. QED  BY <1>1, <2>1 DEF NextLetters
  <1> HIDE DEF letters
  <1>9. QED  BY <1>7, <1>8

\* Two models of a legend share a glyph only when the labels are all used.
Distinct(letters) ==
    \A m, n \in DOMAIN letters :
        m # n /\ letters[m] = letters[n] =>
            letters[m] = Overflow /\ ToSet(Labels) \subseteq Range(letters)

LEMMA NextIsDistinct ==
  ASSUME NEW models, NEW before, Distinct(before), NEW k \in 1 .. Len(Names)
  PROVE  /\ Distinct(NextLetters(models, before, k))
         /\ DOMAIN NextLetters(models, before, k) =
               DOMAIN before \cup (models \cap {Names[k]})
  <1> DEFINE m == Names[k]
             glyph == Glyph(m, Range(before))
             after == NextLetters(models, before, k)
  <1>1. CASE m \notin models
    BY <1>1 DEF NextLetters
  <1>2. CASE m \in models
    <2>1. after = With(before, m, glyph)
      BY <1>2 DEF NextLetters
    <2>2. glyph \notin Range(before) \/ (glyph = Overflow /\ ToSet(Labels) \subseteq Range(before))
      BY GlyphFacts, NamesFacts
    <2> HIDE DEF after, glyph, m
    <2>3. /\ DOMAIN after = DOMAIN before \cup {m}
          /\ \A x \in DOMAIN before : after[x] = before[x]
          /\ m \notin DOMAIN before => after[m] = glyph
      BY <2>1 DEF With
    <2>4. Range(before) \subseteq Range(after)
      BY <2>3 DEF Range
    <2>5. ASSUME NEW x \in DOMAIN before PROVE before[x] \in Range(before)
      BY DEF Range
    <2>6. ASSUME NEW x \in DOMAIN after, NEW y \in DOMAIN after, x # y, after[x] = after[y]
          PROVE  after[x] = Overflow /\ ToSet(Labels) \subseteq Range(after)
      <3>1. CASE x \in DOMAIN before /\ y \in DOMAIN before
        <4>1. before[x] = Overflow /\ ToSet(Labels) \subseteq Range(before)
          BY <2>3, <2>6, <3>1 DEF Distinct
        <4>2. QED  BY <2>3, <2>4, <3>1, <4>1
      <3>2. CASE ~ (x \in DOMAIN before /\ y \in DOMAIN before)
        <4>1. after[x] = glyph /\ glyph \in Range(before)
          BY <2>3, <2>5, <2>6, <3>2
        <4>2. QED  BY <2>2, <2>4, <4>1
      <3>3. QED  BY <3>1, <3>2
    <2>7. Distinct(after)
      BY <2>6 DEF Distinct
    <2>8. DOMAIN after = DOMAIN before \cup (models \cap {m})
      BY <1>2, <2>3
    <2>9. QED  BY <2>7, <2>8 DEF after, m
  <1>3. QED  BY <1>1, <1>2

LEMMA LegendFacts ==
  ASSUME NEW models
  PROVE  Distinct(Letters(models)) /\ DOMAIN Letters(models) = models \cap ToSet(Names)
  <1> DEFINE n == Len(Names)
             To(k) == models \cap {Names[i] : i \in 1 .. k}
  <1>1. n \in Nat
    BY NamesFacts
  <1>2. PICK steps : /\ steps[0] = <<>>
                     /\ \A k \in 1 .. n : steps[k] = NextLetters(models, steps[k - 1], k)
                     /\ Letters(models) = steps[n]
    BY LettersSteps
  <1> DEFINE Good == {k \in 0 .. n : Distinct(steps[k]) /\ DOMAIN steps[k] = To(k)}
  <1>3. 0 \in Good
    <2>1. DOMAIN steps[0] = {}
      BY <1>2
    <2>2. To(0) = {}
      OBVIOUS
    <2>3. QED  BY <1>1, <2>1, <2>2 DEF Distinct
  <1>4. ASSUME NEW k \in 0 .. n - 1, k \in Good PROVE k + 1 \in Good
    <2>1. k + 1 \in 1 .. n /\ k + 1 \in 0 .. n /\ k + 1 - 1 = k /\ k \in Nat
      BY <1>1
    <2>2. steps[k + 1] = NextLetters(models, steps[k], k + 1)
      BY <1>2, <2>1
    <2>3. Distinct(steps[k]) /\ DOMAIN steps[k] = To(k)
      BY <1>4
    <2>4. To(k + 1) = To(k) \cup (models \cap {Names[k + 1]})
      <3>1. 1 .. k + 1 = (1 .. k) \cup {k + 1}
        BY <2>1
      <3>2. QED  BY <3>1
    <2> DEFINE before == steps[k]
               after == NextLetters(models, before, k + 1)
    <2>5. Distinct(after) /\ DOMAIN after = DOMAIN before \cup (models \cap {Names[k + 1]})
      <3>1. Distinct(before) /\ k + 1 \in 1 .. Len(Names)
        BY <2>1, <2>3
      <3> HIDE DEF before
      <3>2. QED  BY <3>1, NextIsDistinct
    <2> HIDE DEF To, after
    <2>6. Distinct(after) /\ DOMAIN after = To(k + 1) /\ steps[k + 1] = after
      BY <2>2, <2>3, <2>4, <2>5 DEF after
    <2>7. QED  BY <2>1, <2>6
  <1>5. n \in Good
    <2>1. \A k \in 0 .. n : k \in Good
      <3> HIDE DEF Good, n
      <3>1. QED  BY <1>1, <1>3, <1>4, Induct
    <2>2. QED  BY <1>1, <2>1
  <1>6. To(n) = models \cap ToSet(Names)
    BY NamesFacts
  <1>7. QED  BY <1>2, <1>5, <1>6

-----------------------------------------------------------------------------

\* One panel: its jobs and its portions, and the models that are in the legend.
LEMMA PanelFacts ==
  ASSUME NEW time \in Nat, NEW payouts \in SUBSET Payouts, NEW hour \in HoursOf(time),
         \A p \in payouts : p.at <= time, NEW own,
         own = {p \in payouts : hour <= p.at /\ p.at < hour + HourSeconds}
  PROVE  LET row == HourRow(payouts, hour, time)
             at(k) == {p \in own : PortionOf(p.at) = k}
         IN  /\ own \subseteq InHours(payouts, time)
             /\ row.jobs = Cardinality(own)
             /\ DOMAIN row.portions = 0 .. HourSize(hour, time) - 1
             /\ \A k \in DOMAIN row.portions : row.portions[k] = Busiest(at(k))
             /\ \A p \in own : /\ HourOf(p.at) = hour /\ p.at \in Nat
                               /\ time = hour \/ PortionOf(p.at) \in DOMAIN row.portions
  <1> DEFINE rows == {p \in InHours(payouts, time) : HourOf(p.at) = hour}
             row == HourRow(payouts, hour, time)
             at(k) == {p \in own : PortionOf(p.at) = k}
  <1>1. \A p \in payouts : p.at \in Nat
    BY StatusAssumption
  <1>2. \A p \in payouts : HourOf(p.at) = hour <=> hour <= p.at /\ p.at < hour + HourSeconds
    BY <1>1, HourIsOne
  <1>3. rows = own
    BY <1>2 DEF InHours
  <1>4. row = [jobs |-> Cardinality(rows),
               portions |-> [k \in 0 .. HourSize(hour, time) - 1 |->
                               Busiest({p \in rows : PortionOf(p.at) = k})]]
    BY DEF HourRow
  <1>5. own \subseteq InHours(payouts, time)
    BY <1>3
  <1>6. ASSUME NEW p \in own
        PROVE  /\ HourOf(p.at) = hour /\ p.at \in Nat
               /\ time = hour \/ PortionOf(p.at) \in 0 .. HourSize(hour, time) - 1
    <2>1. p \in payouts /\ HourOf(p.at) = hour /\ p.at \in Nat /\ p.at <= time
      BY <1>1, <1>2
    <2>2. QED  BY <2>1, PortionHasBegun
  <1> HIDE DEF rows
  <1>7. /\ row.jobs = Cardinality(own)
        /\ DOMAIN row.portions = 0 .. HourSize(hour, time) - 1
        /\ \A k \in DOMAIN row.portions : row.portions[k] = Busiest(at(k))
    BY <1>3, <1>4
  <1> HIDE DEF row
  <1>8. QED  BY <1>5, <1>6, <1>7 DEF row

LEMMA HourlyHolds == AnswerTypes => HourlyIsExact
  <1> SUFFICES ASSUME AnswerTypes, Complete PROVE HourlyIsExact
    BY DEF HourlyIsExact
  <1> DEFINE legend == SharedLegend(Panels, now)
             models == {p.model : p \in UNION {InHours(payouts, now) : payouts \in Panels}}
             same(p, q) == HourOf(p.at) = HourOf(q.at) /\ PortionOf(p.at) = PortionOf(q.at)
             Own(payouts, hour) == {p \in payouts : hour <= p.at /\ p.at < hour + HourSeconds}
             Row(payouts, hour) == HourlyRows(payouts, now)[hour]
  <1>1. now \in Nat
    BY StatusAssumption DEF AnswerTypes
  <1>2. ASSUME NEW payouts \in Panels
        PROVE  payouts \in SUBSET Payouts /\ \A p \in payouts : p.at <= now
    BY DEF Panels, AnswerTypes, DueCards, Card
  <1>3. legend = Letters(models)
    BY DEF SharedLegend
  <1>4. Distinct(legend) /\ DOMAIN legend = models \cap ToSet(Names)
    <2> HIDE DEF legend, models
    <2>1. QED  BY <1>3, LegendFacts
  <1>5. ASSUME NEW payouts \in Panels, NEW hour \in HoursOf(now)
        PROVE  /\ Row(payouts, hour).jobs = Cardinality(Own(payouts, hour))
               /\ \A k \in DOMAIN Row(payouts, hour).portions :
                     Row(payouts, hour).portions[k] = NoModel <=>
                         \A p \in Own(payouts, hour) : PortionOf(p.at) # k
               /\ \A p \in Own(payouts, hour) :
                     \/ now = hour
                     \/ /\ PortionOf(p.at) \in DOMAIN Row(payouts, hour).portions
                        /\ LET busiest == Row(payouts, hour).portions[PortionOf(p.at)]
                               jobs(m) == Cardinality({q \in Own(payouts, hour) :
                                                          same(p, q) /\ q.model = m})
                           IN  busiest \in DOMAIN legend /\ jobs(busiest) >= jobs(p.model)
    <2> DEFINE own == Own(payouts, hour)
               row == HourRow(payouts, hour, now)
               At(k) == {p \in own : PortionOf(p.at) = k}
    <2>1. Row(payouts, hour) = row
      BY DEF HourlyRows
    <2>2. /\ own \subseteq InHours(payouts, now)
          /\ row.jobs = Cardinality(own)
          /\ DOMAIN row.portions = 0 .. HourSize(hour, now) - 1
          /\ \A k \in DOMAIN row.portions : row.portions[k] = Busiest(At(k))
          /\ \A p \in own : /\ HourOf(p.at) = hour /\ p.at \in Nat
                            /\ now = hour \/ PortionOf(p.at) \in DOMAIN row.portions
      BY <1>1, <1>2, PanelFacts
    <2>3. own \in SUBSET Payouts
      BY <1>2
    <2> HIDE DEF row, own
    <2>4. \A k : At(k) \in SUBSET Payouts
      BY <2>3
    <2>5. ASSUME NEW k \in DOMAIN row.portions
          PROVE  row.portions[k] = NoModel <=> \A p \in own : PortionOf(p.at) # k
      <3>1. row.portions[k] = Busiest(At(k)) /\ (Busiest(At(k)) = NoModel <=> At(k) = {})
        BY <2>2, <2>4, BusiestFacts
      <3>2. QED  BY <3>1
    <2>6. ASSUME NEW p \in own, now # hour
          PROVE  LET k == PortionOf(p.at)
                     jobs(m) == Cardinality({q \in own : same(p, q) /\ q.model = m})
                 IN  /\ k \in DOMAIN row.portions
                     /\ row.portions[k] \in DOMAIN legend
                     /\ jobs(row.portions[k]) >= jobs(p.model)
      <3> DEFINE k == PortionOf(p.at)
                 busiest == row.portions[k]
                 jobs(m) == Cardinality({q \in own : same(p, q) /\ q.model = m})
      <3>1. k \in DOMAIN row.portions /\ busiest = Busiest(At(k))
        BY <2>2, <2>6
      <3>2. \A q \in own : same(p, q) <=> q \in At(k)
        BY <2>2
      <3>3. \A m : {q \in own : same(p, q) /\ q.model = m} = JobsOf(At(k), m)
        BY <3>2 DEF JobsOf
      <3>4. \A m : jobs(m) = Cardinality(JobsOf(At(k), m))
        BY <3>3
      <3>5. p \in At(k) /\ p.model \in ToSet(Names)
        BY <2>3, StatusAssumption
      <3> HIDE DEF jobs, same, At, k
      <3>6. busiest \in ToSet(Names) /\ Cardinality(JobsOf(At(k), p.model))
                                             <= Cardinality(JobsOf(At(k), busiest))
        BY <2>4, <3>1, <3>5, BusiestFacts
      <3>7. \A m : JobsOf(At(k), m) \in SUBSET At(k)
        BY DEF JobsOf
      <3>8. /\ Cardinality(JobsOf(At(k), p.model)) > 0
            /\ \A m : Cardinality(JobsOf(At(k), m)) \in Nat
        <4>1. JobsOf(At(k), p.model) # {}
          BY <3>5 DEF JobsOf
        <4>2. QED  BY <2>4, <3>7, <4>1, FiniteJobs
      <3>9. JobsOf(At(k), busiest) # {}
        <4>1. Cardinality(JobsOf(At(k), busiest)) # 0
          BY <3>6, <3>8
        <4>2. QED  BY <4>1, FS_EmptySet
      <3>10. PICK q \in At(k) : q.model = busiest
        BY <3>9 DEF JobsOf
      <3>11. q \in InHours(payouts, now)
        BY <2>2, <3>10 DEF At
      <3>12. busiest \in models
        BY <3>10, <3>11
      <3>13. busiest \in DOMAIN legend
        BY <1>4, <3>6, <3>12
      <3>14. jobs(busiest) >= jobs(p.model)
        BY <3>4, <3>6, <3>8
      <3>15. QED  BY <3>1, <3>13, <3>14 DEF k, jobs
    <2> HIDE DEF Row, legend, same
    <2>7. QED  BY <2>1, <2>2, <2>5, <2>6 DEF own
  <1> HIDE DEF Row
  <1>6. \A m, n \in DOMAIN legend :
            m # n /\ legend[m] = legend[n] =>
                legend[m] = Overflow /\ ToSet(Labels) \subseteq Range(legend)
    BY <1>4 DEF Distinct
  <1> HIDE DEF legend
  <1>7. QED  BY <1>5, <1>6 DEF HourlyIsExact, legend, Row

(* The hourly panels of every answer count each job in its own hour, show  *)
(* in every portion that has begun a model that had most jobs in it, and   *)
(* one legend for all cards, whatever the lengths of hours and portions,   *)
(* the models and the labels (hourly_jobs, share_legends).                 *)
THEOREM HourlyPanelsAreExact == StatusSpec => []HourlyIsExact
  BY AnswersAreTyped, HourlyHolds, PTL
=============================================================================
