----------------------------- MODULE Identities -----------------------------
(***************************************************************************)
(* Who earned a payout: the provider_identities and provider_fleet_hosts   *)
(* tables (src/fleet/collector.py, src/fleet/demand.py).  The collector of *)
(* one Mac, the probe, copies the account's listing of providers, and      *)
(* forgets the providers that left it; the collector of every Mac links    *)
(* the providers that hold its key to its host id.  The requests, the      *)
(* statements and the account itself interleave freely.                    *)
(***************************************************************************)
EXTENDS FiniteSets

CONSTANTS
    Providers,   \* provider_ids of the account
    Macs,        \* configured fleet host ids
    Probe,       \* the Mac whose collector has probe_self_route
    Steady,      \* providers that never leave the account once listed
    Hashes,      \* payout hashes
    Sessions,    \* those of a payout session; the rest are of a provider_id
    PidOf,       \* the provider each hash belongs to
    KeyOf,       \* the Mac that holds a provider's key, NoMac if none does
    NoMac,
    Legacy       \* identity rows that name a Mac, which an earlier version
                 \* wrote in ticks that had stored its heartbeat

ASSUME ProbeAssumption == Probe \in Macs /\ NoMac \notin Macs
ASSUME ProvidersAssumption == /\ Steady \subseteq Providers
                              /\ Providers \cap (Macs \cup {NoMac}) = {}
                              /\ Sessions \subseteq Hashes
                              /\ PidOf \in [Hashes -> Providers]
                              /\ KeyOf \in [Providers -> Macs \cup {NoMac}]
ASSUME LegacyAssumption == Legacy \subseteq Hashes \X Macs

VARIABLES
    listed,      \* providers now in the account's attestation listing
    earning,     \* sessions among the latest account earnings
    identities,  \* provider_identities, rows <<provider_hash, host>>
    links,       \* provider_fleet_hosts
    snapshots,   \* Macs with a row in daemon_snapshots
    pc,          \* per Mac, where its tick is
    keyed,       \* per Mac, this tick read a fresh daemon with its key
    ids,         \* per Mac, the provider_ids its last request returned
    draft        \* the probe's hash -> provider_id mapping, then the
                 \* provider_identities of its open transaction

account == <<listed, earning>>
tables == <<identities, links, snapshots>>
ticks == <<pc, keyed, ids, draft>>
vars == <<account, tables, ticks>>

Rows == Hashes \X (Providers \cup Macs)

Steps == {"idle", "attestation", "earnings", "insert", "prune", "key", "link"}

TypeOK == /\ listed \subseteq Providers
          /\ earning \subseteq Sessions
          /\ identities \subseteq Rows
          /\ links \in [Providers -> Macs \cup {NoMac}]
          /\ snapshots \subseteq Macs
          /\ pc \in [Macs -> Steps]
          /\ keyed \in [Macs -> BOOLEAN]
          /\ ids \in [Macs -> SUBSET Providers]
          /\ draft \subseteq Rows

Init == /\ listed \in SUBSET Providers
        /\ earning = {}
        /\ identities = Legacy
        /\ links = [p \in Providers |-> NoMac]
        /\ snapshots = {row[2] : row \in Legacy}
        /\ pc = [m \in Macs |-> "idle"]
        /\ keyed = [m \in Macs |-> FALSE]
        /\ ids = [m \in Macs |-> {}]
        /\ draft = {}

-----------------------------------------------------------------------------
(* The account.                                                            *)

Join(p) == /\ p \notin listed
           /\ listed' = listed \cup {p}
           /\ UNCHANGED <<earning, tables, ticks>>

Leave(p) == /\ p \in listed \ Steady
            /\ listed' = listed \ {p}
            /\ UNCHANGED <<earning, tables, ticks>>

\* A session is paid; later payouts push it out of the latest 1000.
Earn(h) == /\ h \in Sessions \ earning
           /\ PidOf[h] \in listed
           /\ earning' = earning \cup {h}
           /\ UNCHANGED <<listed, tables, ticks>>

Outdate(h) == /\ h \in earning
              /\ earning' = earning \ {h}
              /\ UNCHANGED <<listed, tables, ticks>>

-----------------------------------------------------------------------------
(* A tick of one Mac's collector.  The daemon is unreadable, read (which   *)
(* leaves a heartbeat), or read fresh and with its attestation key.        *)

Step(m, to) == pc' = [pc EXCEPT ![m] = to]

AfterIdentities(m) == IF keyed[m] THEN "key" ELSE "idle"

StartTick(m, daemon) ==
    /\ pc[m] = "idle"
    /\ snapshots' = IF daemon = "unread" THEN snapshots ELSE snapshots \cup {m}
    /\ keyed' = [keyed EXCEPT ![m] = daemon = "keyed"]
    /\ Step(m, IF m = Probe THEN "attestation"
                ELSE IF daemon = "keyed" THEN "key" ELSE "idle")
    /\ UNCHANGED <<account, identities, links, ids, draft>>

(* A successful attestation answer may be blank.                           *)
FetchProviders(m, blank) ==
    /\ pc[m] = "attestation"
    /\ ids' = [ids EXCEPT ![m] = IF blank THEN {} ELSE listed]
    /\ Step(m, "earnings")
    /\ UNCHANGED <<account, tables, keyed, draft>>

\* Mutants of HashToProvider: only hashes with a recent payout are mapped; the
\* columns are swapped.
HashToProviderEarned(pids) ==
    {<<h, PidOf[h]>> : h \in {g \in Hashes : PidOf[g] \in pids /\ g \in earning}}

HashToProviderSwapped(pids) ==
    {<<PidOf[h], h>> : h \in {g \in Hashes : PidOf[g] \in pids}}

(* Every listed provider_id has its own hash, and those of its payouts.    *)
HashToProvider(pids) ==
    {<<h, PidOf[h]>> : h \in {g \in Hashes : /\ PidOf[g] \in pids
                                             /\ g \in Sessions => g \in earning}}

FetchEarnings(m) ==
    /\ pc[m] = "earnings"
    /\ draft' = HashToProvider(ids[m])
    /\ Step(m, "insert")
    /\ UNCHANGED <<account, tables, keyed, ids>>

(* The rows DELETE FROM provider_identities leaves.                        *)
Spared(o, pids) == \/ o \in pids
                   \/ o \in snapshots
                   \/ \E p \in Providers : links[p] = o

\* Mutant of Prune: the blank listing is not told apart.
PruneBlank(m) ==
    /\ pc[m] = "insert"
    /\ draft' = {row \in identities \cup draft : Spared(row[2], ids[m])}
    /\ Step(m, "prune")
    /\ UNCHANGED <<account, tables, keyed, ids>>

(* The transaction inserts the mapping and deletes the identities of       *)
(* providers that are not listed, unless nothing is.                       *)
Prune(m) ==
    /\ pc[m] = "insert"
    /\ \/ /\ ids[m] = {}
          /\ draft' = {}
          /\ ids' = ids
          /\ Step(m, AfterIdentities(m))
       \/ /\ ids[m] # {}
          /\ draft' = {row \in identities \cup draft : Spared(row[2], ids[m])}
          /\ ids' = ids
          /\ Step(m, "prune")
    /\ UNCHANGED <<account, tables, keyed>>

\* Mutant of CommitIdentities: the links are left alone.
CommitKeepsLinks(m) ==
    /\ pc[m] = "prune"
    /\ identities' = draft
    /\ draft' = {}
    /\ ids' = [ids EXCEPT ![m] = {}]
    /\ Step(m, AfterIdentities(m))
    /\ UNCHANGED <<account, links, snapshots, keyed>>

(* Its last statement deletes the links of providers that are not listed,  *)
(* seeing those committed so far, and it commits.                          *)
CommitIdentities(m) ==
    /\ pc[m] = "prune"
    /\ identities' = draft
    /\ links' = [p \in Providers |-> IF p \in ids[m] THEN links[p] ELSE NoMac]
    /\ draft' = {}
    /\ ids' = [ids EXCEPT ![m] = {}]
    /\ Step(m, AfterIdentities(m))
    /\ UNCHANGED <<account, snapshots, keyed>>

(* A request or a statement fails: it is logged, and the tick goes on.     *)
FailIdentities(m) ==
    /\ pc[m] \in {"attestation", "earnings", "insert", "prune"}
    /\ draft' = {}
    /\ ids' = [ids EXCEPT ![m] = {}]
    /\ Step(m, AfterIdentities(m))
    /\ UNCHANGED <<account, tables, keyed>>

(* The listed providers that hold this Mac's key.                          *)
FetchKey(m, blank) ==
    /\ pc[m] = "key"
    /\ ids' = [ids EXCEPT ![m] = IF blank THEN {} ELSE {p \in listed : KeyOf[p] = m}]
    /\ Step(m, IF ids'[m] = {} THEN "idle" ELSE "link")
    /\ UNCHANGED <<account, tables, keyed, draft>>

WriteLinks(m) ==
    /\ pc[m] = "link"
    /\ links' = [p \in Providers |-> IF p \in ids[m] THEN m ELSE links[p]]
    /\ ids' = [ids EXCEPT ![m] = {}]
    /\ Step(m, "idle")
    /\ UNCHANGED <<account, identities, snapshots, keyed, draft>>

(* The link's request or statement fails, or the process is restarted,     *)
(* which aborts the probe's transaction.                                   *)
Abandon(m) == /\ pc[m] # "idle"
              /\ draft' = IF m = Probe THEN {} ELSE draft
              /\ ids' = [ids EXCEPT ![m] = {}]
              /\ Step(m, "idle")
              /\ UNCHANGED <<account, tables, keyed>>

Account == \/ \E p \in Providers : Join(p) \/ Leave(p)
           \/ \E h \in Hashes : Earn(h) \/ Outdate(h)

Tick(m) == \/ \E daemon \in {"unread", "read", "keyed"} : StartTick(m, daemon)
           \/ \E blank \in BOOLEAN : FetchProviders(m, blank) \/ FetchKey(m, blank)
           \/ FetchEarnings(m) \/ Prune(m) \/ CommitIdentities(m)
           \/ FailIdentities(m) \/ WriteLinks(m) \/ Abandon(m)

Next == Account \/ \E m \in Macs : Tick(m)

Spec == Init /\ [][Next]_vars

(* The step of a tick that nothing fails.                                  *)
GoodStep(m) == \/ StartTick(m, "keyed")
               \/ FetchProviders(m, FALSE) \/ FetchEarnings(m)
               \/ Prune(m) \/ CommitIdentities(m)
               \/ FetchKey(m, FALSE) \/ WriteLinks(m)

(* The collectors run for ever, and daemons, coordinator and database stop *)
(* failing in the end.                                                     *)
Fairness == /\ \A m \in Macs : WF_vars(GoodStep(m))
            /\ <>[][Account \/ \E m \in Macs : GoodStep(m)]_vars

FairSpec == Spec /\ Fairness

-----------------------------------------------------------------------------
(* What the readers of the tables make of them.                            *)

Owners(h) == {o \in Providers \cup Macs : <<h, o>> \in identities}

\* The exact part of attributed; counter votes serve hashes with no row.
Attributed(h) == Cardinality(Owners(h)) = 1

Aliases(m) == {m} \cup {p \in Providers : links[p] = m}

\* The hashes whose payouts earnings_shadow.build_profile counts for a Mac.
Evidence(m) == {h \in Hashes : Owners(h) = {m}}

-----------------------------------------------------------------------------
(* Properties.                                                             *)

(* No identity is lost while its provider stays in the account, nor one    *)
(* that names a Mac with a heartbeat: not to a blank listing, not to one   *)
(* fetched before others joined, not to a failed or restarted tick.        *)
IdentityIsKept ==
    [][\A row \in identities :
          row[2] \in Steady \cup snapshots => row \in identities']_vars

(* A provider that stays in the account is identified and linked for good  *)
(* in the end, although a listing fetched before it joined may still take  *)
(* its first link away.                                                    *)
EventuallyKnown ==
    \A h \in Hashes \ Sessions :
        PidOf[h] \in Steady =>
            (PidOf[h] \in listed ~> [](/\ <<h, PidOf[h]>> \in identities
                                       /\ links[PidOf[h]] = KeyOf[PidOf[h]]))

(* A provider that leaves for good is forgotten for good, unless the       *)
(* account is left without any provider: a link its Mac writes from a key  *)
(* fetched before the departure does not bring it back.                    *)
EventuallyForgotten ==
    \A p \in Providers :
        (<>[](p \notin listed) /\ <>[](\E q \in Steady : q \in listed)) =>
            <>[](links[p] = NoMac /\ \A h \in Hashes : p \notin Owners(h))

(* The documented rule of the earnings evidence: an unambiguous verified   *)
(* identity assigns a payout to the machine its provider is linked to.     *)
EvidenceIsAssigned ==
    \A h \in Hashes, m \in Macs :
        Attributed(h) /\ Owners(h) \subseteq Aliases(m) => h \in Evidence(m)
=============================================================================
