------------------------------- MODULE Ingest -------------------------------
(***************************************************************************)
(* Payout ingestion (_ingest_earnings of src/fleet/collector.py and the    *)
(* statements it runs).  Every Mac keeps a copy of the account-wide payout *)
(* ledger; the collector of each host reads the highest row it has, asks   *)
(* the Mac for the next batch over SSH and inserts it.  The three steps    *)
(* are apart: rows are paid, copied and ingested by other hosts between    *)
(* them, and any of them may fail or be cut by a restart.                  *)
(***************************************************************************)
EXTENDS Integers, FiniteSets

CONSTANTS Hosts,     \* host ids, ordered as PostgreSQL orders them
          Batch,     \* PAYOUT_BATCH_SIZE
          MaxRow     \* bound on the ledger's row ids

ASSUME HostsAssumption == Hosts \subseteq Nat
ASSUME BatchAssumption == Batch \in Nat \ {0} /\ MaxRow \in Nat

VARIABLES
    ledger,   \* per host, row ids in the Mac's copy of the ledger
    hashed,   \* per host, those of them with a provider_hash
    stored,   \* per host, row ids in the earnings table
    known,    \* per host, those of them stored with a provider_hash
    pc,       \* per host, where _ingest_earnings is
    since,    \* per host, since_rowid
    payouts   \* per host, the fetched row ids and those of them with a hash

vars == <<ledger, hashed, stored, known, pc, since, payouts>>

Rows == 1 .. MaxRow

NoPayouts == [rows |-> {}, hashed |-> {}]

TypeOK == /\ ledger \in [Hosts -> SUBSET Rows]
          /\ hashed \in [Hosts -> SUBSET Rows]
          /\ stored \in [Hosts -> SUBSET Rows]
          /\ known \in [Hosts -> SUBSET Rows]
          /\ pc \in [Hosts -> {"idle", "cursor", "fetched"}]
          /\ since \in [Hosts -> 0 .. MaxRow]
          /\ payouts \in [Hosts -> [rows : SUBSET Rows, hashed : SUBSET Rows]]

Init == /\ ledger = [h \in Hosts |-> {}]
        /\ hashed = [h \in Hosts |-> {}]
        /\ stored = [h \in Hosts |-> {}]
        /\ known = [h \in Hosts |-> {}]
        /\ pc = [h \in Hosts |-> "idle"]
        /\ since = [h \in Hosts |-> 0]
        /\ payouts = [h \in Hosts |-> NoPayouts]

(* The Mac appends a row of the account's ledger, with or without the hash *)
(* of the session that earned it.  Row ids only grow.                      *)
Append(h) == \E r \in Rows :
    /\ \A q \in ledger[h] : q < r
    /\ ledger' = [ledger EXCEPT ![h] = @ \cup {r}]
    /\ \/ hashed' = [hashed EXCEPT ![h] = @ \cup {r}]
       \/ UNCHANGED hashed
    /\ UNCHANGED <<stored, known, pc, since, payouts>>

(* SELECT max(payout_rowid) of this host, 0 when it has none.              *)
ReadCursor(h) == /\ pc[h] = "idle"
                 /\ \E m \in stored[h] \cup {0} :
                       /\ \A r \in stored[h] : r <= m
                       /\ since' = [since EXCEPT ![h] = m]
                 /\ pc' = [pc EXCEPT ![h] = "cursor"]
                 /\ UNCHANGED <<ledger, hashed, stored, known, payouts>>

(* WHERE rowid > ? ORDER BY rowid LIMIT ?                                  *)
Newer(h, after) == {r \in ledger[h] : r > after}

\* Mutant of NextRows: no ORDER BY, so that LIMIT keeps the latest rows.
NextRowsUnordered(h, after) ==
    {r \in Newer(h, after) :
        Cardinality({q \in Newer(h, after) : q >= r}) <= Batch}

\* Mutant of NextRows: the boundary row itself is skipped with the cursor.
NextRowsSkip(h, after) ==
    {r \in Newer(h, after + 1) :
        Cardinality({q \in Newer(h, after + 1) : q <= r}) <= Batch}

NextRows(h, after) ==
    {r \in Newer(h, after) :
        Cardinality({q \in Newer(h, after) : q <= r}) <= Batch}

Fetch(h) == /\ pc[h] = "cursor"
            /\ LET rows == NextRows(h, since[h])
               IN  payouts' = [payouts EXCEPT ![h] =
                                 [rows |-> rows, hashed |-> rows \cap hashed[h]]]
            /\ pc' = [pc EXCEPT ![h] = "fetched"]
            /\ UNCHANGED <<ledger, hashed, stored, known, since>>

EndIngest(h) == /\ pc' = [pc EXCEPT ![h] = "idle"]
                /\ since' = [since EXCEPT ![h] = 0]
                /\ payouts' = [payouts EXCEPT ![h] = NoPayouts]

\* Mutant of Insert: the newest fetched row is committed on its own first.
InsertNewestOnly(h) ==
    /\ pc[h] = "fetched"
    /\ \E r \in payouts[h].rows :
          /\ \A q \in payouts[h].rows : q <= r
          /\ stored' = [stored EXCEPT ![h] = @ \cup {r}]
          /\ known' = [known EXCEPT ![h] = @ \cup ({r} \cap payouts[h].hashed)]
    /\ EndIngest(h)
    /\ UNCHANGED <<ledger, hashed>>

(* One transaction inserts the batch; a row already there is left alone.   *)
Insert(h) ==
    /\ pc[h] = "fetched"
    /\ stored' = [stored EXCEPT ![h] = @ \cup payouts[h].rows]
    /\ known' = [known EXCEPT ![h] = @ \cup (payouts[h].hashed \ stored[h])]
    /\ EndIngest(h)
    /\ UNCHANGED <<ledger, hashed>>

(* SSH failed, PostgreSQL failed, or the process was killed and restarted. *)
Abandon(h) == /\ pc[h] # "idle"
              /\ EndIngest(h)
              /\ UNCHANGED <<ledger, hashed, stored, known>>

Next == \E h \in Hosts : \/ Append(h)
                         \/ ReadCursor(h) \/ Fetch(h) \/ Insert(h)
                         \/ Abandon(h)

Spec == Init /\ [][Next]_vars

(* Every host is polled for ever, and SSH and PostgreSQL stop failing it   *)
(* in the end.                                                             *)
Good(h) == ReadCursor(h) \/ Fetch(h) \/ Insert(h)

Fairness == /\ \A h \in Hosts : WF_vars(Good(h))
            /\ <>[][\E h \in Hosts : Append(h) \/ Good(h)]_vars

FairSpec == Spec /\ Fairness

-----------------------------------------------------------------------------
(* What the dashboard makes of the copies: unique_payouts_sql keeps one    *)
(* copy of each row id, a hashed one before an unhashed one, then the      *)
(* first host.                                                             *)

Holders(r) == {h \in Hosts : r \in stored[h]}

\* Mutant of Before: the copies are ordered by host alone.
BeforeByHost(g, h, r) == g <= h

Before(g, h, r) ==
    \/ r \in known[g] /\ r \notin known[h]
    \/ (r \in known[g] <=> r \in known[h]) /\ g <= h

UniqueCopy(r) == {h \in Holders(r) : \A g \in Holders(r) : Before(h, g, r)}

Attributable(r) == \E h \in UniqueCopy(r) : r \in known[h]

(* ORDER BY created_at DESC LIMIT: a later row id is a later payout.       *)
Latest(rows, limit) ==
    {r \in rows : Cardinality({q \in rows : q >= r}) <= limit}

\* Mutant of Recent: no DESC.
RecentOldest(h, limit) ==
    {r \in stored[h] : Cardinality({q \in stored[h] : q <= r}) <= limit}

\* recent_copies: of each host, its latest rows.
Recent(h, limit) == Latest(stored[h], limit)

(* The copies and rows that unattributed_recent counts, chosen among these.*)
RecentCopy(r, limit) ==
    LET holders == {h \in Hosts : r \in Recent(h, limit)}
    IN  {h \in holders : \A g \in holders : Before(h, g, r)}

RecentRows(limit) == Latest(UNION {Recent(h, limit) : h \in Hosts}, limit)

-----------------------------------------------------------------------------
(* Properties.                                                             *)

(* No gap: whatever batches, failures and appended rows came between, what *)
(* a host has stored is a prefix of its Mac's ledger, so the cursor        *)
(* max(payout_rowid) never jumps over a payout that was not ingested.      *)
StoredIsPrefix ==
    \A h \in Hosts :
        /\ stored[h] \subseteq ledger[h]
        /\ \A r \in stored[h], q \in ledger[h] : q < r => q \in stored[h]

(* A payout that could be attributed to a session stays so: a copy that    *)
(* another host ingests later, without the hash, never hides it.           *)
AttributionIsKept ==
    [][\A r \in Rows : Attributable(r) => Attributable(r)']_vars

(* The bound on each host's rows, which spares unattributed_recent the     *)
(* whole table, changes nothing: its rows are the latest of the account,   *)
(* and each is judged by the copy that all other readers take, however far *)
(* the hosts are behind one another.                                       *)
RecentIsExact ==
    \A limit \in 1 .. MaxRow :
        LET latest == Latest(UNION {stored[h] : h \in Hosts}, limit)
        IN  /\ RecentRows(limit) = latest
            /\ \A r \in latest : RecentCopy(r, limit) = UniqueCopy(r)

(* Every payout in a Mac's ledger is ingested in the end, behind any       *)
(* number of failed ticks and later payouts.                               *)
EventuallyIngested ==
    \A h \in Hosts, r \in Rows : r \in ledger[h] ~> r \in stored[h]

(* The earnings of one host, seen as a copy that follows its Mac's ledger. *)
Copy(h) == INSTANCE LedgerCopy WITH source <- ledger[h], copy <- stored[h]

(* Every host's ingestion is such a copy: a transaction takes a first      *)
(* segment of the rows it lacks, or nothing.                               *)
ImplementsCopy ==
    /\ \A h \in Hosts : Copy(h)!Init
    /\ [][\A h \in Hosts : [Copy(h)!Next]_(Copy(h)!vars)]_vars
=============================================================================
