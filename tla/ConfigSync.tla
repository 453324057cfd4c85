----------------------------- MODULE ConfigSync -----------------------------
(***************************************************************************)
(* The config sync (collector/config_sync.py), the name index it builds    *)
(* and the log streams that resolve names through it                       *)
(* (collector/receiver.py), for the objects of one type.                   *)
(*                                                                         *)
(* ZPA changes at any time: objects are created, renamed and deleted.  A   *)
(* sync lists one microtenant after the other, then writes everything in   *)
(* one transaction, then swaps the index holder.  A log stream takes the   *)
(* index from the holder once, when it connects.  A record names the       *)
(* object accessed by its name of the moment; usage is stored under the id *)
(* this name resolves to, and here it is stored at once (CounterEngine     *)
(* says how it really gets there).                                         *)
(*                                                                         *)
(* Objects that are deleted keep their row in config_object; that a row    *)
(* was not refreshed by the last sync is what makes it "retired".          *)
(*                                                                         *)
(* The collector starts on an empty database, or on one of schema version  *)
(* 1, which stored an object once for each microtenant that listed it.     *)
(* collector/db.py migrates it before anything else runs; the process may  *)
(* die between any two of its commits.                                     *)
(***************************************************************************)
EXTENDS Integers, Sequences, FiniteSets

CONSTANTS
  Objs,         \* object ids, never reused by ZPA
  Names,        \* the names objects may carry
  NoName,       \* the name of an object not created yet
  TenantOrder,  \* the microtenants, in the order list_microtenants gives them
  Scopes,       \* the sets of microtenants that may list one object
  Streams,      \* log streams
  MaxChanges,   \* bound: changes of ZPA
  MaxSyncs,     \* bound: syncs started
  MaxRestarts   \* bound: restarts of the collector

Tenants == {TenantOrder[i] : i \in DOMAIN TenantOrder}

ASSUME NoNameAssumption == NoName \notin Names
ASSUME TenantAssumption ==
  /\ TenantOrder \in Seq(Tenants) /\ TenantOrder # <<>>
  /\ \A i, j \in DOMAIN TenantOrder : TenantOrder[i] = TenantOrder[j] => i = j
ASSUME ScopeAssumption == Scopes \subseteq (SUBSET Tenants) \ {{}}

VARIABLES
  zpa,       \* the name of each object and the microtenants that list it
  changes,   \* number of changes made
  sync,      \* the sync in progress
  syncs,     \* number of syncs started; the current one's time stamp
  config,    \* the config_object table
  lastSync,  \* meta.last_config_sync, 0 before the first sync
  index,     \* the NameIndex in the holder: pairs of a name and an id
  open,      \* the streams connected
  captured,  \* the NameIndex each stream resolves with
  used,      \* ids with a usage_counter row
  restarts,
  boot,      \* how far run() has got: "start", "stamp", "up"
  version,   \* meta.schema_version; 1 stands for a missing one too
  split,     \* history: objects created while microtenants were being listed
  steady,    \* history: objects listed ever since the sync began
  confirmed, \* history: the same for the last sync committed, and until now
  settled,   \* history: objects unchanged since the sync in progress began, since
             \* the last sync committed began, since the one behind the index began
  settledAt, \* history: the same for the index of each stream
  missed,    \* history: objects with an access not counted although the stream
             \* and the holder know the object, the holder by its name
  mistaken   \* history: objects settled for a stream with an access on it that
             \* was counted for another object

zpaVars    == <<zpa, changes, split>>
procVars   == <<restarts, boot, version>>
streamVars == <<open, captured, used, settledAt, missed, mistaken>>
vars == <<zpaVars, sync, syncs, config, lastSync, index, streamVars, procVars,
          steady, confirmed, settled>>

Idle == [pc |-> "idle", next |-> 1, pulled |-> {}]

Exists(o) == zpa[o].in # {}

IndexOf(rs) == {[name |-> r.name, id |-> r.id] : r \in rs}

\* Mutant: of several objects with the name one is taken.
ResolveAny(ix, name) ==
  LET ids == {e.id : e \in {x \in ix : x.name = name}}
  IN IF ids = {} THEN {} ELSE {CHOOSE id \in ids : TRUE}

\* NameIndex.resolve without a microtenant: the ids of a name, over all
\* microtenants; it gives an answer only when there is exactly one.
Resolve(ix, name) == {e.id : e \in {x \in ix : x.name = name}}

\* Within a microtenant no two objects have the same name.
MayCarry(o, name, T) ==
  \A p \in Objs \ {o} : zpa[p].name = name => zpa[p].in \cap T = {}

Existing == {o \in Objs : Exists(o)}

\* Every object that exists is in the table, under each of its microtenants:
\* no object, and a new database; or one that version 1 has synced once.
Init ==
  /\ zpa \in [Objs -> [name : Names, in : Scopes] \cup {[name |-> NoName, in |-> {}]}]
  /\ \A o \in Existing : MayCarry(o, zpa[o].name, zpa[o].in)
  /\ config = UNION {{[id |-> o, mt |-> t, name |-> zpa[o].name, seen |-> 1] :
                         t \in zpa[o].in} : o \in Existing}
  /\ syncs = (IF Existing = {} THEN 0 ELSE 1) /\ lastSync = syncs
  /\ used \in SUBSET Existing
  /\ changes = 0
  /\ boot = "start" /\ version = 1 /\ restarts = 0
  /\ sync = Idle /\ index = {}
  /\ open = {} /\ captured = [s \in Streams |-> {}]
  /\ split = {} /\ steady = {} /\ confirmed = Existing
  /\ settled = [sync |-> {}, table |-> Existing, index |-> {}]
  /\ settledAt = [s \in Streams |-> {}]
  /\ missed = {} /\ mistaken = {}

-----------------------------------------------------------------------------
(* Start-up, up to the moment the dashboard and the receiver are started.  *)

Position(t) == CHOOSE i \in DOMAIN TenantOrder : TenantOrder[i] = t

\* Mutant: of the rows of an object the one stored last is kept.
CollapsedLast ==
  {r \in config : \A x \in config : x.id = r.id => Position(x.mt) <= Position(r.mt)}

\* Of the rows of an object the first, by rowid, is kept: version 1 inserted
\* them in the order in which it listed the microtenants.
Collapsed ==
  {r \in config : \A x \in config : x.id = r.id => Position(r.mt) <= Position(x.mt)}

\* Mutant: an old schema is stamped as current, and its rows stay.
MigrateStampOnly ==
  /\ boot = "start" /\ version = 1
  /\ version' = 2 /\ boot' = "stamp"
  /\ UNCHANGED <<zpaVars, sync, syncs, config, lastSync, index, streamVars, restarts,
                 steady, confirmed, settled>>

\* migrate: the deletion is committed ...
Migrate ==
  /\ boot = "start" /\ version = 1
  /\ config' = Collapsed /\ boot' = "stamp"
  /\ UNCHANGED <<zpaVars, sync, syncs, lastSync, index, streamVars, restarts, version,
                 steady, confirmed, settled>>

\* ... and then the version; the next call of migrate does nothing.
Stamp ==
  /\ boot = "stamp"
  /\ version' = 2 /\ boot' = "start"
  /\ UNCHANGED <<zpaVars, sync, syncs, config, lastSync, index, streamVars, restarts,
                 steady, confirmed, settled>>

\* The index is rebuilt from the stored rows, those of deleted objects included.
LoadIndex ==
  /\ boot = "start" /\ version = 2
  /\ index' = IndexOf(config) /\ boot' = "up"
  /\ settled' = [settled EXCEPT !.index = settled.table]
  /\ UNCHANGED <<zpaVars, sync, syncs, config, lastSync, streamVars, restarts, version,
                 steady, confirmed>>

\* The process dies and is started again; the streams have to connect again.
Restart ==
  /\ restarts < MaxRestarts
  /\ restarts' = restarts + 1
  /\ boot' = "start"
  /\ sync' = Idle /\ index' = {}
  /\ open' = {} /\ captured' = [s \in Streams |-> {}]
  /\ settledAt' = [s \in Streams |-> {}]
  /\ settled' = [settled EXCEPT !.sync = {}, !.index = {}]
  /\ UNCHANGED <<zpaVars, syncs, config, lastSync, used, missed, mistaken, version,
                 steady, confirmed>>

-----------------------------------------------------------------------------
(* ZPA.                                                                    *)

Change(o, name, T) ==
  /\ changes < MaxChanges
  /\ changes' = changes + 1
  /\ zpa' = [zpa EXCEPT ![o] = [name |-> name, in |-> T]]
  /\ settled' = [place \in DOMAIN settled |-> settled[place] \ {o}]
  /\ settledAt' = [s \in Streams |-> settledAt[s] \ {o}]
  /\ UNCHANGED <<sync, syncs, config, lastSync, index, open, captured, used, missed,
                 mistaken, procVars>>

Create(o, name, T) ==
  /\ zpa[o].name = NoName /\ MayCarry(o, name, T)
  /\ Change(o, name, T)
  /\ split' = IF sync.pc = "pull" THEN split \cup {o} ELSE split
  /\ UNCHANGED <<steady, confirmed>>

Rename(o, name) ==
  /\ Exists(o) /\ name # zpa[o].name /\ MayCarry(o, name, zpa[o].in)
  /\ Change(o, name, zpa[o].in)
  /\ UNCHANGED <<split, steady, confirmed>>

Delete(o) ==
  /\ Exists(o)
  /\ Change(o, zpa[o].name, {})
  /\ steady' = steady \ {o} /\ confirmed' = confirmed \ {o}
  /\ UNCHANGED split

-----------------------------------------------------------------------------
(* The sync, on an executor thread; run() starts one at a time.            *)

\* Mutant: rows without an id are kept.
ListingNoId(t) ==
  LET listed == {x \in Objs : t \in zpa[x].in} IN
  {[id |-> o, mt |-> t, name |-> zpa[o].name] : o \in listed}
  \cup {[id |-> NoName, mt |-> t, name |-> zpa[o].name] : o \in listed}

Listing(t) == {[id |-> o, mt |-> t, name |-> zpa[o].name] :
                 o \in {x \in Objs : t \in zpa[x].in}}

StartSync ==
  /\ boot = "up" /\ sync.pc = "idle" /\ syncs < MaxSyncs
  /\ syncs' = syncs + 1
  /\ sync' = [Idle EXCEPT !.pc = "pull"]
  /\ steady' = Existing
  /\ settled' = [settled EXCEPT !.sync = Existing]
  /\ UNCHANGED <<zpaVars, config, lastSync, index, streamVars, procVars, confirmed>>

\* One microtenant is listed; of an id listed twice the first row counts.
PullTenant ==
  /\ sync.pc = "pull"
  /\ LET fresh == {r \in Listing(TenantOrder[sync.next]) :
                     \A p \in sync.pulled : p.id # r.id}
     IN sync' = [sync EXCEPT
          !.pulled = @ \cup fresh,
          !.next = @ + 1,
          !.pc = IF sync.next = Len(TenantOrder) THEN "write" ELSE "pull"]
  /\ UNCHANGED <<zpaVars, syncs, config, lastSync, index, streamVars, procVars,
                 steady, confirmed, settled>>

\* The client or the database fails: nothing is written, the index stays.
FailSync ==
  /\ sync.pc \in {"pull", "write"}
  /\ sync' = Idle
  /\ settled' = [settled EXCEPT !.sync = {}]
  /\ UNCHANGED <<zpaVars, syncs, config, lastSync, index, streamVars, procVars,
                 steady, confirmed>>

\* The transaction: one upsert per row on (id, microtenant_id), the time stamp
\* of the sync on each, and no row deleted.
Commit ==
  /\ sync.pc = "write"
  /\ config' =
       {r \in config : \A p \in sync.pulled : p.id # r.id \/ p.mt # r.mt}
       \cup {[id |-> p.id, mt |-> p.mt, name |-> p.name, seen |-> syncs] :
               p \in sync.pulled}
  /\ lastSync' = syncs
  /\ sync' = [sync EXCEPT !.pc = "publish"]
  /\ confirmed' = steady
  /\ settled' = [settled EXCEPT !.table = settled.sync]
  /\ UNCHANGED <<zpaVars, syncs, index, streamVars, procVars, steady>>

\* Mutant: the index is swapped in before the transaction is committed.
PublishEarly ==
  /\ sync.pc \in {"write", "publish"}
  /\ index' = IndexOf(sync.pulled)
  /\ settled' = [settled EXCEPT !.index = settled.sync]
  /\ sync' = IF sync.pc = "publish" THEN Idle ELSE sync
  /\ UNCHANGED <<zpaVars, syncs, config, lastSync, streamVars, procVars,
                 steady, confirmed>>

\* _sync_now: the index built from the pull replaces the one in the holder.
Publish ==
  /\ sync.pc = "publish"
  /\ index' = IndexOf(sync.pulled)
  /\ settled' = [settled EXCEPT !.index = settled.sync]
  /\ sync' = Idle
  /\ UNCHANGED <<zpaVars, syncs, config, lastSync, streamVars, procVars,
                 steady, confirmed>>

-----------------------------------------------------------------------------
(* The log streams, on the event loop.                                     *)

Connect(s) ==
  /\ boot = "up" /\ s \notin open
  /\ open' = open \cup {s}
  /\ captured' = [captured EXCEPT ![s] = index]
  /\ settledAt' = [settledAt EXCEPT ![s] = settled.index]
  /\ UNCHANGED <<zpaVars, sync, syncs, config, lastSync, index, used, missed, mistaken,
                 procVars, steady, confirmed, settled>>

Disconnect(s) ==
  /\ s \in open
  /\ open' = open \ {s}
  /\ captured' = [captured EXCEPT ![s] = {}]
  /\ settledAt' = [settledAt EXCEPT ![s] = {}]
  /\ UNCHANGED <<zpaVars, sync, syncs, config, lastSync, index, used, missed, mistaken,
                 procVars, steady, confirmed, settled>>

\* A user accesses o: the record on stream s names it, and the id this name
\* resolves to is used.  An unknown or ambiguous name is not counted.
Access(o, s) ==
  /\ Exists(o) /\ s \in open
  /\ LET ids == Resolve(captured[s], zpa[o].name) IN
       /\ used' = IF Cardinality(ids) = 1 THEN used \cup ids ELSE used
       /\ missed' = IF /\ Resolve(index, zpa[o].name) = {o} /\ ids # {o}
                       /\ \E e \in captured[s] : e.id = o
                    THEN missed \cup {o} ELSE missed
       /\ mistaken' = IF Cardinality(ids) = 1 /\ o \notin ids /\ o \in settledAt[s]
                      THEN mistaken \cup {o} ELSE mistaken
  /\ UNCHANGED <<zpaVars, sync, syncs, config, lastSync, index, open, captured, settledAt,
                 procVars, steady, confirmed, settled>>

-----------------------------------------------------------------------------
ZpaStep ==
  \E o \in Objs :
    \/ \E name \in Names :
         Rename(o, name) \/ \E T \in Scopes : Create(o, name, T)
    \/ Delete(o)

SyncStep == StartSync \/ PullTenant \/ FailSync \/ Commit \/ Publish

StreamStep ==
  \E s \in Streams : \/ Connect(s) \/ Disconnect(s)
                     \/ \E o \in Objs : Access(o, s)

BootStep == Migrate \/ Stamp \/ LoadIndex

Next == BootStep \/ ZpaStep \/ SyncStep \/ StreamStep \/ Restart

Spec == Init /\ [][Next]_vars

-----------------------------------------------------------------------------
Pulled   == [id : Objs, mt : Tenants, name : Names]
Stored   == [id : Objs, mt : Tenants, name : Names, seen : Nat]
Indexes  == SUBSET [name : Names, id : Objs]
SyncSet  == [pc : {"idle", "pull", "write", "publish"}, next : Nat,
             pulled : SUBSET Pulled]

\* The values ZPA, the sync, the stored rows and the indexes take.
TypeOK ==
  /\ zpa \in [Objs -> [name : Names \cup {NoName}, in : SUBSET Tenants]]
  /\ sync \in SyncSet /\ syncs \in Nat /\ lastSync \in Nat
  /\ config \subseteq Stored /\ index \in Indexes
  /\ boot \in {"start", "stamp", "up"} /\ version \in {1, 2}
  /\ open \subseteq Streams /\ captured \in [Streams -> Indexes]
  /\ split \subseteq Objs /\ used \subseteq Objs
  /\ missed \subseteq Objs /\ mistaken \subseteq Objs
  /\ steady \subseteq Objs /\ confirmed \subseteq Objs
  /\ settled \in [{"sync", "table", "index"} -> SUBSET Objs]
  /\ settledAt \in [Streams -> SUBSET Objs]

ConfigIds == {r.id : r \in config}

\* How the dashboard sees a retired object: some row of it was not refreshed by
\* the last sync, and it has been used.
Retired(o) == o \in used /\ \E r \in config : r.id = o /\ r.seen # lastSync

\* An object that ZPA has listed ever since the last committed sync began is
\* not retired ("retired = was in config before, gone now").
RetiredIsGone == \A o \in confirmed : ~Retired(o)

\* The same for the objects that were not created between the listings of two
\* microtenants, whatever else changed during a pull, failed or restarted.
SteadyIsKept == \A o \in confirmed \ split : ~Retired(o)

\* While the collector runs, each of these objects has one row at most, whatever
\* version stored it and wherever the migration was interrupted ("we never store
\* it again under a second scope").
OneRowEach ==
  boot = "up" => \A o \in Objs \ split : Cardinality({r \in config : r.id = o}) <= 1

\* Usage never belongs to an id the config table does not know: no index, in
\* the holder or held by a stream, is ahead of the committed table.
NoGhosts == used \subseteq ConfigIds

\* An access is counted for the object accessed or for none, if this object has
\* not changed since the sync behind the stream's index began: however old that
\* index is, whatever was created, renamed or deleted beside it, whether the index
\* was published or read back after a restart with the rows of deleted objects in
\* it.  An object that has taken its name since is not safe: as long as a stream
\* resolves with an index in which the name is somebody else's, they get its usage.
UsageIsEarned == mistaken = {}

\* "usage is keyed to the resolved ZPA object id ..., so renaming an object in
\* ZPA never produces a false retirement": an access of an object that the
\* current index knows by its new name is counted for it.
SyncedAccessCounts == missed = {}

=============================================================================
