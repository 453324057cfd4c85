--------------------------- MODULE ConfigSyncProofs ---------------------------
(***************************************************************************)
(* Proofs about ConfigSync for every set of objects, names, streams and    *)
(* microtenants, every order in which the microtenants are listed, every   *)
(* set of scopes and every bound.                                          *)
(***************************************************************************)
EXTENDS ConfigSync, TLAPS, FiniteSetTheorems, WellFoundedInduction

USE NoNameAssumption, ScopeAssumption

(***************************************************************************)
(* The order of the microtenants.                                          *)
(***************************************************************************)
LEMMA LeastOfNaturals ==
  ASSUME NEW S \in SUBSET Nat, S # {}
  PROVE  \E n \in S : \A m \in S : n <= m
<1> DEFINE R == OpToRel(<, Nat)
<1>1. IsWellFoundedOn(R, Nat)
  BY NatLessThanWellFounded
<1>2. \A m, n \in Nat : m < n => <<m, n>> \in R
  BY DEF OpToRel
<1> HIDE DEF R
<1>3. PICK n \in S : \A m \in S : <<m, n>> \notin R
  <2>1. S \subseteq Nat /\ S # {}
    OBVIOUS
  <2>2. \E n \in S : \A m \in S : ~(<<m, n>> \in R)
    BY ONLY <1>1, <2>1, WFMin
  <2> QED
    BY <2>2
<1>4. ASSUME NEW m \in S PROVE n <= m
  <2>1. m \in Nat /\ n \in Nat /\ ~(m < n)
    BY <1>2, <1>3
  <2> QED
    BY <2>1
<1> QED
  BY <1>4

LEMMA AtMostOne ==
  ASSUME NEW S, \A r, x \in S : r = x
  PROVE  Cardinality(S) <= 1
<1>1. CASE S = {}
  <2>1. Cardinality(S) = 0
    BY <1>1, FS_EmptySet
  <2> QED
    BY <2>1
<1>2. CASE S # {}
  <2>1. PICK r \in S : S = {r}
    BY <1>2
  <2>2. Cardinality({r}) = 1
    BY FS_Singleton
  <2> QED
    BY <2>1, <2>2
<1> QED
  BY <1>1, <1>2

LEMMA Positions ==
  /\ Len(TenantOrder) \in Nat \ {0} /\ DOMAIN TenantOrder = 1..Len(TenantOrder)
  /\ \A t \in Tenants : /\ Position(t) \in 1..Len(TenantOrder)
                        /\ TenantOrder[Position(t)] = t
  /\ \A i \in 1..Len(TenantOrder) :
       TenantOrder[i] \in Tenants /\ Position(TenantOrder[i]) = i
<1>1. /\ Len(TenantOrder) \in Nat \ {0} /\ DOMAIN TenantOrder = 1..Len(TenantOrder)
      /\ \A i, j \in DOMAIN TenantOrder : TenantOrder[i] = TenantOrder[j] => i = j
  BY TenantAssumption
<1>2. ASSUME NEW t \in Tenants
      PROVE  Position(t) \in DOMAIN TenantOrder /\ TenantOrder[Position(t)] = t
  <2>1. \E i \in DOMAIN TenantOrder : TenantOrder[i] = t
    BY DEF Tenants
  <2> QED
    BY <2>1 DEF Position
<1>3. ASSUME NEW i \in DOMAIN TenantOrder
      PROVE  TenantOrder[i] \in Tenants /\ Position(TenantOrder[i]) = i
  <2>1. TenantOrder[i] \in Tenants
    BY DEF Tenants
  <2> QED
    BY <1>1, <1>2, <2>1
<1> QED
  BY <1>1, <1>2, <1>3

\* t is the first of the microtenants of T to be listed.
IsHome(t, T) == t \in T /\ \A u \in T : Position(t) <= Position(u)

LEMMA EveryScopeHasAHome ==
  ASSUME NEW T \in SUBSET Tenants, T # {}
  PROVE  \E t \in T : IsHome(t, T)
<1>1. {Position(t) : t \in T} \in SUBSET Nat /\ {Position(t) : t \in T} # {}
  BY Positions
<1>2. PICK n \in {Position(t) : t \in T} : \A m \in {Position(t) : t \in T} : n <= m
  BY <1>1, LeastOfNaturals
<1> QED
  BY <1>2 DEF IsHome

LEMMA OneHome ==
  ASSUME NEW T \in SUBSET Tenants, NEW t, NEW u, IsHome(t, T), IsHome(u, T)
  PROVE  t = u
<1>1. /\ Position(t) <= Position(u) /\ Position(u) <= Position(t)
      /\ t \in Tenants /\ u \in Tenants
  BY DEF IsHome
<1>2. Position(t) = Position(u)
  BY <1>1, Positions
<1> QED
  BY <1>1, <1>2, Positions

(***************************************************************************)
(* Type correctness.  An object that exists has a name; a sync runs only   *)
(* after start-up and lists the microtenants one by one.                   *)
(***************************************************************************)
ZpaOK ==
  /\ \A o \in Existing : zpa[o].name \in Names
  /\ steady \cup confirmed \subseteq Existing

SyncOK ==
  /\ boot # "up" => sync = Idle
  /\ boot = "up" => version = 2
  /\ sync.pc = "pull" => sync.next \in 1..Len(TenantOrder)

TypeInv == TypeOK /\ ZpaOK /\ SyncOK

LEMMA TypeInit == Init => TypeInv
<1> SUFFICES ASSUME Init PROVE TypeInv
  OBVIOUS
<1>1. \A o \in Objs : \/ zpa[o].name \in Names /\ zpa[o].in \in Scopes
                      \/ zpa[o].name = NoName /\ zpa[o].in = {}
  BY DEF Init
<1>2. \A o \in Objs : zpa[o].in \subseteq Tenants /\ (zpa[o].in # {} => zpa[o].name \in Names)
  BY <1>1
<1>3. zpa \in [Objs -> [name : Names \cup {NoName}, in : SUBSET Tenants]]
  BY DEF Init
<1>4. settled \in [{"sync", "table", "index"} -> SUBSET Objs]
  BY DEF Init, Existing
<1>5. config \subseteq Stored
  BY <1>2 DEF Init, Existing, Exists, Stored
<1>6. sync \in SyncSet /\ sync.pc = "idle"
  BY DEF Init, SyncSet, Idle
<1>7. TypeOK
  BY <1>3, <1>4, <1>5, <1>6 DEF Init, TypeOK, Indexes, Existing
<1>8. ZpaOK
  BY <1>2 DEF Init, ZpaOK, Existing, Exists
<1>9. SyncOK
  BY <1>6 DEF Init, SyncOK
<1> QED
  BY <1>7, <1>8, <1>9 DEF TypeInv

LEMMA ListingTyped ==
  ASSUME TypeInv, NEW t \in Tenants
  PROVE  /\ Listing(t) \subseteq Pulled
         /\ \A p \in Listing(t) : /\ p.mt = t /\ p.name = zpa[p.id].name
                                  /\ t \in zpa[p.id].in /\ p.id \in Existing
  BY DEF TypeInv, TypeOK, ZpaOK, Listing, Pulled, Existing, Exists

\* What the pull of one microtenant adds.
LEMMA PullEffects ==
  ASSUME TypeInv, PullTenant
  PROVE  LET t == TenantOrder[sync.next]
             fresh == {r \in Listing(t) : \A p \in sync.pulled : p.id # r.id}
         IN /\ sync' \in SyncSet /\ t \in Tenants /\ Position(t) = sync.next
            /\ sync'.pulled = sync.pulled \cup fresh
            /\ sync'.next = sync.next + 1
            /\ sync'.pc = IF sync.next = Len(TenantOrder) THEN "write" ELSE "pull"
<1> DEFINE t == TenantOrder[sync.next]
           fresh == {r \in Listing(t) : \A p \in sync.pulled : p.id # r.id}
<1>1. t \in Tenants /\ Position(t) = sync.next /\ sync.next \in Nat
  BY Positions DEF PullTenant, TypeInv, SyncOK
<1>2. fresh \subseteq Pulled
  BY <1>1, ListingTyped
<1> HIDE DEF fresh
<1>3. sync' = [sync EXCEPT !.pulled = @ \cup fresh, !.next = @ + 1,
                 !.pc = IF sync.next = Len(TenantOrder) THEN "write" ELSE "pull"]
  BY DEF PullTenant, fresh
<1>4. sync \in SyncSet
  BY DEF TypeInv, TypeOK
<1>5. /\ sync'.pulled = sync.pulled \cup fresh
      /\ sync'.next = sync.next + 1
      /\ sync'.pc = IF sync.next = Len(TenantOrder) THEN "write" ELSE "pull"
  BY <1>3, <1>4 DEF SyncSet
<1>6. sync.pulled \cup fresh \in SUBSET Pulled /\ sync.next + 1 \in Nat
  BY <1>1, <1>2, <1>4 DEF SyncSet
<1>7. sync' \in SyncSet
  BY <1>3, <1>4, <1>6 DEF SyncSet
<1> QED
  BY <1>1, <1>5, <1>7 DEF fresh

LEMMA IdleTyped == Idle \in SyncSet /\ Idle.pc = "idle" /\ Idle.pulled = {} /\ Idle.next = 1
  BY DEF Idle, SyncSet

\* The object is no longer what any index or table was made from.
Unsettled(o) ==
  /\ settled' \in [{"sync", "table", "index"} -> SUBSET Objs]
  /\ settledAt' \in [Streams -> SUBSET Objs]
  /\ \A place \in {"sync", "table", "index"} : settled'[place] = settled[place] \ {o}
  /\ \A s \in Streams : settledAt'[s] = settledAt[s] \ {o}

\* What a change of ZPA does to the object changed, and to no other.
LEMMA ChangeEffects ==
  ASSUME TypeInv, NEW o \in Objs, NEW name \in Names, NEW T \in SUBSET Tenants,
         Change(o, name, T)
  PROVE  /\ zpa' \in [Objs -> [name : Names \cup {NoName}, in : SUBSET Tenants]]
         /\ zpa'[o].name = name /\ zpa'[o].in = T
         /\ \A p \in Objs \ {o} : zpa'[p] = zpa[p]
         /\ Unsettled(o)
         /\ UNCHANGED <<sync, syncs, config, lastSync, index, open, captured, used,
                        missed, mistaken, procVars>>
  BY DEF Change, TypeInv, TypeOK, Unsettled

LEMMA TypeStep == TypeInv /\ [Next]_vars => TypeInv'
<1> SUFFICES ASSUME TypeInv, [Next]_vars PROVE TypeInv'
  OBVIOUS
<1> USE DEF zpaVars, procVars, streamVars
<1>t. TypeOK /\ ZpaOK /\ SyncOK
  BY DEF TypeInv
<1>l. 1 \in 1..Len(TenantOrder)
  BY Positions
\* ZPA is left alone.
<1>1. ASSUME UNCHANGED zpaVars, TypeOK', SyncOK', steady' \cup confirmed' \subseteq Existing
      PROVE  TypeInv'
  BY <1>1, <1>t DEF TypeInv, ZpaOK, Existing, Exists
\* Only ZPA changes.
<1>2. ASSUME UNCHANGED <<sync, syncs, config, lastSync, index, open, captured, used,
                         missed, mistaken, procVars>>,
             zpa' \in [Objs -> [name : Names \cup {NoName}, in : SUBSET Tenants]],
             NEW o \in Objs, Unsettled(o), split' \subseteq Objs, ZpaOK'
      PROVE  TypeInv'
  <2>1. steady' \subseteq Objs /\ confirmed' \subseteq Objs
    BY <1>2 DEF ZpaOK, Existing
  <2>2. TypeOK' /\ SyncOK'
    BY <1>2, <1>t, <2>1 DEF TypeOK, SyncOK, Unsettled
  <2> QED
    BY <1>2, <2>2 DEF TypeInv
<1>3. CASE Migrate
  BY <1>1, <1>3, <1>t DEF Migrate, Collapsed, TypeOK, SyncOK, ZpaOK
<1>4. CASE Stamp
  BY <1>1, <1>4, <1>t DEF Stamp, TypeOK, SyncOK, ZpaOK
<1>5. CASE LoadIndex
  <2>1. IndexOf(config) \in Indexes
    BY <1>t DEF IndexOf, Indexes, TypeOK, Stored
  <2> QED
    BY <1>1, <1>5, <1>t, <2>1, IdleTyped DEF LoadIndex, TypeOK, SyncOK, ZpaOK
<1>6. CASE Restart
  BY <1>1, <1>6, <1>t, IdleTyped DEF Restart, TypeOK, SyncOK, ZpaOK, Indexes
<1>7. ASSUME NEW o \in Objs, NEW name \in Names, NEW T \in Scopes, Create(o, name, T)
      PROVE  TypeInv'
  <2>1. /\ zpa' \in [Objs -> [name : Names \cup {NoName}, in : SUBSET Tenants]]
        /\ zpa'[o].name = name /\ zpa'[o].in = T
        /\ \A p \in Objs \ {o} : zpa'[p] = zpa[p]
        /\ Unsettled(o)
        /\ UNCHANGED <<sync, syncs, config, lastSync, index, open, captured, used,
                       missed, mistaken, procVars>>
    BY <1>7, ChangeEffects DEF Create
  <2>2. T # {} /\ UNCHANGED <<steady, confirmed>> /\ split' \subseteq Objs
    BY <1>7, <1>t DEF Create, TypeOK
  <2>3. ZpaOK'
    BY <1>t, <2>1, <2>2 DEF ZpaOK, Existing, Exists
  <2> QED
    BY <1>2, <2>1, <2>2, <2>3
<1>8. ASSUME NEW o \in Objs, NEW name \in Names, Rename(o, name) PROVE TypeInv'
  <2>0. zpa[o].in \in SUBSET Tenants
    BY <1>t DEF TypeOK
  <2>1. /\ zpa' \in [Objs -> [name : Names \cup {NoName}, in : SUBSET Tenants]]
        /\ zpa'[o].name = name /\ zpa'[o].in = zpa[o].in
        /\ \A p \in Objs \ {o} : zpa'[p] = zpa[p]
        /\ Unsettled(o)
        /\ UNCHANGED <<sync, syncs, config, lastSync, index, open, captured, used,
                       missed, mistaken, procVars>>
    BY <1>8, <2>0, ChangeEffects DEF Rename
  <2>2. UNCHANGED <<steady, confirmed, split>> /\ split' \subseteq Objs
    BY <1>8, <1>t DEF Rename, TypeOK
  <2>3. ZpaOK'
    BY <1>t, <2>1, <2>2 DEF ZpaOK, Existing, Exists
  <2> QED
    BY <1>2, <2>1, <2>2, <2>3
<1>9. ASSUME NEW o \in Objs, Delete(o) PROVE TypeInv'
  <2>0. zpa[o].name \in Names /\ {} \in SUBSET Tenants
    BY <1>9, <1>t DEF Delete, ZpaOK, Existing
  <2>1. /\ zpa' \in [Objs -> [name : Names \cup {NoName}, in : SUBSET Tenants]]
        /\ zpa'[o].name = zpa[o].name /\ zpa'[o].in = {}
        /\ \A p \in Objs \ {o} : zpa'[p] = zpa[p]
        /\ Unsettled(o)
        /\ UNCHANGED <<sync, syncs, config, lastSync, index, open, captured, used,
                       missed, mistaken, procVars>>
    BY <1>9, <2>0, ChangeEffects DEF Delete
  <2>2. /\ steady' = steady \ {o} /\ confirmed' = confirmed \ {o}
        /\ split' = split /\ split' \subseteq Objs
    BY <1>9, <1>t DEF Delete, TypeOK
  <2>3. ZpaOK'
    BY <1>t, <2>1, <2>2 DEF ZpaOK, Existing, Exists
  <2> QED
    BY <1>2, <2>1, <2>2, <2>3
<1>10. CASE StartSync
  <2>1. /\ sync' = [Idle EXCEPT !.pc = "pull"] /\ sync' \in SyncSet
        /\ sync'.pc = "pull" /\ sync'.next = 1 /\ syncs' = syncs + 1
    BY <1>10 DEF StartSync, Idle, SyncSet
  <2>2. TypeOK'
    BY <1>10, <1>t, <2>1 DEF StartSync, TypeOK, Existing
  <2>3. SyncOK'
    BY <1>10, <1>t, <1>l, <2>1 DEF StartSync, SyncOK
  <2> QED
    BY <1>1, <1>10, <1>t, <2>2, <2>3 DEF StartSync, ZpaOK
<1>11. CASE PullTenant
  <2>1. /\ sync' \in SyncSet /\ sync'.next = sync.next + 1
        /\ sync'.pc = IF sync.next = Len(TenantOrder) THEN "write" ELSE "pull"
    BY <1>11, PullEffects
  <2>2. TypeOK'
    BY <1>11, <1>t, <2>1 DEF PullTenant, TypeOK
  <2>3. SyncOK'
    <3>1. sync.next \in 1..Len(TenantOrder) /\ Len(TenantOrder) \in Nat /\ boot = "up"
      BY <1>11, <1>t, Positions, IdleTyped DEF PullTenant, SyncOK
    <3> QED
      BY <1>11, <1>t, <2>1, <3>1 DEF PullTenant, SyncOK
  <2> QED
    BY <1>1, <1>11, <1>t, <2>2, <2>3 DEF PullTenant, ZpaOK
<1>12. CASE FailSync
  BY <1>1, <1>12, <1>t, IdleTyped DEF FailSync, TypeOK, SyncOK, ZpaOK
<1>13. CASE Commit
  <2>1. sync \in SyncSet /\ sync.pulled \subseteq Pulled
    BY <1>t DEF TypeOK, SyncSet
  <2>2. /\ sync' = [sync EXCEPT !.pc = "publish"] /\ sync' \in SyncSet
        /\ sync'.pc = "publish" /\ boot = "up"
    BY <1>13, <1>t, <2>1, IdleTyped DEF Commit, SyncSet, SyncOK
  <2>3. config' \subseteq Stored
    BY <1>13, <1>t, <2>1 DEF Commit, TypeOK, Pulled, Stored
  <2>4. TypeOK'
    BY <1>13, <1>t, <2>2, <2>3 DEF Commit, TypeOK
  <2>5. SyncOK'
    BY <1>13, <1>t, <2>2 DEF Commit, SyncOK
  <2> QED
    BY <1>1, <1>13, <1>t, <2>4, <2>5 DEF Commit, ZpaOK
<1>14. CASE Publish
  <2>1. IndexOf(sync.pulled) \in Indexes
    BY <1>t DEF IndexOf, Indexes, TypeOK, SyncSet, Pulled
  <2> QED
    BY <1>1, <1>14, <1>t, <2>1, IdleTyped DEF Publish, TypeOK, SyncOK, ZpaOK
<1>15. ASSUME NEW s \in Streams, Connect(s) PROVE TypeInv'
  BY <1>1, <1>15, <1>t DEF Connect, TypeOK, SyncOK, ZpaOK
<1>16. ASSUME NEW s \in Streams, Disconnect(s) PROVE TypeInv'
  BY <1>1, <1>16, <1>t DEF Disconnect, TypeOK, SyncOK, ZpaOK, Indexes
<1>17. ASSUME NEW s \in Streams, NEW o \in Objs, Access(o, s) PROVE TypeInv'
  <2>1. captured[s] \in Indexes
    BY <1>t DEF TypeOK
  <2>2. Resolve(captured[s], zpa[o].name) \subseteq Objs
    BY <2>1 DEF Resolve, Indexes
  <2>3. used' \subseteq Objs /\ missed' \subseteq Objs /\ mistaken' \subseteq Objs
    BY <1>17, <1>t, <2>2 DEF Access, TypeOK
  <2> QED
    BY <1>1, <1>17, <1>t, <2>3 DEF Access, TypeOK, SyncOK, ZpaOK
<1>18. CASE UNCHANGED vars
  BY <1>1, <1>18, <1>t DEF vars, TypeOK, SyncOK, ZpaOK
<1> QED
  BY <1>3, <1>4, <1>5, <1>6, <1>7, <1>8, <1>9, <1>10, <1>11, <1>12, <1>13,
     <1>14, <1>15, <1>16, <1>17, <1>18
     DEF Next, BootStep, ZpaStep, SyncStep, StreamStep

LEMMA TypeInvariant == Spec => []TypeInv
  BY TypeInit, TypeStep, PTL DEF Spec

\* ZPA, the sync, the stored rows and the indexes keep their types.
THEOREM TypeCorrect == Spec => []TypeOK
  BY TypeInvariant, PTL DEF TypeInv

(***************************************************************************)
(* Every id that anything refers to is in the committed table.             *)
(***************************************************************************)
IdsOf(S) == {e.id : e \in S}

KnownInv ==
  /\ NoGhosts
  /\ IdsOf(index) \subseteq ConfigIds
  /\ \A s \in Streams : IdsOf(captured[s]) \subseteq ConfigIds
  /\ sync.pc = "publish" => IdsOf(sync.pulled) \subseteq ConfigIds

LEMMA KnownInit == Init => KnownInv
<1> SUFFICES ASSUME Init PROVE KnownInv
  OBVIOUS
<1>1. used \subseteq ConfigIds
  <2> SUFFICES ASSUME NEW o \in used PROVE o \in ConfigIds
    OBVIOUS
  <2>1. o \in Existing /\ zpa[o].in # {}
    BY DEF Init, Existing, Exists
  <2>2. PICK t \in zpa[o].in : TRUE
    BY <2>1
  <2>3. [id |-> o, mt |-> t, name |-> zpa[o].name, seen |-> 1] \in config
    BY <2>1 DEF Init
  <2>4. [id |-> o, mt |-> t, name |-> zpa[o].name, seen |-> 1].id = o
    OBVIOUS
  <2> QED
    BY <2>3, <2>4 DEF ConfigIds
<1>2. sync.pc = "idle" /\ index = {} /\ \A s \in Streams : captured[s] = {}
  BY DEF Init, Idle
<1> QED
  BY <1>1, <1>2 DEF KnownInv, NoGhosts, IdsOf

\* The migration takes no object out of the table.
LEMMA CollapsedKeepsIds ==
  ASSUME TypeOK
  PROVE  {r.id : r \in Collapsed} = ConfigIds
<1>1. {r.id : r \in Collapsed} \subseteq ConfigIds
  BY DEF Collapsed, ConfigIds
<1>2. ASSUME NEW r \in config PROVE \E x \in Collapsed : x.id = r.id
  <2> DEFINE same == {x \in config : x.id = r.id}
             S    == {Position(x.mt) : x \in same}
  <2>1. \A x \in config : x.mt \in Tenants
    BY DEF TypeOK, Stored
  <2>2. S \in SUBSET Nat /\ S # {}
    BY <2>1, Positions
  <2>3. PICK n \in S : \A m \in S : n <= m
    BY <2>2, LeastOfNaturals
  <2>4. PICK x \in same : n = Position(x.mt)
    BY <2>3
  <2>5. \A y \in config : y.id = x.id => Position(x.mt) <= Position(y.mt)
    BY <2>3, <2>4
  <2> QED
    BY <2>4, <2>5 DEF Collapsed
<1> QED
  BY <1>1, <1>2 DEF ConfigIds

LEMMA IndexIds == \A S : IdsOf(IndexOf(S)) = IdsOf(S)
<1> TAKE S
<1> DEFINE entry(r) == [name |-> r.name, id |-> r.id]
<1>1. \A r : entry(r).id = r.id
  OBVIOUS
<1>2. IndexOf(S) = {entry(r) : r \in S}
  BY DEF IndexOf
<1> HIDE DEF entry
<1>3. \A r \in S : entry(r) \in IndexOf(S)
  BY <1>2
<1> QED
  BY <1>1, <1>2, <1>3 DEF IdsOf

LEMMA KnownStep == TypeInv /\ KnownInv /\ [Next]_vars => KnownInv'
<1> SUFFICES ASSUME TypeInv, KnownInv, [Next]_vars PROVE KnownInv'
  OBVIOUS
<1> USE DEF zpaVars, procVars, streamVars
<1>t. TypeOK /\ SyncOK
  BY DEF TypeInv
<1>1. ASSUME UNCHANGED <<config, used>>, index' \in {index, {}},
             \A s \in Streams : captured'[s] \in {captured[s], index, {}},
             sync'.pc = "publish" => sync' = sync
      PROVE  KnownInv'
  <2>1. \A S \in {index, {}} : IdsOf(S) \subseteq ConfigIds
    BY DEF KnownInv, IdsOf
  <2>2. \A s \in Streams : IdsOf(captured'[s]) \subseteq ConfigIds
    BY <1>1, <2>1 DEF KnownInv, IdsOf
  <2>3. ConfigIds' = ConfigIds
    BY <1>1 DEF ConfigIds
  <2> QED
    BY <1>1, <2>1, <2>2, <2>3 DEF KnownInv, NoGhosts, IdsOf
<1>2. CASE Migrate
  <2>1. ConfigIds' = ConfigIds
    BY <1>2, <1>t, CollapsedKeepsIds DEF Migrate, ConfigIds
  <2> QED
    BY <1>2, <2>1 DEF Migrate, KnownInv, NoGhosts, IdsOf
<1>3. CASE Stamp
  BY <1>1, <1>3 DEF Stamp
<1>4. CASE LoadIndex
  <2>1. IdsOf(index') \subseteq ConfigIds
    BY <1>4, IndexIds DEF LoadIndex, IdsOf, ConfigIds
  <2>2. ConfigIds' = ConfigIds
    BY <1>4 DEF LoadIndex, ConfigIds
  <2> QED
    BY <1>4, <2>1, <2>2 DEF LoadIndex, KnownInv, NoGhosts, IdsOf
<1>5. CASE Restart
  BY <1>1, <1>5, IdleTyped DEF Restart
<1>6. ASSUME NEW o \in Objs,
             \/ \E name \in Names : Rename(o, name) \/ \E T \in Scopes : Create(o, name, T)
             \/ Delete(o)
      PROVE  KnownInv'
  BY <1>1, <1>6 DEF Rename, Create, Delete, Change
<1>7. CASE StartSync
  BY <1>1, <1>7 DEF StartSync, Idle
<1>8. CASE PullTenant
  BY <1>1, <1>8, PullEffects DEF PullTenant
<1>9. CASE FailSync
  BY <1>1, <1>9, IdleTyped DEF FailSync
<1>10. CASE Commit
  <2>1. /\ ConfigIds \subseteq ConfigIds'
        /\ IdsOf(sync.pulled) \subseteq ConfigIds'
    <3> DEFINE stamped(p) == [id |-> p.id, mt |-> p.mt, name |-> p.name, seen |-> syncs]
    <3>1. /\ \A p \in sync.pulled : stamped(p) \in config' /\ stamped(p).id = p.id
          /\ \A r \in config : r \in config' \/ \E p \in sync.pulled : p.id = r.id
      BY <1>10 DEF Commit
    <3>2. IdsOf(sync.pulled) \subseteq ConfigIds'
      BY <3>1 DEF IdsOf, ConfigIds
    <3> QED
      BY <3>1, <3>2 DEF IdsOf, ConfigIds
  <2>2. sync'.pulled = sync.pulled
    BY <1>10, <1>t DEF Commit, TypeOK, SyncSet
  <2> QED
    BY <1>10, <2>1, <2>2 DEF Commit, KnownInv, NoGhosts, IdsOf
<1>11. CASE Publish
  <2>1. IdsOf(index') \subseteq ConfigIds /\ sync'.pc = "idle"
    BY <1>11, IndexIds, IdleTyped DEF Publish, KnownInv
  <2>2. ConfigIds' = ConfigIds
    BY <1>11 DEF Publish, ConfigIds
  <2> QED
    BY <1>11, <2>1, <2>2 DEF Publish, KnownInv, NoGhosts, IdsOf
<1>12. ASSUME NEW s \in Streams, Connect(s) \/ Disconnect(s) PROVE KnownInv'
  BY <1>1, <1>12, <1>t DEF Connect, Disconnect, TypeOK
<1>13. ASSUME NEW s \in Streams, NEW o \in Objs, Access(o, s) PROVE KnownInv'
  <2>1. Resolve(captured[s], zpa[o].name) \subseteq IdsOf(captured[s])
    BY DEF Resolve, IdsOf
  <2>2. used' \subseteq ConfigIds
    BY <1>13, <2>1 DEF Access, KnownInv, NoGhosts
  <2>3. ConfigIds' = ConfigIds
    BY <1>13 DEF Access, ConfigIds
  <2> QED
    BY <1>13, <2>2, <2>3 DEF Access, KnownInv, NoGhosts, IdsOf
<1>14. CASE UNCHANGED vars
  BY <1>1, <1>14 DEF vars
<1> QED
  BY <1>2, <1>3, <1>4, <1>5, <1>6, <1>7, <1>8, <1>9, <1>10, <1>11, <1>12, <1>13,
     <1>14 DEF Next, BootStep, ZpaStep, SyncStep, StreamStep

LEMMA KnownInvariant == Spec => []KnownInv
  BY TypeInvariant, KnownInit, KnownStep, PTL DEF Spec

\* Usage never belongs to an id that the config table does not have: every
\* index, however old, holds ids of the committed table only, and no row of it
\* is ever deleted but a second one of the same object.
THEOREM NoGhostsEver == Spec => []NoGhosts
  BY KnownInvariant, PTL DEF KnownInv

(***************************************************************************)
(* Every index has an object under its name of the moment, as long as the  *)
(* object is what it was when the sync behind the index began: what was    *)
(* pulled has it, then the table, then the index that is published or read *)
(* back, then the index a stream took.  An access of the object therefore  *)
(* resolves to it or, if the name is somebody else's too, to nobody.       *)
(***************************************************************************)
Has(S, o) == \E e \in S : e.id = o /\ e.name = zpa[o].name

EarnedPull ==
  /\ \A p \in sync.pulled : p.id \in settled.sync => p.name = zpa[p.id].name
  /\ sync.pc = "pull" => \A o \in settled.sync :
       Has(sync.pulled, o) \/ \A t \in zpa[o].in : sync.next <= Position(t)
  /\ sync.pc \in {"write", "publish"} => \A o \in settled.sync : Has(sync.pulled, o)

EarnedTable ==
  /\ \A o \in settled.table : Has(config, o)
  /\ version = 1 => \A r \in config : r.id \in settled.table => r.name = zpa[r.id].name

EarnedIndex ==
  /\ \A o \in settled.index : Has(index, o)
  /\ \A s \in Streams : \A o \in settledAt[s] : Has(captured[s], o)

SettledExist ==
  /\ \A place \in {"sync", "table", "index"} : settled[place] \subseteq Existing
  /\ \A s \in Streams : settledAt[s] \subseteq Existing

EarnedInv == SettledExist /\ EarnedPull /\ EarnedTable /\ EarnedIndex /\ UsageIsEarned

LEMMA EarnedInit == Init => EarnedInv
<1> SUFFICES ASSUME Init PROVE EarnedInv
  OBVIOUS
<1>1. /\ settled.sync = {} /\ settled.table = Existing /\ settled.index = {}
      /\ \A s \in Streams : settledAt[s] = {}
      /\ sync.pulled = {} /\ sync.pc = "idle"
  BY DEF Init, Idle
<1>2. \A r \in config : r.id \in Existing /\ r.name = zpa[r.id].name
  BY DEF Init
<1>3. ASSUME NEW o \in Existing PROVE Has(config, o)
  <2>1. zpa[o].in # {}
    BY DEF Existing, Exists
  <2>2. PICK t \in zpa[o].in : TRUE
    BY <2>1
  <2> DEFINE r == [id |-> o, mt |-> t, name |-> zpa[o].name, seen |-> 1]
  <2>3. r \in config /\ r.id = o /\ r.name = zpa[o].name
    BY DEF Init
  <2> QED
    BY <2>3 DEF Has
<1>4. mistaken = {}
  BY DEF Init
<1> QED
  BY <1>1, <1>2, <1>3, <1>4
     DEF EarnedInv, SettledExist, EarnedPull, EarnedTable, EarnedIndex, UsageIsEarned

\* What one listing adds to the objects pulled under their names.
LEMMA EarnedPullStep ==
  ASSUME TypeInv, EarnedInv, PullTenant
  PROVE  EarnedPull'
<1>1. /\ sync.pc = "pull" /\ sync.next \in 1..Len(TenantOrder)
      /\ zpa' = zpa /\ settled' = settled
  BY DEF PullTenant, TypeInv, SyncOK, zpaVars
<1> DEFINE t == TenantOrder[sync.next]
           fresh == {r \in Listing(t) : \A p \in sync.pulled : p.id # r.id}
<1>2. /\ t \in Tenants /\ Position(t) = sync.next
      /\ sync'.pulled = sync.pulled \cup fresh
      /\ sync'.next = sync.next + 1
      /\ sync'.pc = IF sync.next = Len(TenantOrder) THEN "write" ELSE "pull"
  BY PullEffects
<1>3. \A p \in sync'.pulled : p.id \in settled.sync => p.name = zpa[p.id].name
  BY <1>2, ListingTyped DEF EarnedInv, EarnedPull
<1>4. ASSUME NEW o \in settled.sync, t \in zpa[o].in PROVE Has(sync'.pulled, o)
  <2> DEFINE row == [id |-> o, mt |-> t, name |-> zpa[o].name]
  <2>1. o \in Objs
    BY DEF EarnedInv, SettledExist, Existing
  <2>2. row \in Listing(t) /\ row.id = o /\ row.name = zpa[o].name
    BY <1>4, <2>1 DEF Listing
  <2> HIDE DEF row
  <2>3. CASE \A p \in sync.pulled : p.id # o
    BY <1>2, <2>2, <2>3 DEF Has
  <2>4. ASSUME NEW p \in sync.pulled, p.id = o PROVE Has(sync'.pulled, o)
    <3>1. p.name = zpa[o].name
      BY <2>4 DEF EarnedInv, EarnedPull
    <3> QED
      BY <1>2, <2>4, <3>1 DEF Has
  <2> QED
    BY <2>3, <2>4
<1>5. ASSUME NEW o \in settled.sync
      PROVE  Has(sync'.pulled, o) \/ \A u \in zpa[o].in : sync.next + 1 <= Position(u)
  <2>1. CASE Has(sync.pulled, o)
    BY <1>2, <2>1 DEF Has
  <2>2. ASSUME ~Has(sync.pulled, o), t \notin zpa[o].in, NEW u \in zpa[o].in
        PROVE  sync.next + 1 <= Position(u)
    <3>1. sync.next <= Position(u) /\ u # t
      BY <1>1, <2>2 DEF EarnedInv, EarnedPull
    <3>2. u \in Tenants
      BY <2>2 DEF EarnedInv, SettledExist, Existing, TypeInv, TypeOK
    <3>3. Position(u) # sync.next /\ Position(u) \in Nat
      BY <1>2, <3>1, <3>2, Positions
    <3> QED
      BY <1>1, <3>1, <3>3
  <2> QED
    BY <1>4, <2>1, <2>2
<1>6. ASSUME sync'.pc = "write", NEW o \in settled.sync PROVE Has(sync'.pulled, o)
  <2>1. sync.next = Len(TenantOrder) /\ Len(TenantOrder) \in Nat
    BY <1>2, <1>6, Positions
  <2>2. PICK u \in zpa[o].in : u \in Tenants
    BY DEF EarnedInv, SettledExist, Existing, Exists, TypeInv, TypeOK
  <2>3. ~(sync.next + 1 <= Position(u))
    BY <2>1, <2>2, Positions
  <2> QED
    BY <1>5, <2>3
<1>7. sync'.pc # "publish"
  BY <1>2
<1> QED
  BY <1>1, <1>2, <1>3, <1>5, <1>6, <1>7 DEF EarnedPull, Has

\* The migration deletes rows of version 1, which all have the name.
LEMMA EarnedMigrate ==
  ASSUME TypeInv, EarnedInv, Migrate
  PROVE  EarnedTable'
<1>1. /\ config' = Collapsed /\ version = 1
      /\ UNCHANGED <<zpa, settled, version>>
  BY DEF Migrate, zpaVars
<1>2. Collapsed \subseteq config
  BY DEF Collapsed
<1>3. ASSUME NEW o \in settled.table PROVE Has(config', o)
  <2>1. PICK r \in config : r.id = o
    BY DEF EarnedInv, EarnedTable, Has
  <2>2. {x.id : x \in Collapsed} = ConfigIds
    BY CollapsedKeepsIds DEF TypeInv
  <2>3. PICK x \in Collapsed : x.id = o
    BY <2>1, <2>2 DEF ConfigIds
  <2>4. x.name = zpa[o].name
    BY <1>1, <1>2, <2>3 DEF EarnedInv, EarnedTable
  <2> QED
    BY <1>1, <2>3, <2>4 DEF Has
<1>4. \A r \in config' : r.id \in settled.table => r.name = zpa[r.id].name
  BY <1>1, <1>2 DEF EarnedInv, EarnedTable
<1> QED
  BY <1>1, <1>3, <1>4 DEF EarnedTable, Has

\* A change of ZPA leaves what the others have, and unsettles its object.
LEMMA EarnedChange ==
  ASSUME TypeInv, EarnedInv, NEW o \in Objs, NEW name \in Names,
         NEW T \in SUBSET Tenants, Change(o, name, T)
  PROVE  EarnedInv'
<1>1. /\ \A p \in Objs \ {o} : zpa'[p] = zpa[p]
      /\ Unsettled(o)
      /\ UNCHANGED <<sync, config, index, captured, mistaken, version>>
  BY ChangeEffects DEF procVars
<1>2. /\ settled'.sync = settled.sync \ {o} /\ settled'.table = settled.table \ {o}
      /\ settled'.index = settled.index \ {o}
      /\ \A s \in Streams : settledAt'[s] = settledAt[s] \ {o}
  BY <1>1 DEF Unsettled
<1>3. /\ settled.sync \subseteq Existing /\ settled.table \subseteq Existing
      /\ settled.index \subseteq Existing /\ \A s \in Streams : settledAt[s] \subseteq Existing
  BY DEF EarnedInv, SettledExist
<1>4. \A p \in Existing : p # o => p \in Existing' /\ zpa'[p] = zpa[p]
  BY <1>1 DEF Existing, Exists
<1>5. \A S, p : p \in Existing /\ p # o /\ Has(S, p) => Has(S, p)'
  BY <1>4 DEF Has
<1>6. SettledExist'
  BY <1>1, <1>2, <1>3, <1>4 DEF SettledExist
<1>7. EarnedPull'
  <2>1. ASSUME NEW p \in sync.pulled, p.id \in settled'.sync
        PROVE  p.name = zpa'[p.id].name
    BY <1>2, <1>3, <1>4, <2>1 DEF EarnedInv, EarnedPull
  <2>2. ASSUME NEW p \in settled'.sync
        PROVE  p \in settled.sync /\ p # o /\ zpa'[p] = zpa[p]
               /\ (Has(sync.pulled, p) => \E e \in sync.pulled : e.id = p /\ e.name = zpa'[p].name)
    BY <1>2, <1>3, <1>4, <2>2 DEF Has
  <2> QED
    BY <1>1, <2>1, <2>2 DEF EarnedInv, EarnedPull, Has
<1>8. EarnedTable'
  <2>1. ASSUME NEW p \in settled'.table
        PROVE  \E e \in config : e.id = p /\ e.name = zpa'[p].name
    BY <1>2, <1>3, <1>4, <2>1 DEF EarnedInv, EarnedTable, Has
  <2>2. ASSUME version = 1, NEW r \in config, r.id \in settled'.table
        PROVE  r.name = zpa'[r.id].name
    BY <1>2, <1>3, <1>4, <2>2 DEF EarnedInv, EarnedTable
  <2> QED
    BY <1>1, <2>1, <2>2 DEF EarnedTable, Has
<1>9. EarnedIndex'
  <2>1. ASSUME NEW p \in settled'.index
        PROVE  \E e \in index : e.id = p /\ e.name = zpa'[p].name
    BY <1>2, <1>3, <1>4, <2>1 DEF EarnedInv, EarnedIndex, Has
  <2>2. ASSUME NEW s \in Streams, NEW p \in settledAt'[s]
        PROVE  \E e \in captured[s] : e.id = p /\ e.name = zpa'[p].name
    BY <1>2, <1>3, <1>4, <2>2 DEF EarnedInv, EarnedIndex, Has
  <2> QED
    BY <1>1, <2>1, <2>2 DEF EarnedIndex, Has
<1> QED
  BY <1>1, <1>6, <1>7, <1>8, <1>9 DEF EarnedInv, UsageIsEarned

LEMMA IndexHas ==
  ASSUME NEW S, NEW o, Has(S, o)
  PROVE  Has(IndexOf(S), o)
<1>1. PICK r \in S : r.id = o /\ r.name = zpa[o].name
  BY DEF Has
<1> DEFINE e == [name |-> r.name, id |-> r.id]
<1>2. e \in IndexOf(S) /\ e.id = o /\ e.name = zpa[o].name
  BY <1>1 DEF IndexOf
<1> QED
  BY <1>2 DEF Has

LEMMA EarnedStep == TypeInv /\ EarnedInv /\ [Next]_vars => EarnedInv'
<1> SUFFICES ASSUME TypeInv, EarnedInv, [Next]_vars PROVE EarnedInv'
  OBVIOUS
<1> USE DEF zpaVars, procVars, streamVars
<1>t. TypeOK /\ SyncOK /\ ZpaOK
  BY DEF TypeInv
<1>e. SettledExist /\ EarnedPull /\ EarnedTable /\ EarnedIndex /\ mistaken = {}
  BY DEF EarnedInv, UsageIsEarned
<1>1. ASSUME zpa' = zpa, mistaken' = mistaken,
             SettledExist', EarnedPull', EarnedTable', EarnedIndex'
      PROVE  EarnedInv'
  BY <1>1, <1>e DEF EarnedInv, UsageIsEarned
\* What a step leaves alone.
<1>a. ASSUME UNCHANGED <<zpa, settled, settledAt>> PROVE SettledExist'
  BY <1>a, <1>e DEF SettledExist, Existing, Exists
<1>b. ASSUME UNCHANGED <<zpa, sync>>, settled'.sync = settled.sync PROVE EarnedPull'
  BY <1>b, <1>e DEF EarnedPull, Has
<1>c. ASSUME UNCHANGED <<zpa, config, version>>, settled'.table = settled.table PROVE EarnedTable'
  BY <1>c, <1>e DEF EarnedTable, Has
<1>d. ASSUME UNCHANGED <<zpa, index, captured, settledAt>>, settled'.index = settled.index
      PROVE  EarnedIndex'
  BY <1>d, <1>e DEF EarnedIndex, Has
<1>i. ASSUME zpa' = zpa, sync' = Idle PROVE EarnedPull'
  BY <1>i, IdleTyped DEF EarnedPull
<1>x. Existing' = Existing \/ zpa' # zpa
  BY DEF Existing, Exists
<1>2. CASE Migrate
  BY <1>1, <1>2, <1>a, <1>b, <1>d, EarnedMigrate DEF Migrate
<1>3. CASE Stamp
  <2>1. EarnedTable'
    BY <1>3, <1>e DEF Stamp, EarnedTable, Has
  <2> QED
    BY <1>1, <1>3, <1>a, <1>b, <1>d, <2>1 DEF Stamp
<1>4. CASE LoadIndex
  <2>1. /\ index' = IndexOf(config) /\ UNCHANGED <<zpa, captured, settledAt>>
        /\ settled'.index = settled.table /\ settled'.sync = settled.sync
        /\ settled'.table = settled.table
    BY <1>4, <1>t DEF LoadIndex, TypeOK
  <2>2. EarnedIndex'
    <3>1. ASSUME NEW o \in settled.table PROVE Has(IndexOf(config), o)
      BY <1>e, IndexHas DEF EarnedTable
    <3> QED
      BY <1>e, <2>1, <3>1 DEF EarnedIndex, Has
  <2>3. SettledExist'
    BY <1>e, <1>x, <2>1 DEF SettledExist
  <2> QED
    BY <1>1, <1>4, <1>b, <1>c, <2>1, <2>2, <2>3 DEF LoadIndex
<1>5. CASE Restart
  <2>1. /\ settled'.index = {} /\ settled'.sync = {} /\ settled'.table = settled.table
        /\ \A s \in Streams : settledAt'[s] = {}
        /\ UNCHANGED <<zpa, config, version, mistaken>> /\ sync' = Idle
    BY <1>5, <1>t DEF Restart, TypeOK
  <2>2. SettledExist'
    BY <1>e, <1>x, <2>1 DEF SettledExist
  <2>3. EarnedIndex'
    BY <2>1 DEF EarnedIndex
  <2> QED
    BY <1>1, <1>c, <1>i, <2>1, <2>2, <2>3
<1>6. ASSUME NEW o \in Objs, NEW name \in Names, NEW T \in Scopes, Create(o, name, T)
      PROVE  EarnedInv'
  BY <1>6, EarnedChange DEF Create
<1>7. ASSUME NEW o \in Objs, NEW name \in Names, Rename(o, name) PROVE EarnedInv'
  <2>1. zpa[o].in \in SUBSET Tenants
    BY <1>t DEF TypeOK
  <2> QED
    BY <1>7, <2>1, EarnedChange DEF Rename
<1>8. ASSUME NEW o \in Objs, Delete(o) PROVE EarnedInv'
  <2>1. zpa[o].name \in Names /\ {} \in SUBSET Tenants
    BY <1>8, <1>t DEF Delete, ZpaOK, Existing
  <2> QED
    BY <1>8, <2>1, EarnedChange DEF Delete
<1>9. CASE StartSync
  <2>1. /\ sync'.pc = "pull" /\ sync'.next = 1 /\ sync'.pulled = {}
        /\ settled'.sync = Existing /\ settled'.table = settled.table
        /\ settled'.index = settled.index
        /\ UNCHANGED <<zpa, config, version, index, captured, settledAt, mistaken>>
    BY <1>9, <1>t DEF StartSync, Idle, TypeOK
  <2>2. EarnedPull'
    <3>1. \A o \in Existing : zpa[o].in \subseteq Tenants
      BY <1>t DEF TypeOK, Existing
    <3>2. \A o \in Existing : \A t \in zpa[o].in : 1 <= Position(t)
      BY <3>1, Positions
    <3> QED
      BY <2>1, <3>2 DEF EarnedPull
  <2>3. SettledExist'
    BY <1>e, <1>x, <2>1 DEF SettledExist
  <2> QED
    BY <1>1, <1>c, <1>d, <2>1, <2>2, <2>3
<1>10. CASE PullTenant
  BY <1>1, <1>10, <1>a, <1>c, <1>d, EarnedPullStep DEF PullTenant
<1>11. CASE FailSync
  <2>1. /\ settled'.sync = {} /\ settled'.table = settled.table
        /\ settled'.index = settled.index /\ sync' = Idle
        /\ UNCHANGED <<zpa, config, version, index, captured, settledAt, mistaken>>
    BY <1>11, <1>t DEF FailSync, TypeOK
  <2>2. SettledExist'
    BY <1>e, <1>x, <2>1 DEF SettledExist
  <2> QED
    BY <1>1, <1>c, <1>d, <1>i, <2>1, <2>2
<1>12. CASE Commit
  <2>1. /\ settled'.table = settled.sync /\ settled'.sync = settled.sync
        /\ settled'.index = settled.index
        /\ sync'.pulled = sync.pulled /\ sync'.pc = "publish" /\ sync.pc = "write"
        /\ UNCHANGED <<zpa, version, index, captured, settledAt, mistaken>>
    BY <1>12, <1>t DEF Commit, TypeOK, SyncSet
  <2>2. version = 2
    BY <1>12, <1>t, IdleTyped DEF Commit, TypeOK, SyncOK
  <2>3. ASSUME NEW o \in settled.sync PROVE \E r \in config' : r.id = o /\ r.name = zpa[o].name
    <3>1. PICK p \in sync.pulled : p.id = o /\ p.name = zpa[o].name
      BY <1>e, <2>1 DEF EarnedPull, Has
    <3> DEFINE r == [id |-> p.id, mt |-> p.mt, name |-> p.name, seen |-> syncs]
    <3>2. r \in config' /\ r.id = o /\ r.name = zpa[o].name
      BY <1>12, <3>1 DEF Commit
    <3> QED
      BY <3>2
  <2>4. EarnedTable'
    BY <2>1, <2>2, <2>3 DEF EarnedTable, Has
  <2>5. EarnedPull'
    BY <1>e, <2>1 DEF EarnedPull, Has
  <2>6. SettledExist'
    BY <1>e, <1>x, <2>1 DEF SettledExist
  <2> QED
    BY <1>1, <1>d, <2>1, <2>4, <2>5, <2>6
<1>13. CASE Publish
  <2>1. /\ settled'.index = settled.sync /\ settled'.table = settled.table
        /\ settled'.sync = settled.sync
        /\ index' = IndexOf(sync.pulled) /\ sync' = Idle /\ sync.pc = "publish"
        /\ UNCHANGED <<zpa, config, version, captured, settledAt, mistaken>>
    BY <1>13, <1>t DEF Publish, TypeOK
  <2>2. ASSUME NEW o \in settled.sync PROVE Has(IndexOf(sync.pulled), o)
    BY <1>e, <2>1, IndexHas DEF EarnedPull
  <2>3. EarnedIndex'
    BY <1>e, <2>1, <2>2 DEF EarnedIndex, Has
  <2>4. SettledExist'
    BY <1>e, <1>x, <2>1 DEF SettledExist
  <2> QED
    BY <1>1, <1>c, <1>i, <2>1, <2>3, <2>4
<1>14. ASSUME NEW s \in Streams, Connect(s) \/ Disconnect(s) PROVE EarnedInv'
  <2>1. /\ \A z \in Streams : \/ captured'[z] = captured[z] /\ settledAt'[z] = settledAt[z]
                              \/ captured'[z] = index /\ settledAt'[z] = settled.index
                              \/ settledAt'[z] = {}
        /\ UNCHANGED <<zpa, sync, config, version, index, settled, mistaken>>
    BY <1>14, <1>t DEF Connect, Disconnect, TypeOK
  <2>2. EarnedIndex'
    BY <1>e, <2>1 DEF EarnedIndex, Has
  <2>3. SettledExist'
    BY <1>e, <1>x, <2>1 DEF SettledExist
  <2> QED
    BY <1>1, <1>b, <1>c, <2>1, <2>2, <2>3
<1>15. ASSUME NEW s \in Streams, NEW o \in Objs, Access(o, s) PROVE EarnedInv'
  <2>1. o \in settledAt[s] => o \in Resolve(captured[s], zpa[o].name)
    BY <1>e DEF EarnedIndex, Has, Resolve
  <2>2. mistaken' = mistaken
    BY <1>15, <2>1 DEF Access
  <2> QED
    BY <1>1, <1>15, <1>a, <1>b, <1>c, <1>d, <2>2 DEF Access
<1>16. CASE UNCHANGED vars
  BY <1>1, <1>16, <1>a, <1>b, <1>c, <1>d DEF vars
<1> QED
  BY <1>2, <1>3, <1>4, <1>5, <1>6, <1>7, <1>8, <1>9, <1>10, <1>11, <1>12, <1>13, <1>14,
     <1>15, <1>16 DEF Next, BootStep, ZpaStep, SyncStep, StreamStep

LEMMA EarnedInvariant == Spec => []EarnedInv
  BY TypeInvariant, EarnedInit, EarnedStep, PTL DEF Spec

\* An access of an object that has not changed since the sync behind the stream's
\* index began is counted for it or for nobody, however old that index is and
\* however the names of the others have moved.
THEOREM UsageIsEarnedEver == Spec => []UsageIsEarned
  BY EarnedInvariant, PTL DEF EarnedInv

(***************************************************************************)
(* Where the rows of an object are.  An object that was not created during *)
(* a pull is listed first, and so stored, under its home: the first of its *)
(* microtenants.  Once the migration has deleted the others, this is its   *)
(* only row.                                                               *)
(***************************************************************************)
Migrated == version = 2 \/ boot = "stamp"

Unborn == \A o \in Objs : zpa[o].name = NoName =>
                            \A r \in config \cup sync.pulled : r.id # o

KeysUnique ==
  /\ \A r, x \in config : r.id = x.id /\ r.mt = x.mt => r = x
  /\ \A p, q \in sync.pulled : p.id = q.id => p = q

HomeStored ==
  \A o \in Existing \ split, r \in config : r.id = o =>
    /\ r.mt \in zpa[o].in
    /\ \E x \in config : x.id = o /\ IsHome(x.mt, zpa[o].in)

HomePulled ==
  \A p \in sync.pulled : p.id \in Existing \ split => IsHome(p.mt, zpa[p.id].in)

OneRow ==
  Migrated => \A r, x \in config : r.id = x.id /\ r.id \notin split => r = x

SamePlace ==
  \A r \in config, p \in sync.pulled : r.id = p.id /\ r.id \notin split => r.mt = p.mt

NotYetListed ==
  sync.pc = "pull" =>
    \A o \in Existing \ split :
      o \notin IdsOf(sync.pulled) => \A t \in zpa[o].in : sync.next <= Position(t)

SteadyListed == sync.pc = "write" => steady \ split \subseteq IdsOf(sync.pulled)

ConfirmedFresh ==
  \A o \in confirmed \ split, r \in config : r.id = o => r.seen = lastSync

HomeInv ==
  /\ Unborn /\ KeysUnique /\ HomeStored /\ HomePulled /\ OneRow /\ SamePlace
  /\ NotYetListed /\ SteadyListed /\ ConfirmedFresh

LEMMA RowTypes ==
  ASSUME TypeOK
  PROVE  /\ \A r \in config : r.id \in Objs /\ r.mt \in Tenants
         /\ \A p \in sync.pulled : p.id \in Objs /\ p.mt \in Tenants
         /\ \A o \in Objs : zpa[o].in \in SUBSET Tenants
  BY DEF TypeOK, SyncSet, Stored, Pulled

LEMMA HomeInit == Init => HomeInv
<1> SUFFICES ASSUME Init PROVE HomeInv
  OBVIOUS
<1>0. TypeInv /\ TypeOK
  BY TypeInit DEF TypeInv
<1> DEFINE row(o, t) == [id |-> o, mt |-> t, name |-> zpa[o].name, seen |-> 1]
<1>1. /\ \A r \in config : \E o \in Existing : \E t \in zpa[o].in : r = row(o, t)
      /\ \A o \in Existing : \A t \in zpa[o].in : row(o, t) \in config
  BY DEF Init
<1>2. \A o, t : row(o, t).id = o /\ row(o, t).mt = t /\ row(o, t).seen = 1
  OBVIOUS
<1>i. /\ sync.pulled = {} /\ sync.pc = "idle" /\ ~Migrated
      /\ confirmed = Existing /\ (Existing # {} => lastSync = 1)
  BY DEF Init, Idle, Migrated
<1>3. \A r \in config : r.id \in Existing /\ r.mt \in zpa[r.id].in /\ r.seen = 1
                        /\ r = row(r.id, r.mt)
  BY <1>1, <1>2
<1>4. \A o \in Existing : zpa[o].name \in Names /\ o \in Objs
  BY <1>0 DEF TypeInv, ZpaOK, Existing
<1>5. Unborn /\ KeysUnique /\ ConfirmedFresh
  <2>1. Unborn
    BY <1>3, <1>4, <1>i, NoNameAssumption DEF Unborn
  <2>2. KeysUnique
    BY <1>3, <1>i DEF KeysUnique
  <2>3. ConfirmedFresh
    BY <1>3, <1>i DEF ConfirmedFresh
  <2> QED
    BY <2>1, <2>2, <2>3
<1>6. HomeStored
  <2> SUFFICES ASSUME NEW o \in Existing, NEW r \in config, r.id = o
               PROVE  /\ r.mt \in zpa[o].in
                      /\ \E x \in config : x.id = o /\ IsHome(x.mt, zpa[o].in)
    BY DEF HomeStored
  <2>1. r.mt \in zpa[o].in /\ zpa[o].in \in SUBSET Tenants
    BY <1>0, <1>3, RowTypes DEF Existing
  <2>2. PICK t \in zpa[o].in : IsHome(t, zpa[o].in)
    BY <2>1, EveryScopeHasAHome
  <2>3. row(o, t) \in config
    BY <1>1
  <2> QED
    BY <1>2, <2>1, <2>2, <2>3
<1> QED
  BY <1>5, <1>6, <1>i DEF HomeInv, HomePulled, OneRow, SamePlace, NotYetListed, SteadyListed

\* Objects come and go or change their name; the table and the sync stay.
LEMMA HomeZpaStep ==
  ASSUME TypeInv, HomeInv, NEW o \in Objs,
         \/ \E name \in Names : Rename(o, name) \/ \E T \in Scopes : Create(o, name, T)
         \/ Delete(o)
  PROVE  HomeInv'
<1> USE DEF procVars, streamVars
<1>t. TypeOK /\ ZpaOK
  BY DEF TypeInv
<1>h. /\ Unborn /\ KeysUnique /\ HomeStored /\ HomePulled /\ OneRow /\ SamePlace
      /\ NotYetListed /\ SteadyListed /\ ConfirmedFresh
  BY DEF HomeInv
<1>1. ASSUME UNCHANGED <<sync, config, lastSync, version, boot>>, split \subseteq split',
             steady' \subseteq steady, confirmed' \subseteq confirmed, Unborn',
             \A p \in (Existing \ split)' :
               \/ p \in Existing \ split /\ zpa'[p].in = zpa[p].in
               \/ sync.pc # "pull" /\ \A r \in config \cup sync.pulled : r.id # p
      PROVE  HomeInv'
  <2>1. KeysUnique' /\ OneRow' /\ SamePlace' /\ SteadyListed' /\ ConfirmedFresh'
    BY <1>1, <1>h DEF KeysUnique, OneRow, Migrated, SamePlace, SteadyListed,
                      ConfirmedFresh, IdsOf
  <2>2. HomeStored'
    <3> SUFFICES ASSUME NEW p \in (Existing \ split)', NEW r \in config, r.id = p
                 PROVE  /\ r.mt \in zpa'[p].in
                        /\ \E x \in config : x.id = p /\ IsHome(x.mt, zpa'[p].in)
      BY <1>1 DEF HomeStored, IsHome
    <3>1. p \in Existing \ split /\ zpa'[p].in = zpa[p].in
      BY <1>1
    <3> QED
      BY <1>h, <3>1 DEF HomeStored
  <2>3. HomePulled'
    <3> SUFFICES ASSUME NEW p \in sync.pulled, p.id \in (Existing \ split)'
                 PROVE  IsHome(p.mt, zpa'[p.id].in)
      BY <1>1 DEF HomePulled, IsHome
    <3>1. p.id \in Existing \ split /\ zpa'[p.id].in = zpa[p.id].in
      BY <1>1
    <3> QED
      BY <1>h, <3>1 DEF HomePulled
  <2>4. NotYetListed'
    BY <1>1, <1>h DEF NotYetListed, IdsOf, Position
  <2> QED
    BY <1>1, <2>1, <2>2, <2>3, <2>4 DEF HomeInv
<1>2. ASSUME NEW name \in Names, NEW T \in Scopes, Create(o, name, T) PROVE HomeInv'
  <2>1. /\ zpa'[o].name = name /\ zpa'[o].in = T
        /\ \A p \in Objs \ {o} : zpa'[p] = zpa[p]
        /\ UNCHANGED <<sync, config, lastSync, version, boot>>
    BY <1>2, ChangeEffects DEF Create
  <2>2. /\ zpa[o].name = NoName /\ UNCHANGED <<steady, confirmed>>
        /\ split' = IF sync.pc = "pull" THEN split \cup {o} ELSE split
    BY <1>2 DEF Create
  <2>3. \A r \in config \cup sync.pulled : r.id # o
    BY <1>h, <2>2 DEF Unborn
  <2>4. Unborn'
    BY <1>h, <2>1, NoNameAssumption DEF Unborn
  <2>5. \A p \in (Existing \ split)' :
          \/ p \in Existing \ split /\ zpa'[p].in = zpa[p].in
          \/ sync.pc # "pull" /\ \A r \in config \cup sync.pulled : r.id # p
    BY <2>1, <2>2, <2>3 DEF Existing, Exists
  <2> QED
    BY <1>1, <2>1, <2>2, <2>4, <2>5
<1>3. ASSUME NEW name \in Names, Rename(o, name) PROVE HomeInv'
  <2>0. zpa[o].in \in SUBSET Tenants
    BY <1>t, RowTypes
  <2>1. /\ zpa'[o].name = name /\ zpa'[o].in = zpa[o].in
        /\ \A p \in Objs \ {o} : zpa'[p] = zpa[p]
        /\ UNCHANGED <<sync, config, lastSync, version, boot>>
    BY <1>3, <2>0, ChangeEffects DEF Rename
  <2>2. UNCHANGED <<steady, confirmed, split>>
    BY <1>3 DEF Rename
  <2>3. Unborn'
    BY <1>h, <2>1, NoNameAssumption DEF Unborn
  <2>4. \A p \in (Existing \ split)' : p \in Existing \ split /\ zpa'[p].in = zpa[p].in
    BY <2>1, <2>2 DEF Existing, Exists
  <2> QED
    BY <1>1, <2>1, <2>2, <2>3, <2>4
<1>4. ASSUME Delete(o) PROVE HomeInv'
  <2>0. zpa[o].name \in Names /\ {} \in SUBSET Tenants
    BY <1>4, <1>t DEF Delete, ZpaOK, Existing
  <2>1. /\ zpa'[o].name = zpa[o].name /\ zpa'[o].in = {}
        /\ \A p \in Objs \ {o} : zpa'[p] = zpa[p]
        /\ UNCHANGED <<sync, config, lastSync, version, boot>>
    BY <1>4, <2>0, ChangeEffects DEF Delete
  <2>2. steady' \subseteq steady /\ confirmed' \subseteq confirmed /\ split' = split
    BY <1>4 DEF Delete
  <2>3. Unborn'
    BY <1>h, <2>1 DEF Unborn
  <2>4. \A p \in (Existing \ split)' : p \in Existing \ split /\ zpa'[p].in = zpa[p].in
    BY <2>1, <2>2 DEF Existing, Exists
  <2> QED
    BY <1>1, <2>1, <2>2, <2>3, <2>4
<1> QED
  BY <1>2, <1>3, <1>4

\* Steps that leave ZPA and the table alone, and drop or keep the pull.
LEMMA HomeFrame ==
  ASSUME HomeInv, UNCHANGED <<zpa, split, steady, confirmed, config, lastSync>>,
         Migrated' => Migrated,
         \/ sync' = sync
         \/ sync'.pulled = {} /\ sync'.pc \notin {"pull", "write"}
  PROVE  HomeInv'
<1>h. /\ Unborn /\ KeysUnique /\ HomeStored /\ HomePulled /\ OneRow /\ SamePlace
      /\ NotYetListed /\ SteadyListed /\ ConfirmedFresh
  BY DEF HomeInv
<1>1. sync'.pulled \subseteq sync.pulled /\ (sync'.pc \in {"pull", "write"} => sync' = sync)
  OBVIOUS
<1>2. Unborn' /\ KeysUnique' /\ OneRow' /\ SamePlace' /\ SteadyListed' /\ ConfirmedFresh'
  BY <1>h, <1>1 DEF Unborn, KeysUnique, OneRow, SamePlace, SteadyListed, ConfirmedFresh, IdsOf
<1>3. HomeStored'
  BY <1>h DEF HomeStored, Existing, Exists, IsHome, Position
<1>4. HomePulled'
  BY <1>h, <1>1 DEF HomePulled, Existing, Exists, IsHome, Position
<1>5. NotYetListed'
  BY <1>h, <1>1 DEF NotYetListed, Existing, Exists, IdsOf, Position
<1> QED
  BY <1>2, <1>3, <1>4, <1>5 DEF HomeInv

\* Of the rows of an object the migration keeps the one under its home.
LEMMA HomeMigrate == TypeInv /\ HomeInv /\ Migrate => HomeInv'
<1> SUFFICES ASSUME TypeInv, HomeInv, Migrate PROVE HomeInv'
  OBVIOUS
<1> USE DEF zpaVars, procVars, streamVars
<1>t. TypeOK /\ SyncOK
  BY DEF TypeInv
<1>h. Unborn /\ KeysUnique /\ HomeStored /\ ConfirmedFresh
  BY DEF HomeInv
<1>1. /\ UNCHANGED <<zpa, split, steady, confirmed, lastSync, sync>>
      /\ sync.pulled = {} /\ sync.pc = "idle"
      /\ config' \subseteq config
      /\ \A r \in config', x \in config : x.id = r.id => Position(r.mt) <= Position(x.mt)
  BY <1>t, IdleTyped DEF Migrate, Collapsed, SyncOK
<1>2. OneRow'
  <2> SUFFICES ASSUME NEW r \in config', NEW x \in config', r.id = x.id PROVE r = x
    BY DEF OneRow
  <2>1. Position(r.mt) <= Position(x.mt) /\ Position(x.mt) <= Position(r.mt)
    BY <1>1
  <2>2. r.mt \in Tenants /\ x.mt \in Tenants
    BY <1>1, <1>t, RowTypes
  <2>3. r.mt = x.mt
    BY <2>1, <2>2, Positions
  <2> QED
    BY <1>1, <1>h, <2>3 DEF KeysUnique
<1>3. HomeStored'
  <2> SUFFICES ASSUME NEW o \in Existing \ split, NEW r \in config', r.id = o
               PROVE  r.mt \in zpa[o].in /\ IsHome(r.mt, zpa[o].in)
    BY <1>1 DEF HomeStored, Existing, Exists, IsHome, Position
  <2>1. r.mt \in zpa[o].in
    BY <1>1, <1>h DEF HomeStored
  <2>2. PICK x \in config : x.id = o /\ IsHome(x.mt, zpa[o].in)
    BY <1>1, <1>h DEF HomeStored
  <2>3. Position(r.mt) <= Position(x.mt)
    BY <1>1, <2>2
  <2>4. zpa[o].in \in SUBSET Tenants /\ x.mt \in zpa[o].in
    BY <1>t, <2>2, RowTypes DEF Existing, IsHome
  <2>5. ASSUME NEW u \in zpa[o].in PROVE Position(r.mt) <= Position(u)
    <3>1. Position(x.mt) <= Position(u)
      BY <2>2 DEF IsHome
    <3>2. Position(r.mt) \in Nat /\ Position(x.mt) \in Nat /\ Position(u) \in Nat
      BY <2>1, <2>4, Positions
    <3> QED
      BY <2>3, <3>1, <3>2
  <2> QED
    BY <2>1, <2>5 DEF IsHome
<1>4. Unborn' /\ KeysUnique' /\ ConfirmedFresh'
  BY <1>1, <1>h DEF Unborn, KeysUnique, ConfirmedFresh
<1> QED
  BY <1>1, <1>2, <1>3, <1>4
     DEF HomeInv, HomePulled, SamePlace, NotYetListed, SteadyListed

\* A sync begins with nothing listed, at the first microtenant.
LEMMA HomeStart == TypeInv /\ HomeInv /\ StartSync => HomeInv'
<1> SUFFICES ASSUME TypeInv, HomeInv, StartSync PROVE HomeInv'
  OBVIOUS
<1> USE DEF zpaVars, procVars, streamVars
<1>t. TypeOK
  BY DEF TypeInv
<1>h. /\ Unborn /\ KeysUnique /\ HomeStored /\ OneRow /\ ConfirmedFresh
  BY DEF HomeInv
<1>1. /\ UNCHANGED <<zpa, split, config, lastSync, confirmed, version, boot>>
      /\ sync'.pulled = {} /\ sync'.pc = "pull" /\ sync'.next = 1
  BY DEF StartSync, Idle
<1>2. Unborn' /\ KeysUnique' /\ OneRow' /\ ConfirmedFresh'
  BY <1>1, <1>h DEF Unborn, KeysUnique, OneRow, Migrated, ConfirmedFresh
<1>3. HomeStored'
  <2> SUFFICES ASSUME NEW o \in Existing \ split, NEW r \in config, r.id = o
               PROVE  /\ r.mt \in zpa[o].in
                      /\ \E x \in config : x.id = o /\ IsHome(x.mt, zpa[o].in)
    BY <1>1 DEF HomeStored, Existing, Exists, IsHome, Position
  <2> QED
    BY <1>h DEF HomeStored
<1>4. NotYetListed'
  <2> SUFFICES ASSUME NEW o \in Existing, NEW t \in zpa[o].in PROVE 1 <= Position(t)
    BY <1>1 DEF NotYetListed, Existing, Exists, Position
  <2> QED
    BY <1>t, RowTypes, Positions DEF Existing
<1> QED
  BY <1>1, <1>2, <1>3, <1>4 DEF HomeInv, HomePulled, SamePlace, SteadyListed

\* A microtenant is listed: an object seen for the first time is at home there.
LEMMA HomePull == TypeInv /\ HomeInv /\ PullTenant => HomeInv'
<1> SUFFICES ASSUME TypeInv, HomeInv, PullTenant PROVE HomeInv'
  OBVIOUS
<1> USE DEF zpaVars, procVars, streamVars
<1> DEFINE t == TenantOrder[sync.next]
           fresh == {r \in Listing(t) : \A p \in sync.pulled : p.id # r.id}
<1>t. TypeOK /\ ZpaOK /\ SyncOK
  BY DEF TypeInv
<1>h. /\ Unborn /\ KeysUnique /\ HomeStored /\ HomePulled /\ OneRow /\ SamePlace
      /\ NotYetListed /\ SteadyListed /\ ConfirmedFresh
  BY DEF HomeInv
<1>1. /\ UNCHANGED <<zpa, split, config, lastSync, steady, confirmed, version, boot>>
      /\ sync.pc = "pull"
  BY DEF PullTenant
<1>2. /\ t \in Tenants /\ Position(t) = sync.next
      /\ sync'.pulled = sync.pulled \cup fresh
      /\ sync'.next = sync.next + 1
      /\ sync'.pc = IF sync.next = Len(TenantOrder) THEN "write" ELSE "pull"
  BY PullEffects
<1>3. /\ Migrated /\ sync.next \in 1..Len(TenantOrder)
      /\ Len(TenantOrder) \in Nat
  BY <1>1, <1>t, IdleTyped, Positions DEF SyncOK, Migrated
<1>4. ASSUME NEW p \in fresh
      PROVE  /\ p.id \in Existing /\ p.mt = t /\ t \in zpa[p.id].in
             /\ p.id \notin IdsOf(sync.pulled)
  BY <1>2, ListingTyped DEF IdsOf
<1>5. ASSUME NEW p \in fresh, p.id \notin split PROVE IsHome(p.mt, zpa[p.id].in)
  <2>1. \A u \in zpa[p.id].in : sync.next <= Position(u)
    BY <1>1, <1>4, <1>5, <1>h DEF NotYetListed
  <2> QED
    BY <1>2, <1>4, <2>1 DEF IsHome
\* What the listing of t has not shown is not in t.
<1>6. ASSUME NEW o \in Existing \ split, o \notin IdsOf(sync'.pulled), NEW u \in zpa[o].in
      PROVE  /\ sync.next + 1 <= Position(u)
             /\ Position(u) <= Len(TenantOrder)
  <2>1. o \notin IdsOf(sync.pulled)
    BY <1>2, <1>6 DEF IdsOf
  <2>2. u # t
    <3> SUFFICES ASSUME u = t PROVE FALSE
      OBVIOUS
    <3> DEFINE p == [id |-> o, mt |-> t, name |-> zpa[o].name]
    <3>1. p \in Listing(t) /\ p.id = o
      BY <1>6 DEF Listing, Existing
    <3>2. p \in fresh
      BY <2>1, <3>1 DEF IdsOf
    <3> QED
      BY <1>2, <1>6, <3>1, <3>2 DEF IdsOf
  <2>3. u \in Tenants
    BY <1>t, RowTypes DEF Existing
  <2>4. Position(u) # sync.next /\ Position(u) \in 1..Len(TenantOrder)
    BY <2>2, <2>3, Positions
  <2>5. sync.next <= Position(u)
    BY <1>1, <1>h, <2>1 DEF NotYetListed
  <2> QED
    BY <1>3, <2>4, <2>5
<1>u. Unborn'
  <2>1. \A p \in fresh : zpa[p.id].name \in Names
    BY <1>4, <1>t DEF ZpaOK
  <2> HIDE DEF fresh
  <2> QED
    BY <1>1, <1>2, <1>h, <2>1, NoNameAssumption DEF Unborn
<1>7. KeysUnique'
  <2>1. \A p, q \in fresh : p.id = q.id => p = q
    BY DEF Listing
  <2>2. \A p \in fresh, q \in sync.pulled : p.id # q.id
    OBVIOUS
  <2> HIDE DEF fresh
  <2> QED
    BY <1>1, <1>2, <1>h, <2>1, <2>2 DEF KeysUnique
<1>8. SamePlace'
  <2> HIDE DEF fresh
  <2> SUFFICES ASSUME NEW r \in config, NEW p \in fresh, r.id = p.id, r.id \notin split
               PROVE  r.mt = p.mt
    BY <1>1, <1>2, <1>h DEF SamePlace
  <2>1. p.id \in Existing \ split /\ IsHome(p.mt, zpa[p.id].in)
    BY <1>4, <1>5
  <2>2. PICK x \in config : x.id = p.id /\ IsHome(x.mt, zpa[p.id].in)
    BY <1>h, <2>1 DEF HomeStored
  <2>3. x = r
    BY <1>3, <1>h, <2>2 DEF OneRow
  <2>4. zpa[p.id].in \in SUBSET Tenants
    BY <1>t, <2>1, RowTypes DEF Existing
  <2> QED
    BY <2>1, <2>2, <2>3, <2>4, OneHome
<1> HIDE DEF fresh, t
<1>9. HomePulled'
  <2> SUFFICES ASSUME NEW p \in sync.pulled \cup fresh, p.id \in Existing \ split
               PROVE  IsHome(p.mt, zpa[p.id].in)
    BY <1>1, <1>2 DEF HomePulled, Existing, Exists, IsHome, Position
  <2> QED
    BY <1>5, <1>h DEF HomePulled
<1>10. HomeStored'
  BY <1>1, <1>h DEF HomeStored, Existing, Exists, IsHome, Position
<1>11. NotYetListed'
  <2> SUFFICES ASSUME NEW o \in Existing \ split, o \notin IdsOf(sync'.pulled),
                      NEW u \in zpa[o].in
               PROVE  sync.next + 1 <= Position(u)
    BY <1>1, <1>2 DEF NotYetListed, Existing, Exists, Position, IdsOf
  <2> QED
    BY <1>6
<1>12. SteadyListed'
  <2> SUFFICES ASSUME sync.next = Len(TenantOrder), NEW o \in steady \ split,
                      o \notin IdsOf(sync'.pulled)
               PROVE  FALSE
    BY <1>1, <1>2 DEF SteadyListed, IdsOf
  <2>1. o \in Existing \ split /\ zpa[o].in # {}
    BY <1>t DEF ZpaOK, Existing, Exists
  <2>2. PICK u \in zpa[o].in : TRUE
    BY <2>1
  <2>3. /\ sync.next + 1 <= Position(u)
        /\ Position(u) <= Len(TenantOrder)
    BY <1>6, <2>1
  <2>4. Position(u) \in Nat
    BY <1>t, <2>1, RowTypes, Positions DEF Existing
  <2> QED
    BY <1>3, <2>3, <2>4
<1>13. OneRow' /\ ConfirmedFresh'
  BY <1>1, <1>h DEF OneRow, Migrated, ConfirmedFresh
<1> QED
  BY <1>u, <1>7, <1>8, <1>9, <1>10, <1>11, <1>12, <1>13 DEF HomeInv

\* The rows written by the sync replace those of the same objects.
LEMMA HomeCommit == TypeInv /\ HomeInv /\ Commit => HomeInv'
<1> SUFFICES ASSUME TypeInv, HomeInv, Commit PROVE HomeInv'
  OBVIOUS
<1> USE DEF zpaVars, procVars, streamVars
<1> DEFINE kept == {r \in config : \A p \in sync.pulled : p.id # r.id \/ p.mt # r.mt}
           row(p) == [id |-> p.id, mt |-> p.mt, name |-> p.name, seen |-> syncs]
<1>t. TypeOK /\ ZpaOK /\ SyncOK
  BY DEF TypeInv
<1>h. /\ Unborn /\ KeysUnique /\ HomeStored /\ HomePulled /\ OneRow /\ SamePlace
      /\ SteadyListed
  BY DEF HomeInv
<1>1. /\ UNCHANGED <<zpa, split, steady, version, boot>>
      /\ confirmed' = steady /\ lastSync' = syncs
      /\ sync'.pulled = sync.pulled /\ sync'.pc = "publish" /\ sync.pc = "write"
  BY <1>t DEF Commit, TypeOK, SyncSet
<1>2. config' = kept \cup {row(p) : p \in sync.pulled}
  BY DEF Commit
<1>3. Migrated
  BY <1>1, <1>t, IdleTyped DEF SyncOK, Migrated
<1>4. \A r \in config' : \/ r \in config /\ \A p \in sync.pulled : p.id # r.id \/ p.mt # r.mt
                         \/ \E p \in sync.pulled : r = row(p)
  BY <1>2
<1>5. /\ \A p \in sync.pulled : row(p) \in config'
      /\ \A p : row(p).id = p.id /\ row(p).mt = p.mt /\ row(p).seen = syncs
  BY <1>2
<1> HIDE DEF kept, row
\* Where an object was listed it has no other row.
<1>6. ASSUME NEW r \in config', NEW p \in sync.pulled, r.id = p.id, r.id \notin split
      PROVE  r = row(p)
  <2>1. ~(r \in config /\ \A q \in sync.pulled : q.id # r.id \/ q.mt # r.mt)
    BY <1>6, <1>h DEF SamePlace
  <2>2. PICK q \in sync.pulled : r = row(q)
    BY <1>4, <2>1
  <2>3. q.id = p.id
    BY <1>5, <1>6, <2>2
  <2> QED
    BY <1>h, <2>2, <2>3 DEF KeysUnique
<1>7. Unborn'
  BY <1>1, <1>4, <1>5, <1>h DEF Unborn
<1>8. KeysUnique'
  <2>1. ASSUME NEW r \in config', NEW x \in config', r.id = x.id, r.mt = x.mt
        PROVE  r = x
    <3>1. CASE r \in config /\ x \in config
      BY <2>1, <3>1, <1>h DEF KeysUnique
    <3>2. CASE r \notin config \/ x \notin config
      <4>1. \E p \in sync.pulled : p.id = r.id /\ p.mt = r.mt
        BY <1>4, <1>5, <2>1, <3>2
      <4>2. PICK p, q \in sync.pulled : r = row(p) /\ x = row(q)
        BY <1>4, <2>1, <4>1
      <4>3. p = q
        BY <1>5, <1>h, <2>1, <4>2 DEF KeysUnique
      <4> QED
        BY <4>2, <4>3
    <3> QED
      BY <3>1, <3>2
  <2> QED
    BY <1>1, <1>h, <2>1 DEF KeysUnique
<1>9. OneRow'
  <2> SUFFICES ASSUME NEW r \in config', NEW x \in config', r.id = x.id, r.id \notin split
               PROVE  r = x
    BY <1>1 DEF OneRow
  <2>1. CASE \E p \in sync.pulled : p.id = r.id
    BY <1>6, <2>1
  <2>2. CASE \A p \in sync.pulled : p.id # r.id
    BY <1>3, <1>4, <1>5, <1>h, <2>2 DEF OneRow
  <2> QED
    BY <2>1, <2>2
<1>10. SamePlace'
  BY <1>1, <1>5, <1>6 DEF SamePlace
<1>11. HomeStored'
  <2> SUFFICES ASSUME NEW o \in Existing \ split, NEW r \in config', r.id = o
               PROVE  /\ r.mt \in zpa[o].in
                      /\ \E x \in config' : x.id = o /\ IsHome(x.mt, zpa[o].in)
    BY <1>1 DEF HomeStored, Existing, Exists, IsHome, Position
  <2>1. CASE \E p \in sync.pulled : p.id = o
    <3>1. PICK p \in sync.pulled : p.id = o
      BY <2>1
    <3>2. IsHome(p.mt, zpa[o].in) /\ r = row(p) /\ r.mt = p.mt
      BY <1>5, <1>6, <1>h, <3>1 DEF HomePulled
    <3> QED
      BY <3>2 DEF IsHome
  <2>2. CASE \A p \in sync.pulled : p.id # o
    <3>1. r \in config
      BY <1>4, <1>5, <2>2
    <3>2. PICK x \in config : x.id = o /\ IsHome(x.mt, zpa[o].in)
      BY <1>h, <3>1 DEF HomeStored
    <3>3. x \in config'
      <4>1. x \in kept
        BY <2>2, <3>2 DEF kept
      <4> QED
        BY <1>2, <4>1
    <3> QED
      BY <1>h, <3>1, <3>2, <3>3 DEF HomeStored
  <2> QED
    BY <2>1, <2>2
<1>12. HomePulled'
  BY <1>1, <1>h DEF HomePulled, Existing, Exists, IsHome, Position
<1>13. ConfirmedFresh'
  <2> SUFFICES ASSUME NEW o \in steady \ split, NEW r \in config', r.id = o
               PROVE  r.seen = syncs
    BY <1>1 DEF ConfirmedFresh
  <2>1. PICK p \in sync.pulled : p.id = o
    BY <1>1, <1>h DEF SteadyListed, IdsOf
  <2> QED
    BY <1>5, <1>6, <2>1
<1> QED
  BY <1>1, <1>7, <1>8, <1>9, <1>10, <1>11, <1>12, <1>13
     DEF HomeInv, NotYetListed, SteadyListed

LEMMA HomeStep == TypeInv /\ HomeInv /\ [Next]_vars => HomeInv'
<1> SUFFICES ASSUME TypeInv, HomeInv, [Next]_vars PROVE HomeInv'
  OBVIOUS
<1> USE DEF zpaVars, procVars, streamVars
<1>t. SyncOK
  BY DEF TypeInv
<1>1. CASE Migrate
  BY <1>1, HomeMigrate
<1>2. CASE Stamp \/ LoadIndex
  BY <1>2, HomeFrame DEF Stamp, LoadIndex, Migrated
<1>3. CASE Restart
  BY <1>3, HomeFrame, IdleTyped DEF Restart, Migrated
<1>4. CASE ZpaStep
  BY <1>4, HomeZpaStep DEF ZpaStep
<1>5. CASE StartSync
  BY <1>5, HomeStart
<1>6. CASE PullTenant
  BY <1>6, HomePull
<1>7. CASE FailSync \/ Publish
  BY <1>7, HomeFrame, IdleTyped DEF FailSync, Publish, Migrated
<1>8. CASE Commit
  BY <1>8, HomeCommit
<1>9. CASE StreamStep
  BY <1>9, HomeFrame DEF StreamStep, Connect, Disconnect, Access, Migrated
<1>10. CASE UNCHANGED vars
  BY <1>10, HomeFrame DEF vars, Migrated
<1> QED
  BY <1>1, <1>2, <1>3, <1>4, <1>5, <1>6, <1>7, <1>8, <1>9, <1>10
     DEF Next, BootStep, SyncStep

LEMMA HomeInvariant == Spec => []HomeInv
  BY TypeInvariant, HomeInit, HomeStep, PTL DEF Spec

\* An object that ZPA has listed ever since the last committed sync began, and
\* that was not created while that sync listed microtenants, is never shown as
\* retired: the commit refreshes its only row.
THEOREM SteadyIsKeptEver == Spec => []SteadyIsKept
<1>1. HomeInv => SteadyIsKept
  BY DEF HomeInv, ConfirmedFresh, SteadyIsKept, Retired
<1> QED
  BY <1>1, HomeInvariant, PTL

\* Each of these objects has one row at most while the collector runs, whatever
\* version stored it, wherever the migration was interrupted, and whichever
\* microtenants list it later.
THEOREM OneRowEver == Spec => []OneRowEach
<1>1. TypeInv /\ HomeInv => OneRowEach
  <2> SUFFICES ASSUME TypeInv, HomeInv, boot = "up", NEW o \in Objs \ split
               PROVE  Cardinality({r \in config : r.id = o}) <= 1
    BY DEF OneRowEach
  <2>1. \A r, x \in {y \in config : y.id = o} : r = x
    BY DEF TypeInv, SyncOK, HomeInv, OneRow, Migrated
  <2> QED
    BY <2>1, AtMostOne
<1> QED
  BY <1>1, TypeInvariant, HomeInvariant, PTL

=============================================================================
