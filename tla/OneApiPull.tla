----------------------------- MODULE OneApiPull -----------------------------
(***************************************************************************)
(* How the config sync pulls its objects out of ZPA: the OneAPI client of  *)
(* collector/oneapi.py and the loop over the microtenants in sync() of     *)
(* collector/config_sync.py.                                               *)
(*                                                                         *)
(* The service is external.  It answers one GET after the other with one   *)
(* page of a listing and the number of pages this listing has at that      *)
(* moment, while objects are created and deleted under the reader.  It may *)
(* refuse any request for a while (429, 503), fail it for good, and let    *)
(* the token expire.  Of the seven resources of a microtenant one is kept. *)
(***************************************************************************)
EXTENDS Integers, FiniteSets, SequencesExt

CONSTANTS
  Objs,        \* object ids
  Tenants,     \* microtenant ids
  NoTenant,    \* None: the request without a microtenantId
  Micro,       \* the listing of the microtenants
  PageSize,
  MaxChanges   \* bound: objects and microtenants created or deleted

ASSUME NoTenantAssumption == NoTenant \notin Tenants /\ Micro \notin Tenants \cup {NoTenant}
ASSUME FiniteAssumption == IsFiniteSet(Objs) /\ IsFiniteSet(Tenants)
ASSUME PageSizeAssumption == PageSize \in Nat \ {0}
ASSUME MaxChangesAssumption == MaxChanges \in Nat

Scopes   == Tenants \cup {NoTenant}
Listings == Scopes \cup {Micro}

VARIABLES
  list,      \* what the service would list now, in its order
  licensed,  \* the microtenants endpoint exists on this tenant
  changes,
  token,     \* OneAPIClient._token: "none", "valid" or "expired"
  pull,      \* the pull in progress
  since,     \* history: <<listing, entry>> there ever since the pull began
  ever,      \* history: <<listing, entry>> there at some time since
  shrunk     \* history: the listings that lost an entry while being read

service == <<list, licensed, changes>>
history == <<since, ever, shrunk>>
vars == <<service, token, pull, history>>

Entries(l) == IF l = Micro THEN Tenants ELSE Objs
Listed == UNION {{l} \X ToSet(list[l]) : l \in Listings}

\* A fresh client asks for the microtenants first.
FirstRequest == [pc |-> "get", at |-> Micro, page |-> 1, items |-> <<>>,
                 todo |-> <<>>, pulled |-> {}]

\* The listings of some of the entries of S, in any order.
Orders(S) == UNION {SetToSeqs(T) : T \in SUBSET S}

Init ==
  /\ \E f \in [Scopes -> Orders(Objs)], m \in Orders(Tenants) :
       list = [l \in Listings |-> IF l = Micro THEN m ELSE f[l]]
  /\ licensed \in BOOLEAN /\ (~licensed => list[Micro] = <<>>)
  /\ changes = 0
  /\ token = "none"
  /\ pull = [FirstRequest EXCEPT !.pc = "done"]
  /\ since = {} /\ ever = {} /\ shrunk = {}

-----------------------------------------------------------------------------
(* The service.  As a pull may find it in any state, only what changes      *)
(* during a pull has a step.                                               *)

Pulling == pull.pc \in {"get", "wait"}

Create(l, x, i) ==
  /\ Pulling /\ changes < MaxChanges
  /\ x \notin ToSet(list[l]) /\ (l = Micro => licensed)
  /\ changes' = changes + 1
  /\ list' = [list EXCEPT ![l] = InsertAt(@, i, x)]
  /\ ever' = ever \cup {<<l, x>>}
  /\ UNCHANGED <<licensed, token, pull, since, shrunk>>

Reading(l) == pull.at = l /\ pull.page > 1

Delete(l, x) ==
  /\ Pulling /\ changes < MaxChanges
  /\ \E i \in DOMAIN list[l] :
       list[l][i] = x /\ list' = [list EXCEPT ![l] = RemoveAt(@, i)]
  /\ changes' = changes + 1
  /\ since' = since \ {<<l, x>>}
  /\ shrunk' = IF Reading(l) THEN shrunk \cup {l} ELSE shrunk
  /\ UNCHANGED <<licensed, token, pull, ever>>

TokenExpires ==
  /\ Pulling /\ token = "valid"
  /\ token' = "expired"
  /\ UNCHANGED <<service, pull, history>>

-----------------------------------------------------------------------------
(* The client, on the sync's thread.                                       *)

\* sync() with a client of its own, which has no token yet.
StartPull ==
  /\ pull.pc \in {"done", "failed"}
  /\ pull' = FirstRequest
  /\ token' = "none"
  /\ since' = Listed /\ ever' = Listed /\ shrunk' = {}
  /\ UNCHANGED service

\* token: asked for by the first request, kept for as long as the client.
GetToken ==
  /\ pull.pc = "get" /\ token = "none"
  /\ token' = "valid"
  /\ UNCHANGED <<service, pull, history>>

\* Mutant: the rows of the listing before are still in the list.
NextListingKeeps(p) ==
  IF p.todo = <<>> THEN [p EXCEPT !.pc = "done"]
  ELSE [p EXCEPT !.at = Head(p.todo), !.todo = Tail(p.todo), !.page = 1]

\* The next microtenant, or the end of the pull.
NextListing(p) ==
  IF p.todo = <<>> THEN [p EXCEPT !.pc = "done"]
  ELSE [p EXCEPT !.at = Head(p.todo), !.todo = Tail(p.todo), !.page = 1, !.items = <<>>]

\* paged_get has returned: microtenants are what is left to do, after None;
\* any other row is pulled for the microtenant that was asked for.
Returned(p) ==
  IF p.at = Micro
  THEN NextListing([p EXCEPT !.todo = <<NoTenant>> \o p.items])
  ELSE NextListing([p EXCEPT !.pulled = @ \cup ({p.at} \X ToSet(p.items))])

TotalPages(l) == (Len(list[l]) + PageSize - 1) \div PageSize

Page(l, n) ==
  SubSeq(list[l], (n - 1) * PageSize + 1, Min({n * PageSize, Len(list[l])}))

\* Mutant: the last page but one is taken for the last.
IsLastButOne(page, total) == page + 1 >= total

\* Mutant: the page after the last is asked for.
IsLastLate(page, total) == page > total

IsLast(page, total) == page >= total

\* Mutant: every page is fetched as if it were the first.
TurnedAgain(p) == [p EXCEPT !.items = <<>>]

Turned(p) == [p EXCEPT !.page = @ + 1]

\* 200: the rows are appended; the number of pages is that of this answer.  The
\* client takes a missing list for an empty one and a missing number, or 0, for 1:
\* right for a listing without entries.  The service is assumed to leave them out
\* of no other answer, which would pass for the last page and cut the listing short.
Answer ==
  /\ pull.pc = "get" /\ token = "valid"
  /\ pull.at = Micro => licensed
  /\ LET more == [pull EXCEPT !.items = @ \o Page(pull.at, pull.page)]
     IN pull' = IF IsLast(pull.page, TotalPages(pull.at)) THEN Returned(more)
                ELSE Turned(more)
  /\ UNCHANGED <<service, token, history>>

\* 404 on the microtenants: the tenant has none, only None is listed.
NotLicensed ==
  /\ pull.pc = "get" /\ token = "valid"
  /\ pull.at = Micro /\ ~licensed
  /\ pull' = Returned([pull EXCEPT !.items = <<>>])
  /\ UNCHANGED <<service, token, history>>

\* 429 or 503: wait, then ask again.
Refused ==
  /\ pull.pc = "get" /\ token # "none"
  /\ pull' = [pull EXCEPT !.pc = "wait"]
  /\ UNCHANGED <<service, token, history>>

Retry ==
  /\ pull.pc = "wait"
  /\ pull' = [pull EXCEPT !.pc = "get"]
  /\ UNCHANGED <<service, token, history>>

\* Any other error, of the token request or of a GET: the pull is over and what
\* it has is dropped.
Fail ==
  /\ pull.pc = "get"
  /\ pull' = [FirstRequest EXCEPT !.pc = "failed"]
  /\ UNCHANGED <<service, token, history>>

\* 401: the client keeps its token, and the pull cannot go on.
Unauthorized == token = "expired" /\ Fail

Reply == GetToken \/ Answer \/ NotLicensed \/ Unauthorized

Client == StartPull \/ Reply \/ Fail \/ Refused \/ Retry

Service ==
  \/ TokenExpires
  \/ \E l \in Listings : \E x \in Entries(l) :
       Delete(l, x) \/ \E i \in 1..Len(list[l]) + 1 : Create(l, x, i)

Next == Client \/ Service

\* The service may refuse a request any number of times, but not for ever; it
\* need not fail any.
Fairness == SF_vars(Reply) /\ WF_vars(Retry)

Spec == Init /\ [][Next]_vars /\ Fairness

-----------------------------------------------------------------------------
MaxPages == (Cardinality(Objs \cup Tenants) + PageSize - 1) \div PageSize

\* The values the service and the client take; no page is asked for that no
\* listing can have.
TypeOK ==
  /\ \A l \in Listings : ToSet(list[l]) \subseteq Entries(l)
  /\ licensed \in BOOLEAN /\ changes \in 0..MaxChanges
  /\ token \in {"none", "valid", "expired"}
  /\ pull.pc \in {"get", "wait", "done", "failed"} /\ pull.at \in Listings
  /\ pull.page = 1 \/ pull.page \in 1..MaxPages
  /\ ToSet(pull.items) \subseteq Objs \cup Tenants
  /\ ToSet(pull.todo) \subseteq Scopes
  /\ pull.pulled \subseteq Scopes \X (Objs \cup Tenants)
  /\ since \subseteq ever /\ shrunk \subseteq Listings

\* The microtenants a pull must have asked about.
Known == {NoTenant} \cup
  IF Micro \in shrunk \/ ~licensed THEN {}
  ELSE {t \in Tenants : <<Micro, t>> \in since}

\* A pull that is done has every object that was listed all the time, in every
\* microtenant that was, whatever was created meanwhile and at whatever place;
\* only a listing that lost an entry while it was read may have skipped one.
\* (An object the pull skips is reported retired until the next sync.)
PullIsComplete ==
  pull.pc = "done" =>
    \A t \in Known \ shrunk, x \in Objs : <<t, x>> \in since => <<t, x>> \in pull.pulled

\* Every row pulled was listed in the microtenant it will be stored under.
PulledWhereListed == pull.pulled \subseteq ever

\* A pull comes to an end, with or without a result.
PullEnds == pull.pc = "get" ~> pull.pc \in {"done", "failed"}

=============================================================================
