----------------------------- MODULE AdminClient -----------------------------
(***************************************************************************)
(* One tab of the admin client: the auth store (kept in localStorage), the *)
(* query for the current user in TanStack Query's cache (external: one     *)
(* fetch of a key at a time, shared by all that mount it; data older than  *)
(* the stale time is fetched again when a component using it mounts; the   *)
(* cache outlives the components), and the requests that may answer after  *)
(* the operator who sent them has left.                                    *)
(***************************************************************************)
EXTENDS Naturals, FiniteSets

CONSTANTS
  Operator,
  Nobody,
  Permission,
  Grants,       \* the permissions the server grants to each operator
  Link,         \* the sidebar's links
  Needs,        \* the permission each declares
  MaxLogouts    \* bound: logout requests under way

ASSUME AdminClientAssumption ==
  /\ Nobody \notin Operator
  /\ Grants \in [Operator -> SUBSET Permission]
  /\ Needs \in [Link -> Permission]
  /\ MaxLogouts \in Nat \ {0}

VARIABLES
  store,      \* the auth store
  cache,      \* the current-user query: whose data, and whether it is still fresh
  fetches,    \* GET /users/me under way, with the token each was sent with
  login,      \* whose POST /auth/login is under way
  logouts,    \* POST /auth/logout under way
  settled     \* history: the operator's own request was answered in this session

clientVars == <<store, cache, fetches, login, logouts, settled>>

Stores ==
  [accessToken : Operator \union {Nobody}, user : Operator \union {Nobody},
   permissions : SUBSET Permission]

ClearedSession == [accessToken |-> Nobody, user |-> Nobody, permissions |-> {}]

Fetches == [token : Operator \union {Nobody}, tries : 1..2]

NoData == [of |-> Nobody, fresh |-> FALSE]

(* ProtectedRoute *)
IsAuthenticated(s) == s.accessToken # Nobody

(* Whoever mounts, what is cached is copied into the store. *)
Synced(s, c) ==
  IF c.of = Nobody THEN s ELSE [s EXCEPT !.permissions = Grants[c.of]]

FetchAnyway(s, c) ==   \* mutant: every component sends a request of its own
  IF c.fresh THEN fetches ELSE fetches \union {[token |-> s.accessToken, tries |-> 1]}

FetchOnce(s, c) ==   \* mutant: what is cached never goes stale
  IF c.of # Nobody \/ fetches # {} THEN fetches ELSE {[token |-> s.accessToken, tries |-> 1]}

(* What mounting useCurrentUser fetches. *)
FetchOnMount(s, c) ==
  IF c.fresh \/ fetches # {} THEN fetches ELSE {[token |-> s.accessToken, tries |-> 1]}

Submit(o) ==
  /\ ~IsAuthenticated(store)
  /\ login = Nobody
  /\ login' = o
  /\ UNCHANGED <<store, cache, fetches, logouts, settled>>

(* setSession leaves roles and permissions; the shell mounts. *)
LoginSucceeds ==
  /\ login # Nobody
  /\ LET s == [store EXCEPT !.accessToken = login, !.user = login]
     IN /\ store' = Synced(s, cache)
        /\ fetches' = FetchOnMount(s, cache)
  /\ login' = Nobody
  /\ settled' = FALSE
  /\ UNCHANGED <<cache, logouts>>

LoginFails ==
  /\ login # Nobody
  /\ login' = Nobody
  /\ UNCHANGED <<store, cache, fetches, logouts, settled>>

SyncedAlways(s, c) == Synced(s, c)   \* mutant: the answer is copied by the query, not the shell

(* The effect of a new answer runs only while the shell is mounted. *)
SyncedIfMounted(s, c) == IF IsAuthenticated(s) THEN Synced(s, c) ELSE s

Answered(f) ==
  /\ f.token # Nobody
  /\ fetches' = fetches \ {f}
  /\ cache' = [of |-> f.token, fresh |-> TRUE]
  /\ store' = SyncedIfMounted(store, cache')
  /\ settled' = (settled \/ f.token = store.user)
  /\ UNCHANGED <<login, logouts>>

(* retry: 1, with the token of the moment; the old data stays. *)
Failed(f) ==
  /\ fetches' = (fetches \ {f}) \union
       (IF f.tries = 1 THEN {[token |-> store.accessToken, tries |-> 2]} ELSE {})
  /\ UNCHANGED <<store, cache, login, logouts, settled>>

GoesStale ==
  /\ cache.fresh
  /\ cache' = [cache EXCEPT !.fresh = FALSE]
  /\ UNCHANGED <<store, fetches, login, logouts, settled>>

(* Unused data is dropped after a while. *)
Collected ==
  /\ ~IsAuthenticated(store)
  /\ cache.of # Nobody
  /\ cache' = NoData
  /\ UNCHANGED <<store, fetches, login, logouts, settled>>

(* Opening a page that shows the current user. *)
Navigate ==
  /\ IsAuthenticated(store)
  /\ store' = Synced(store, cache)
  /\ fetches' = FetchOnMount(store, cache)
  /\ UNCHANGED <<cache, login, logouts, settled>>

(* localStorage is all that is left. *)
Reload ==
  /\ cache' = NoData
  /\ fetches' = IF IsAuthenticated(store) THEN {[token |-> store.accessToken, tries |-> 1]} ELSE {}
  /\ login' = Nobody
  /\ logouts' = 0
  /\ UNCHANGED <<store, settled>>

LogoutClick ==
  /\ IsAuthenticated(store)
  /\ logouts < MaxLogouts
  /\ logouts' = logouts + 1
  /\ UNCHANGED <<store, cache, fetches, login, settled>>

AfterLogout == ClearedSession

(* Answer or error, whoever is logged in by then. *)
LogoutEnds ==
  /\ logouts > 0
  /\ logouts' = logouts - 1
  /\ store' = AfterLogout
  /\ settled' = FALSE
  /\ UNCHANGED <<cache, fetches, login>>

ClientInit ==
  /\ store = ClearedSession
  /\ cache = NoData
  /\ fetches = {}
  /\ login = Nobody
  /\ logouts = 0
  /\ settled = FALSE

ClientNext ==
  \/ \E o \in Operator : Submit(o)
  \/ LoginSucceeds \/ LoginFails
  \/ \E f \in fetches : Answered(f) \/ Failed(f)
  \/ GoesStale \/ Collected \/ Navigate \/ Reload
  \/ LogoutClick \/ LogoutEnds

(* Requests end, /users/me with an answer again and again, a logout at     *)
(* times before the next reload; time passes; an operator who stays opens  *)
(* pages.                                                                  *)
ClientFairness ==
  /\ SF_clientVars(\E f \in fetches : Answered(f))
  /\ WF_clientVars(\E f \in fetches : Answered(f) \/ Failed(f))
  /\ SF_clientVars(LogoutEnds)
  /\ WF_clientVars(GoesStale) /\ SF_clientVars(Navigate)

ClientSpec == ClientInit /\ [][ClientNext]_clientVars /\ ClientFairness

-----------------------------------------------------------------------------
(* Properties *)

CanRead(permissions, l) == Needs[l] \in permissions

Visible == {l \in Link : CanRead(store.permissions, l)}

Usable(o) == {l \in Link : CanRead(Grants[o], l)}

ClientTypeOK ==
  /\ store \in Stores
  /\ cache \in [of : Operator \union {Nobody}, fresh : BOOLEAN]
  /\ fetches \subseteq Fetches /\ Cardinality(fetches) <= 1
  /\ login \in Operator \union {Nobody}
  /\ logouts \in 0..MaxLogouts
  /\ settled \in BOOLEAN
  /\ store.user = store.accessToken

(* Whatever answers late, a tab without a session holds no permissions:    *)
(* an answer to a request sent before the logout stays in the cache.       *)
NothingWithoutSession == ~IsAuthenticated(store) => store.permissions = {}

(* The store and the cache are well formed, and nothing outlives a session. *)
ClientSound == ClientTypeOK /\ NothingWithoutSession

(* use-current-user.ts:7-9: once an operator's own request was answered,   *)
(* the shell keeps showing what they may do: no late answer to a request   *)
(* of somebody else, no cached data and no reload replaces it.             *)
OwnStaysOwn == settled => store.permissions = Grants[store.user]

(* What another operator left in the cache wears off: an operator who      *)
(* stays and opens pages ends up with their own permissions.               *)
OwnInTheEnd ==
  \A o \in Operator : <>[](store.user = o) => <>[](store.permissions = Grants[o])

(* sidebar.tsx:7 "the sidebar hides links the caller can't use".           *)
SidebarShowsUsableLinks ==
  IsAuthenticated(store) => Visible \subseteq Usable(store.user)
=============================================================================
