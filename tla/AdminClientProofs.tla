-------------------------- MODULE AdminClientProofs --------------------------
(***************************************************************************)
(* Theorems about AdminClient, for any operators, permissions and links.   *)
(***************************************************************************)
EXTENDS AdminClient, FiniteSetTheorems, TLAPS

USE AdminClientAssumption DEF AdminClientAssumption

(* TanStack Query has one fetch of the key under way, or none. *)
OneFetch == \A f, g \in fetches : f = g

(* Once the operator's own request was answered, everything that can still *)
(* reach the store is theirs: the cached data, and the fetch under way.    *)
OwnFromHere ==
  settled => /\ store.user \in Operator
             /\ store.permissions = Grants[store.user]
             /\ cache.of \in {store.user, Nobody}
             /\ \A f \in fetches : f.token = store.user

TypeInv ==
  /\ store \in Stores
  /\ cache \in [of : Operator \union {Nobody}, fresh : BOOLEAN]
  /\ fetches \subseteq Fetches
  /\ login \in Operator \union {Nobody}
  /\ logouts \in 0..MaxLogouts
  /\ settled \in BOOLEAN
  /\ store.user = store.accessToken

Inv == TypeInv /\ OneFetch /\ NothingWithoutSession /\ OwnFromHere

-----------------------------------------------------------------------------
(* The helpers *)

(* Copying the cache into the store changes its permissions only, to those *)
(* of the operator the data is of, if there is data.                       *)
LEMMA SyncedType ==
  ASSUME NEW s \in Stores,
         NEW c \in [of : Operator \union {Nobody}, fresh : BOOLEAN]
  PROVE  /\ Synced(s, c) \in Stores
         /\ Synced(s, c).user = s.user
         /\ Synced(s, c).accessToken = s.accessToken
         /\ Synced(s, c).permissions = IF c.of = Nobody THEN s.permissions ELSE Grants[c.of]
  <1>1. c.of # Nobody => Grants[c.of] \in SUBSET Permission
    OBVIOUS
  <1>2. QED BY <1>1 DEF Synced, Stores

(* What mounting fetches: what is under way, or one request with the token *)
(* of the store.                                                           *)
LEMMA FetchOnMountType ==
  ASSUME TypeInv, OneFetch, NEW s \in Stores, NEW c
  PROVE  /\ FetchOnMount(s, c) \subseteq Fetches
         /\ \A f, g \in FetchOnMount(s, c) : f = g
         /\ \A f \in FetchOnMount(s, c) : f \in fetches \/ f.token = s.accessToken
  BY DEF FetchOnMount, TypeInv, OneFetch, Fetches, Stores

-----------------------------------------------------------------------------
(* The invariant *)

(* A tab that has just been opened. *)
LEMMA InitInv == ClientInit => Inv
  <1> SUFFICES ASSUME ClientInit PROVE Inv
    OBVIOUS
  <1>1. store \in Stores /\ store.user = store.accessToken /\ store.permissions = {}
    BY DEF ClientInit, ClearedSession, Stores
  <1>2. cache \in [of : Operator \union {Nobody}, fresh : BOOLEAN]
    BY DEF ClientInit, NoData
  <1>3. fetches = {} /\ login = Nobody /\ logouts = 0 /\ settled = FALSE
    BY DEF ClientInit
  <1>4. 0 \in 0..MaxLogouts
    OBVIOUS
  <1>5. TypeInv
    BY <1>1, <1>2, <1>3, <1>4 DEF TypeInv
  <1>6. QED BY <1>1, <1>3, <1>5 DEF Inv, OneFetch, NothingWithoutSession, OwnFromHere

(* Every step keeps it.  Only an answer can put permissions into a store   *)
(* that has settled, and it is to a request sent with the same token.      *)
LEMMA StepInv ==
  ASSUME Inv, [ClientNext]_clientVars
  PROVE  Inv'
  <1> USE DEF Inv
  <1>1. ASSUME NEW o \in Operator, Submit(o) PROVE Inv'
    BY <1>1 DEF Submit, TypeInv, OneFetch, NothingWithoutSession, OwnFromHere, IsAuthenticated
  <1>2. ASSUME LoginSucceeds PROVE Inv'
    <2> DEFINE s == [store EXCEPT !.accessToken = login, !.user = login]
    <2>1. s \in Stores /\ s.user = login /\ s.accessToken = login
      BY <1>2 DEF LoginSucceeds, TypeInv, Stores
    <2>2. store' = Synced(s, cache) /\ fetches' = FetchOnMount(s, cache)
      BY <1>2 DEF LoginSucceeds
    <2> HIDE DEF s
    <2>3. TypeInv' /\ store'.accessToken # Nobody
      <3>1. store' \in Stores /\ store'.accessToken # Nobody
        BY <1>2, <2>1, <2>2, SyncedType DEF LoginSucceeds, TypeInv
      <3>2. FetchOnMount(s, cache) \subseteq Fetches
        BY <2>1, FetchOnMountType
      <3>3. store'.user = store'.accessToken
        BY <1>2, <2>1, <2>2, SyncedType DEF TypeInv
      <3>4. UNCHANGED <<cache, logouts>> /\ login' = Nobody /\ settled' \in BOOLEAN
        BY <1>2 DEF LoginSucceeds, TypeInv
      <3>5. QED BY <2>2, <3>1, <3>2, <3>3, <3>4 DEF TypeInv
    <2>4. OneFetch'
      BY <2>1, <2>2, FetchOnMountType DEF OneFetch
    <2>5. QED BY <1>2, <2>3, <2>4
              DEF LoginSucceeds, NothingWithoutSession, OwnFromHere, IsAuthenticated
  <1>3. ASSUME LoginFails PROVE Inv'
    BY <1>3 DEF LoginFails, TypeInv, OneFetch, NothingWithoutSession, OwnFromHere, IsAuthenticated
  <1>4. ASSUME NEW f \in fetches, Answered(f) PROVE Inv'
    <2>1. f \in Fetches /\ f.token \in Operator
      BY <1>4 DEF Answered, TypeInv, Fetches
    <2>2. cache' = [of |-> f.token, fresh |-> TRUE]
      BY <1>4 DEF Answered
    <2>3. /\ cache' \in [of : Operator \union {Nobody}, fresh : BOOLEAN]
          /\ cache'.of = f.token
      BY <2>1, <2>2
    <2>4. /\ store' \in Stores
          /\ store'.user = store.user /\ store'.accessToken = store.accessToken
          /\ IsAuthenticated(store) => store'.permissions = Grants[f.token]
          /\ ~IsAuthenticated(store) => store'.permissions = store.permissions
      BY <1>4, <2>1, <2>3, SyncedType DEF Answered, SyncedIfMounted, TypeInv
    <2>5. fetches' = {}
      BY <1>4 DEF Answered, OneFetch
    <2>6. settled' = (settled \/ f.token = store.user)
      BY <1>4 DEF Answered
    <2>7. TypeInv'
      BY <1>4, <2>3, <2>4, <2>5, <2>6 DEF Answered, TypeInv
    <2>8. NothingWithoutSession'
      BY <2>4 DEF NothingWithoutSession, IsAuthenticated
    <2>9. ASSUME settled' PROVE f.token = store.user /\ IsAuthenticated(store)
      BY <1>4, <2>1, <2>6, <2>9 DEF OwnFromHere, TypeInv, IsAuthenticated
    <2>10. OwnFromHere'
      BY <2>1, <2>3, <2>4, <2>5, <2>9 DEF OwnFromHere
    <2>11. QED BY <2>5, <2>7, <2>8, <2>10 DEF OneFetch
  <1>5. ASSUME NEW f \in fetches, Failed(f) PROVE Inv'
    <2> DEFINE again == [token |-> store.accessToken, tries |-> 2]
    <2>1. again \in Fetches /\ again.token = store.user
      BY DEF TypeInv, Stores, Fetches
    <2>2. fetches' \subseteq {again}
      BY <1>5 DEF Failed, OneFetch
    <2>3. UNCHANGED <<store, cache, login, logouts, settled>>
      BY <1>5 DEF Failed
    <2>4. TypeInv'
      BY <2>1, <2>2, <2>3 DEF TypeInv
    <2>5. NothingWithoutSession'
      BY <2>3 DEF NothingWithoutSession, IsAuthenticated
    <2>6. OneFetch'
      BY <2>2 DEF OneFetch
    <2>7. OwnFromHere'
      BY <2>1, <2>2, <2>3 DEF OwnFromHere
    <2>8. QED BY <2>4, <2>5, <2>6, <2>7
  <1>6. ASSUME GoesStale PROVE Inv'
    BY <1>6 DEF GoesStale, TypeInv, OneFetch, NothingWithoutSession, OwnFromHere, IsAuthenticated
  <1>7. ASSUME Collected PROVE Inv'
    BY <1>7 DEF Collected, NoData, TypeInv, OneFetch, NothingWithoutSession, OwnFromHere, IsAuthenticated
  <1>8. ASSUME Navigate PROVE Inv'
    <2>1. store' = Synced(store, cache) /\ fetches' = FetchOnMount(store, cache)
      BY <1>8 DEF Navigate
    <2>2. UNCHANGED <<cache, login, logouts, settled>> /\ store.accessToken # Nobody
      BY <1>8 DEF Navigate, IsAuthenticated
    <2>3. TypeInv' /\ OneFetch'
      BY <2>1, <2>2, SyncedType, FetchOnMountType DEF TypeInv, OneFetch
    <2>4. NothingWithoutSession'
      BY <2>1, <2>2, SyncedType DEF TypeInv, NothingWithoutSession, IsAuthenticated
    <2>5. OwnFromHere'
      BY <2>1, <2>2, SyncedType, FetchOnMountType DEF TypeInv, OwnFromHere
    <2>6. QED BY <2>3, <2>4, <2>5
  <1>9. ASSUME Reload PROVE Inv'
    <2>1. TypeInv'
      BY <1>9 DEF Reload, NoData, TypeInv, Fetches, Stores
    <2>2. QED BY <1>9, <2>1 DEF Reload, NoData, TypeInv, OneFetch, NothingWithoutSession, OwnFromHere, IsAuthenticated
  <1>10. ASSUME LogoutClick PROVE Inv'
    BY <1>10 DEF LogoutClick, TypeInv, OneFetch, NothingWithoutSession, OwnFromHere, IsAuthenticated
  <1>11. ASSUME LogoutEnds PROVE Inv'
    <2>1. store' \in Stores /\ store'.user = store'.accessToken /\ store'.permissions = {}
      BY <1>11 DEF LogoutEnds, AfterLogout, ClearedSession, Stores
    <2>2. UNCHANGED <<cache, fetches, login>> /\ settled' = FALSE /\ logouts' \in 0..MaxLogouts
      BY <1>11 DEF LogoutEnds, TypeInv
    <2>3. TypeInv'
      BY <2>1, <2>2 DEF TypeInv
    <2>4. QED BY <2>1, <2>2, <2>3 DEF OneFetch, NothingWithoutSession, OwnFromHere
  <1>12. ASSUME UNCHANGED clientVars PROVE Inv'
    BY <1>12 DEF clientVars, TypeInv, OneFetch, NothingWithoutSession, OwnFromHere, IsAuthenticated
  <1>13. QED
    BY <1>1, <1>2, <1>3, <1>4, <1>5, <1>6, <1>7, <1>8, <1>9, <1>10, <1>11, <1>12 DEF ClientNext

(* The invariant holds throughout. *)
LEMMA Invariance == ClientSpec => []Inv
  BY InitInv, StepInv, PTL DEF ClientSpec

-----------------------------------------------------------------------------
(* The theorems *)

(* Counting what OneFetch says. *)
LEMMA CountFetches == OneFetch => Cardinality(fetches) <= 1
  <1>1. CASE fetches = {}
    BY <1>1, FS_EmptySet
  <1>2. ASSUME OneFetch, NEW f \in fetches PROVE Cardinality(fetches) <= 1
    <2>1. fetches = {f}
      BY <1>2 DEF OneFetch
    <2>2. Cardinality({f}) = 1
      BY FS_Singleton
    <2>3. QED BY <2>1, <2>2
  <1>3. QED BY <1>1, <1>2

(* Store and cache are always well formed, and a tab without a session     *)
(* holds no permissions, whatever answers late (auth.store.ts and          *)
(* use-current-user.ts).                                                   *)
THEOREM StoreSafety == ClientSpec => []ClientSound
  <1>1. Inv => ClientSound
    BY CountFetches DEF Inv, TypeInv, ClientSound, ClientTypeOK
  <1>2. QED BY <1>1, Invariance, PTL

(* Once an operator's own current-user request was answered, the shell     *)
(* shows their own permissions until the session ends.                     *)
THEOREM OwnPermissions == ClientSpec => []OwnStaysOwn
  <1>1. Inv => OwnStaysOwn
    BY DEF Inv, OwnFromHere, OwnStaysOwn
  <1>2. QED BY <1>1, Invariance, PTL
=============================================================================
