--------------------------- MODULE RegistryProofs ---------------------------
(***************************************************************************)
(* Proofs about BuilderRegistry, for any number of builders, Jobs and      *)
(* connections: the entry under a builder's name and the connections that  *)
(* are up agree, whatever hellos, drops, displacements and evictions       *)
(* happen and in whatever order.                                           *)
(***************************************************************************)
EXTENDS BuilderRegistry, TLAPS

(* Only a connection that said hello is ever displaced or evicted.         *)
DoomedSaidHello ==
  \A c \in Conn : c \in doomed \cup {evicted} => stage[c] \in {"registered", "closed"}

RegInv == RegTypeOK /\ ListedIsLive /\ LiveIsListed /\ DoomedSaidHello

LEMMA ConnFacts == NoConn \notin Conn /\ Conn \subseteq Nat
  BY RegistryConstants DEF NoConn, Conn

LEMMA TypeStep ==
  ASSUME RegTypeOK, [RegNext]_regvars
  PROVE  RegTypeOK'
<1> USE DEF registry, handlers, builds, RegTypeOK
<1>1. ASSUME NEW b \in Builder, drain_in_flight_for(b)
      PROVE  /\ in_flight_builds' \subseteq Builder \X Job
             /\ phases' \in [Builder \X Job -> BuildPhase \cup {"none"}]
  BY <1>1 DEF drain_in_flight_for
<1>2. ASSUME NEW b \in Builder, note_native_seen(b)
      PROVE  native_seen' \in BOOLEAN
  BY <1>2 DEF note_native_seen
<1>3. ASSUME NEW b \in Builder, remove(b)
      PROVE  /\ inner' \in [Builder -> Conn \cup {NoConn}]
             /\ conn_state' \in [Builder -> {"Active", "Disconnecting"}]
             /\ silence' \in [Builder -> 0..2]
             /\ in_flight' \in [Builder -> Nat]
  BY <1>3 DEF remove
<1>4. ASSUME NEW c \in Conn, new_client(c) PROVE RegTypeOK'
  BY <1>4 DEF new_client, Stage
<1>5. ASSUME NEW c \in Conn, register(c) PROVE RegTypeOK'
  <2> DEFINE b == registered_name[c]
  <2>1. b \in Builder
    OBVIOUS
  <2>2. /\ inner' = [inner EXCEPT ![b] = c] /\ conn_state' = [conn_state EXCEPT ![b] = "Active"]
        /\ silence' = [silence EXCEPT ![b] = 0] /\ stage' = [stage EXCEPT ![c] = "registered"]
        /\ note_native_seen(b)
        /\ UNCHANGED <<in_flight, registered_name, departed, drains, stale, evicted>>
    BY <1>5 DEF register, touch_activity
  <2>3. /\ in_flight_builds' \subseteq Builder \X Job
        /\ phases' \in [Builder \X Job -> BuildPhase \cup {"none"}]
        /\ doomed' \subseteq Conn
    <3>1. CASE Registered(b)
      BY <1>1, <1>5, <2>1, <3>1 DEF register, Registered
    <3>2. CASE ~Registered(b)
      BY <1>5, <3>2 DEF register
    <3> QED
      BY <3>1, <3>2
  <2>4. /\ inner' \in [Builder -> Conn \cup {NoConn}]
        /\ conn_state' \in [Builder -> {"Active", "Disconnecting"}]
        /\ silence' \in [Builder -> 0..2]
        /\ stage' \in [Conn -> Stage]
    BY <2>1, <2>2 DEF Stage
  <2>5. native_seen' \in BOOLEAN
    BY <1>2, <2>1, <2>2
  <2> QED
    BY <2>2, <2>3, <2>4, <2>5
<1>6. ASSUME NEW c \in Conn, frame(c) \/ shutdown(c) PROVE RegTypeOK'
  <2>1. silence' \in [Builder -> 0..2]
    BY <1>6 DEF frame, shutdown, touch_activity
  <2>2. conn_state' \in [Builder -> {"Active", "Disconnecting"}]
    BY <1>6 DEF frame, shutdown
  <2>3. UNCHANGED <<inner, native_seen, in_flight, in_flight_builds, phases, stage,
                    registered_name, doomed, departed, drains, stale, evicted>>
    BY <1>6 DEF frame, shutdown
  <2> QED
    BY <2>1, <2>2, <2>3
<1>7. ASSUME NEW c \in Conn, close(c) PROVE RegTypeOK'
  <2>1. CASE Matches(c)
    BY <1>3, <1>7, <2>1 DEF close, remove_if_matches, Stage
  <2>2. CASE ~Matches(c)
    BY <1>7, <2>2 DEF close, remove_if_matches, Stage
  <2> QED
    BY <2>1, <2>2
<1>8. ASSUME NEW c \in Conn, close_note(c) \/ close_drain(c) PROVE RegTypeOK'
  <2>1. CASE close_note(c)
    BY <1>2, <2>1 DEF close_note
  <2>2. CASE close_drain(c)
    BY <1>1, <2>2 DEF close_drain
  <2> QED
    BY <1>8, <2>1, <2>2
<1>9. ASSUME NEW b \in Builder, stay_silent(b) PROVE RegTypeOK'
  <2>1. silence[b] \in 0..2 /\ silence[b] < 2
    BY <1>9, RegistryConstants DEF stay_silent
  <2>2. silence[b] + 1 \in 0..2
    BY <2>1
  <2> QED
    BY <1>9, <2>2 DEF stay_silent
<1>10. ASSUME grace_expires PROVE RegTypeOK'
  BY Zenon, <1>10 DEF grace_expires
<1>11. ASSUME stale_builders PROVE RegTypeOK'
  BY <1>11 DEF stale_builders
<1>12. ASSUME NEW b \in Builder, evict_dead(b) PROVE RegTypeOK'
  <2>1. CASE Registered(b)
    BY <1>2, <1>3, <1>12, <2>1 DEF evict_dead, Registered
  <2>2. CASE ~Registered(b)
    BY <1>12, <2>2 DEF evict_dead
  <2> QED
    BY <2>1, <2>2
<1>13. ASSUME evict_drain PROVE RegTypeOK'
  <2>1. evicted \in Conn /\ registered_name[evicted] \in Builder
    BY <1>13 DEF evict_drain
  <2> QED
    BY <1>1, <1>13, <2>1 DEF evict_drain
<1>14. ASSUME NEW b \in Builder, NEW j \in Job, worker(b, j) PROVE RegTypeOK'
  <2>1. in_flight' \in [Builder -> Nat]
    <3>1. inc_in_flight(b) \in [Builder -> Nat] /\ dec_in_flight(b) \in [Builder -> Nat]
      BY DEF inc_in_flight, dec_in_flight
    <3> QED
      BY <1>14, <3>1 DEF worker
  <2>2. in_flight_builds' \subseteq Builder \X Job
    BY <1>14 DEF worker
  <2>3. phases' \in [Builder \X Job -> BuildPhase \cup {"none"}]
    BY <1>14 DEF worker, with_phase
  <2> QED
    BY <1>14, <2>1, <2>2, <2>3 DEF worker
<1>15. CASE UNCHANGED regvars
  BY <1>15 DEF regvars
<1> QED
  BY Zenon, <1>4, <1>5, <1>6, <1>7, <1>8, <1>9, <1>10, <1>11, <1>12, <1>13, <1>14, <1>15
     DEF RegNext, PoolStep, ConnStep, Watchdog

(* The connections and the entries after each step; a step that leaves     *)
(* both alone changes nothing the two properties speak of.                 *)
LEMMA ListStep ==
  ASSUME RegInv, [RegNext]_regvars
  PROVE  (ListedIsLive /\ LiveIsListed /\ DoomedSaidHello)'
<1> DEFINE Goal == (ListedIsLive /\ LiveIsListed /\ DoomedSaidHello)'
<1> USE ConnFacts
<1>1. ASSUME UNCHANGED <<inner, stage, registered_name>>,
             doomed' \cup ({evicted'} \ {NoConn}) = doomed \cup ({evicted} \ {NoConn})
      PROVE  Goal
  <2>1. \A c \in Conn : c \in doomed' \cup {evicted'} <=> c \in doomed \cup {evicted}
    BY <1>1
  <2> QED
    BY <1>1, <2>1 DEF RegInv, RegTypeOK, ListedIsLive, LiveIsListed, DoomedSaidHello, Registered
<1>2. ASSUME NEW c \in Conn, new_client(c) PROVE Goal
  <2>1. /\ UNCHANGED <<inner, registered_name, doomed, evicted>>
        /\ stage[c] = "unborn" /\ stage' = [stage EXCEPT ![c] = "open"]
    BY <1>2 DEF new_client, registry
  <2>2. \A a \in Conn : stage'[a] = IF a = c THEN "open" ELSE stage[a]
    BY <2>1 DEF RegInv, RegTypeOK
  <2> QED
    BY <2>1, <2>2 DEF RegInv, RegTypeOK, ListedIsLive, LiveIsListed, DoomedSaidHello, Registered
<1>3. ASSUME NEW c \in Conn, register(c) PROVE Goal
  <2> DEFINE b == registered_name[c]
  <2>1. /\ UNCHANGED <<registered_name, evicted>>
        /\ stage[c] = "open" /\ stage' = [stage EXCEPT ![c] = "registered"]
        /\ inner' = [inner EXCEPT ![b] = c]
        /\ doomed' = doomed \cup ({inner[b]} \ {NoConn})
        /\ b \in Builder
    BY <1>3 DEF register, Registered, RegInv, RegTypeOK
  <2>2. /\ \A a \in Conn : stage'[a] = IF a = c THEN "registered" ELSE stage[a]
        /\ \A x \in Builder : inner'[x] = IF x = b THEN c ELSE inner[x]
        /\ \A x \in Builder : inner[x] \in Conn \cup {NoConn}
        /\ \A a \in Conn : registered_name[a] \in Builder
    BY <2>1 DEF RegInv, RegTypeOK
  <2>3. c \notin doomed \cup {evicted} /\ \A x \in Builder : inner[x] # c
    BY <2>1 DEF RegInv, DoomedSaidHello, ListedIsLive, Registered
  <2> HIDE DEF b
  <2>4. ListedIsLive'
    BY <2>1, <2>2, <2>3 DEF b, RegInv, ListedIsLive, Registered
  <2>5. LiveIsListed'
    BY <2>1, <2>2, <2>3 DEF b, RegInv, LiveIsListed
  <2>6. DoomedSaidHello'
    BY <2>1, <2>2, <2>3 DEF RegInv, DoomedSaidHello, ListedIsLive, Registered
  <2> QED
    BY <2>4, <2>5, <2>6
<1>4. ASSUME NEW c \in Conn, close(c) PROVE Goal
  <2> DEFINE b == registered_name[c]
  <2>1. /\ UNCHANGED <<registered_name, doomed, evicted>>
        /\ stage[c] \in {"open", "registered"} /\ stage' = [stage EXCEPT ![c] = "closed"]
        /\ inner' = IF stage[c] = "registered" /\ inner[b] = c
                    THEN [inner EXCEPT ![b] = NoConn] ELSE inner
        /\ b \in Builder
    BY <1>4 DEF close, remove_if_matches, Matches, remove, registry, RegInv, RegTypeOK
  <2>2. /\ \A a \in Conn : stage'[a] = IF a = c THEN "closed" ELSE stage[a]
        /\ \A x \in Builder : inner[x] \in Conn \cup {NoConn}
        /\ \A a \in Conn : registered_name[a] \in Builder
    BY <2>1 DEF RegInv, RegTypeOK
  <2>3. \A x \in Builder : inner'[x] = IF inner[x] = c THEN NoConn ELSE inner[x]
    BY <2>1 DEF RegInv, RegTypeOK, ListedIsLive, Registered
  <2> HIDE DEF b
  <2>4. ListedIsLive'
    BY <2>1, <2>2, <2>3 DEF RegInv, ListedIsLive, Registered
  <2>5. LiveIsListed'
    BY <2>1, <2>2, <2>3 DEF RegInv, LiveIsListed
  <2>6. DoomedSaidHello'
    BY <2>1, <2>2 DEF RegInv, DoomedSaidHello
  <2> QED
    BY <2>4, <2>5, <2>6
<1>5. ASSUME NEW b \in Builder, evict_dead(b) PROVE Goal
  <2>1. CASE ~Registered(b)
    BY <1>1, <1>5, <2>1 DEF evict_dead, registry
  <2>2. CASE Registered(b)
    <3>1. /\ UNCHANGED <<registered_name, doomed, stage>>
          /\ inner' = [inner EXCEPT ![b] = NoConn] /\ evicted = NoConn /\ evicted' = inner[b]
      BY <1>5, <2>2 DEF evict_dead, remove
    <3>2. /\ \A x \in Builder : inner'[x] = IF x = b THEN NoConn ELSE inner[x]
          /\ \A x \in Builder : inner[x] \in Conn \cup {NoConn}
          /\ \A a \in Conn : registered_name[a] \in Builder
      BY <3>1 DEF RegInv, RegTypeOK
    <3>3. \A x \in Builder \ {b} : Registered(x) => inner[x] # inner[b]
      BY <2>2 DEF RegInv, ListedIsLive, Registered
    <3>4. ListedIsLive'
      BY <3>1, <3>2, <3>3 DEF RegInv, ListedIsLive, Registered
    <3>5. LiveIsListed'
      BY <2>2, <3>1, <3>2 DEF RegInv, LiveIsListed, Registered
    <3>6. DoomedSaidHello'
      BY <2>2, <3>1, <3>2 DEF RegInv, DoomedSaidHello, ListedIsLive, Registered
    <3> QED
      BY <3>4, <3>5, <3>6
  <2> QED
    BY <2>1, <2>2
<1>6. ASSUME evict_drain PROVE Goal
  BY <1>1, <1>6 DEF evict_drain, registry
<1>7. ASSUME NEW c \in Conn, frame(c) \/ shutdown(c) \/ close_note(c) \/ close_drain(c) PROVE Goal
  BY <1>1, <1>7 DEF frame, shutdown, close_note, close_drain, registry, handlers
<1>8. ASSUME NEW b \in Builder, stay_silent(b) PROVE Goal
  BY <1>1, <1>8 DEF stay_silent, handlers
<1>9. ASSUME grace_expires \/ stale_builders PROVE Goal
  BY <1>1, <1>9 DEF grace_expires, stale_builders, registry, handlers
<1>10. ASSUME NEW b \in Builder, NEW j \in Job, worker(b, j) PROVE Goal
  BY <1>1, <1>10 DEF worker, registry, handlers
<1>11. CASE UNCHANGED regvars
  BY <1>1, <1>11 DEF regvars
<1> QED
  BY <1>2, <1>3, <1>4, <1>5, <1>6, <1>7, <1>8, <1>9, <1>10, <1>11
     DEF RegNext, PoolStep, ConnStep, Watchdog

(* The registry invariant holds in every reachable state.                  *)
THEOREM RegInvariance == RegSpec => []RegInv
<1>1. RegInit => RegInv
  <2> SUFFICES ASSUME RegInit PROVE RegInv
    OBVIOUS
  <2>1. RegTypeOK
    <3>1. phases \in [Builder \X Job -> BuildPhase \cup {"none"}]
      BY DEF RegInit
    <3>2. /\ inner \in [Builder -> Conn \cup {NoConn}]
          /\ conn_state \in [Builder -> {"Active", "Disconnecting"}]
          /\ silence \in [Builder -> 0..2]
          /\ in_flight \in [Builder -> Nat]
      BY DEF RegInit
    <3>3. stage \in [Conn -> Stage]
      BY DEF RegInit, Stage
    <3> QED
      BY Zenon, <3>1, <3>2, <3>3 DEF RegInit, RegTypeOK
  <2>2. ListedIsLive /\ LiveIsListed /\ DoomedSaidHello
    BY ConnFacts DEF RegInit, ListedIsLive, LiveIsListed, DoomedSaidHello, Registered
  <2> QED
    BY <2>1, <2>2 DEF RegInv
<1>2. RegInv /\ [RegNext]_regvars => RegInv'
  BY TypeStep, ListStep DEF RegInv
<1> QED
  BY <1>1, <1>2, PTL DEF RegSpec

(* No entry of the registry is ever a connection that is over, is being    *)
(* kicked, or registered under another name.                               *)
THEOREM EntriesAreLive == RegSpec => []ListedIsLive
<1>1. RegInv => ListedIsLive
  BY DEF RegInv
<1> QED
  BY <1>1, RegInvariance, PTL

(* No builder that said hello and was neither displaced nor evicted is     *)
(* ever missing from the registry: a stale handler's Drop never removes    *)
(* the entry of its successor (registry.rs:66-68).                         *)
THEOREM TheLiveAreListed == RegSpec => []LiveIsListed
<1>1. RegInv => LiveIsListed
  BY DEF RegInv
<1> QED
  BY <1>1, RegInvariance, PTL
=============================================================================
