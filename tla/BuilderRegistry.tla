-------------------------- MODULE BuilderRegistry --------------------------
(***************************************************************************)
(* The registry of connected builders (argunix-builders, registry.rs) and  *)
(* the SSH connection handlers (server.rs) and liveness watchdog that      *)
(* drive it.                                                               *)
(*                                                                         *)
(* The registry is keyed by builder name; a builder that drops and comes   *)
(* back keeps its name and gets a fresh connection id.  Every action is    *)
(* one critical section of the code: `register' drains the displaced       *)
(* connection's builds under the same lock, whereas `evict_dead' and       *)
(* `remove_if_matches' release the lock before they drain, the latter also *)
(* before it notes the departure, so that these are steps of their own.    *)
(*                                                                         *)
(* One system is modelled: the builders in Native run it natively, the     *)
(* others through emulation.  Time is kept as the two facts the code       *)
(* derives from clocks: how many liveness thresholds a builder's silence   *)
(* has passed, and whether a native builder was seen within the grace.     *)
(***************************************************************************)
EXTENDS Integers, FiniteSets

CONSTANTS
  Builder,   \* builder names
  Job,       \* build ids (the JobId of the build)
  MaxJobs,   \* [Builder -> Nat], capabilities.max_jobs
  Native,    \* the builders whose native_system is the system
  Capable,   \* [Job -> SUBSET Builder], builders with the Job's features
  Grace,     \* FALSE iff emulation_spill_grace_seconds = 0
  MaxConn,   \* bound: connections accepted
  MaxSilence \* bound: liveness thresholds a silence may pass, at most 2

ASSUME RegistryConstants ==
  /\ IsFiniteSet(Job)
  /\ MaxJobs \in [Builder -> Nat]
  /\ Native \subseteq Builder
  /\ Capable \in [Job -> SUBSET Builder]
  /\ Grace \in BOOLEAN
  /\ MaxConn \in Nat
  /\ MaxSilence \in 0..2

VARIABLES
  inner,             \* [Builder -> Conn or NoConn], the registered connection
  conn_state,        \* [Builder -> ConnState], of the registered connection
  silence,           \* [Builder -> 0..2], liveness thresholds it has passed
  in_flight,         \* [Builder -> Nat]; an absent entry counts as 0
  in_flight_builds,  \* the (builder, build) pairs with a lifecycle sender
  phases,            \* [Builder \X Job -> BuildPhase or "none"]
  native_seen,       \* last_native_seen lies within the grace
  stage,             \* [Conn -> Stage], the connection handler
  registered_name,   \* [Conn -> Builder], meaningful once registered
  doomed,            \* connections whose session task was kicked or aborted
  departed,          \* handlers past remove_if_matches's unlock
  drains,            \* handlers whose drain is to come
  stale,             \* builders the watchdog's scan returned, not yet handled
  evicted            \* connection evict_dead removed, drain and abort to come

registry == <<inner, conn_state, silence, native_seen>>
handlers == <<stage, registered_name, doomed, departed, drains, stale, evicted>>
builds   == <<in_flight, in_flight_builds, phases>>
regvars  == <<inner, conn_state, silence, in_flight, in_flight_builds, phases,
              native_seen, stage, registered_name, doomed, departed, drains, stale, evicted>>

Conn   == 1 .. MaxConn
NoConn == 0
Stage  == {"unborn", "open", "registered", "closed"}
BuildPhase == {"Push", "Build", "Pull"}
Transfer   == {"Push", "Pull"}

Registered(b) == inner[b] # NoConn
Active(b)     == Registered(b) /\ conn_state[b] = "Active"
-----------------------------------------------------------------------------
(* Who may run the Job: native builders only, while there is one; none     *)
(* while a native builder is expected back; else the emulated ones.        *)
native_holdoff_active == Grace /\ (native_seen \/ \E b \in Native : Active(b))

system_candidates(exclude) ==
  LET supporting == {b \in Builder : Active(b) /\ inner[b] \notin exclude}
      native == supporting \cap Native
  IN  IF native # {} THEN native
      ELSE IF native_holdoff_active THEN {} ELSE supporting

eligible(j, exclude) ==
  {b \in system_candidates(exclude) \cap Capable[j] : in_flight[b] < MaxJobs[b]}

any_matching_builder(j, exclude) ==
  system_candidates(exclude) \cap Capable[j] # {} \/ native_holdoff_active
-----------------------------------------------------------------------------
(* The registry as a worker changes it.                                    *)
inc_in_flight(b) == [in_flight EXCEPT ![b] = @ + 1]
(* Slip: the decrement does not saturate.                                  *)
dec_in_flight_raw(b) == [in_flight EXCEPT ![b] = @ - 1]

(* Slip: a dropped slot is not given back.                                 *)
dec_in_flight_never(b) == in_flight

dec_in_flight(b) == [in_flight EXCEPT ![b] = IF @ > 0 THEN @ - 1 ELSE 0]
with_phase(b, j, p) == [phases EXCEPT ![<<b, j>>] = p]

(* drain_in_flight_for: the senders and phases of the name, whichever      *)
(* connection they were meant for.                                         *)
drain_in_flight_for(b) ==
  /\ in_flight_builds' = {e \in in_flight_builds : e[1] # b}
  /\ phases' = [e \in Builder \X Job |-> IF e[1] = b THEN "none" ELSE phases[e]]

(* The moment a native builder came or went; of use only with a grace.     *)
note_native_seen(b) == native_seen' = (native_seen \/ (Grace /\ b \in Native))

(* Removal of the entry of b from `inner', with all that goes with it      *)
(* under the same lock.                                                    *)
remove(b) ==
  /\ inner' = [inner EXCEPT ![b] = NoConn]
  /\ conn_state' = [conn_state EXCEPT ![b] = "Active"]
  /\ silence' = [silence EXCEPT ![b] = 0]
  /\ in_flight' = [in_flight EXCEPT ![b] = 0]

touch_activity(b) == silence' = [silence EXCEPT ![b] = 0]
-----------------------------------------------------------------------------
RegInit ==
  /\ inner = [b \in Builder |-> NoConn]
  /\ conn_state = [b \in Builder |-> "Active"]
  /\ silence = [b \in Builder |-> 0]
  /\ in_flight = [b \in Builder |-> 0]
  /\ in_flight_builds = {}
  /\ phases = [e \in Builder \X Job |-> "none"]
  /\ native_seen = FALSE
  /\ stage = [c \in Conn |-> "unborn"]
  /\ registered_name \in [Conn -> Builder]
  /\ doomed = {}
  /\ departed = {}
  /\ drains = {}
  /\ stale = {}
  /\ evicted = NoConn

(* new_client mints the next connection id; the peer authenticates.        *)
new_client(c) ==
  /\ stage[c] = "unborn"
  /\ \A a \in Conn : a < c => stage[a] # "unborn"
  /\ stage' = [stage EXCEPT ![c] = "open"]
  /\ UNCHANGED <<registry, builds, registered_name, doomed, departed, drains, stale,
                 evicted>>

(* `hello' of connection c: register, and kick the connection it displaces.*)
register(c) ==
  LET b == registered_name[c]
  IN  /\ stage[c] = "open"
      /\ stage' = [stage EXCEPT ![c] = "registered"]
      /\ inner' = [inner EXCEPT ![b] = c]
      /\ conn_state' = [conn_state EXCEPT ![b] = "Active"]
      /\ touch_activity(b)
      /\ note_native_seen(b)
      /\ \/ /\ Registered(b)
            /\ drain_in_flight_for(b)
            /\ doomed' = doomed \cup {inner[b]}
         \/ /\ ~Registered(b)
            /\ UNCHANGED <<in_flight_builds, phases, doomed>>
      /\ UNCHANGED <<in_flight, registered_name, departed, drains, stale, evicted>>

(* Any control frame proves life, of whoever is registered under the name. *)
frame(c) ==
  /\ stage[c] = "registered"
  /\ silence[registered_name[c]] > 0
  /\ touch_activity(registered_name[c])
  /\ UNCHANGED <<inner, conn_state, native_seen, builds, handlers>>

shutdown(c) ==
  LET b == registered_name[c]
  IN  /\ stage[c] = "registered"
      /\ Registered(b)
      /\ touch_activity(b)
      /\ conn_state' = [conn_state EXCEPT ![b] = "Disconnecting"]
      /\ UNCHANGED <<inner, native_seen, builds, handlers>>

(* Slip: the entry is removed by name.                                     *)
Matches_name(c) == stage[c] = "registered"

(* Slip: an entry that is Disconnecting is left alone.                     *)
Matches_active(c) ==
  stage[c] = "registered" /\ inner[registered_name[c]] = c /\ Active(registered_name[c])

(* The entry under the name c registered is still the one c made.          *)
Matches(c) == stage[c] = "registered" /\ inner[registered_name[c]] = c

(* The session ends, for whatever reason, and its handler is dropped.      *)
remove_if_matches(c) ==
  \/ /\ Matches(c)
     /\ remove(registered_name[c])
     /\ departed' = departed \cup {d \in {c} : Grace /\ registered_name[d] \in Native}
     /\ drains' = drains \cup {c}
     /\ UNCHANGED native_seen
  \/ /\ ~Matches(c)
     /\ UNCHANGED <<registry, in_flight, departed, drains>>

close(c) ==
  /\ stage[c] \in {"open", "registered"}
  /\ stage' = [stage EXCEPT ![c] = "closed"]
  /\ remove_if_matches(c)
  /\ UNCHANGED <<in_flight_builds, phases, registered_name, doomed, stale, evicted>>

(* With the lock released, the departure is noted and the drain follows.   *)
close_note(c) ==
  /\ c \in departed
  /\ departed' = departed \ {c}
  /\ note_native_seen(registered_name[c])
  /\ UNCHANGED <<inner, conn_state, silence, builds, stage, registered_name, doomed,
                 drains, stale, evicted>>

close_drain(c) ==
  /\ c \in drains \ departed
  /\ drains' = drains \ {c}
  /\ drain_in_flight_for(registered_name[c])
  /\ UNCHANGED <<registry, in_flight, stage, registered_name, doomed, departed, stale,
                 evicted>>
-----------------------------------------------------------------------------
(* Time: a builder stays silent past the next threshold (95 s, 900 s), and *)
(* the spill grace runs out.                                               *)
stay_silent(b) ==
  /\ Registered(b)
  /\ silence[b] < MaxSilence
  /\ silence' = [silence EXCEPT ![b] = @ + 1]
  /\ UNCHANGED <<inner, conn_state, native_seen, builds, handlers>>

grace_expires ==
  /\ native_seen
  /\ native_seen' = FALSE
  /\ UNCHANGED <<inner, conn_state, silence, builds, handlers>>

Threshold(b) == IF \E j \in Job : phases[<<b, j>>] \in Transfer THEN 1 ELSE 0

TooSilent(b) == Registered(b) /\ silence[b] > Threshold(b)

(* The watchdog: one scan, then the evictions, entry by entry.             *)
stale_builders ==
  /\ stale = {} /\ evicted = NoConn
  /\ stale' = {b \in Builder : TooSilent(b)}
  /\ stale' # {}
  /\ UNCHANGED <<registry, builds, stage, registered_name, doomed, departed, drains, evicted>>

evict_dead(b) ==
  /\ b \in stale /\ evicted = NoConn
  /\ stale' = stale \ {b}
  /\ \/ /\ Registered(b)
        /\ remove(b)
        /\ note_native_seen(b)
        /\ evicted' = inner[b]
     \/ /\ ~Registered(b)
        /\ UNCHANGED <<registry, in_flight, evicted>>
  /\ UNCHANGED <<in_flight_builds, phases, stage, registered_name, doomed, departed, drains>>

evict_drain ==
  /\ evicted # NoConn
  /\ evicted' = NoConn
  /\ drain_in_flight_for(registered_name[evicted])
  /\ doomed' = doomed \cup {evicted}
  /\ UNCHANGED <<registry, in_flight, stage, registered_name, departed, drains, stale>>
-----------------------------------------------------------------------------
(* What the build workers do to the registry, one Job and builder at once. *)
worker(b, j) ==
  /\ in_flight' \in {in_flight, inc_in_flight(b), dec_in_flight(b)}
  /\ in_flight[b] < Cardinality(Job) \/ in_flight'[b] <= in_flight[b]
  /\ in_flight_builds' \in {in_flight_builds, in_flight_builds \cup {<<b, j>>},
                            in_flight_builds \ {<<b, j>>}}
  /\ \E p \in BuildPhase \cup {"none"} : phases' = with_phase(b, j, p)
  /\ UNCHANGED <<registry, handlers>>

ConnStep(c) == new_client(c) \/ register(c) \/ frame(c) \/ shutdown(c)
                 \/ close(c) \/ close_note(c) \/ close_drain(c)

Watchdog == stale_builders \/ evict_drain \/ \E b \in Builder : evict_dead(b)

PoolStep ==
  \/ \E c \in Conn : ConnStep(c)
  \/ \E b \in Builder : stay_silent(b)
  \/ grace_expires
  \/ Watchdog

RegNext == PoolStep \/ \E b \in Builder, j \in Job : worker(b, j)

RegSpec == RegInit /\ [][RegNext]_regvars
-----------------------------------------------------------------------------
RegTypeOK ==
  /\ inner \in [Builder -> Conn \cup {NoConn}]
  /\ conn_state \in [Builder -> {"Active", "Disconnecting"}]
  /\ silence \in [Builder -> 0..2]
  /\ in_flight \in [Builder -> Nat]
  /\ in_flight_builds \subseteq Builder \X Job
  /\ phases \in [Builder \X Job -> BuildPhase \cup {"none"}]
  /\ native_seen \in BOOLEAN
  /\ stage \in [Conn -> Stage]
  /\ registered_name \in [Conn -> Builder]
  /\ doomed \subseteq Conn
  /\ departed \subseteq Conn
  /\ drains \subseteq Conn
  /\ stale \subseteq Builder
  /\ evicted \in Conn \cup {NoConn}

(* The registry never lists a connection that is over, is being kicked or  *)
(* belongs to another name: the dispatcher is never sent to a dead one     *)
(* (registry.rs:396-424 with the displacement of register).                *)
ListedIsLive ==
  \A b \in Builder : Registered(b) =>
    /\ stage[inner[b]] = "registered"
    /\ registered_name[inner[b]] = b
    /\ inner[b] \notin doomed \cup {evicted}

(* A connected builder is never lost from the registry: whoever said hello *)
(* and was neither displaced nor evicted is the one listed under its name. *)
(* In particular "a stale handler's Drop must not remove the row that a    *)
(* takeover just inserted" (registry.rs:66-68), in whatever order hellos,  *)
(* drops and evictions of connections of one name happen.                  *)
LiveIsListed ==
  \A c \in Conn : (stage[c] = "registered" /\ c \notin doomed \cup {evicted})
                     => inner[registered_name[c]] = c
=============================================================================
