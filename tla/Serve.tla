------------------------------- MODULE Serve --------------------------------
(***************************************************************************)
(* buff serve: the runtime of cmd/buff/server.go (the group of Serve, the  *)
(* reaper and the watcher, the stop, the drain) over the locks of          *)
(* store/registry.go and store/gate.go.                                    *)
(*                                                                         *)
(* A handler or the reaper works on one name in three calls: acquire takes *)
(* registry.mu, a closure runs under the name's gate, release takes        *)
(* registry.mu and, for the last lease, the gate below it.  Modules Slot   *)
(* and Relay have what the closures and the handlers do; here only who     *)
(* holds which lock, and who still runs, is kept.                          *)
(***************************************************************************)
EXTENDS Command

CONSTANT
  Handlers           \* request goroutines

Workers == Handlers \cup {"reaper"}
Nobody  == "nobody"

ASSUME ServeAssumption ==
  IsFiniteSet(Handlers) /\ "reaper" \notin Handlers /\ Nobody \notin Workers

VARIABLES
  stage,             \* runtime: "boot", "listening", "closed"
  stopping,          \* stopCtx is done
  serving,           \* the Serve member: "running", "returned", "faulted"
  watcher,           \* the drain: "parked", "draining", "returned"
  forced,            \* httpSrv.Close was called
  job,               \* [Workers -> program point]
  registryMu, gateMu,\* the owners of the locks
  leases             \* leases on the name's handle

serverVars == <<stage, stopping, serving, watcher, forced, job, registryMu,
                gateMu, leases>>

Points == {"idle", "acquire", "acquiring", "enter", "inside", "follow",
           "transfer", "release", "releasing", "peeking", "returned",
           "snapshot", "copying", "peek", "looking"}

ServeTypeOK ==
  /\ stage \in {"boot", "listening", "closed"} /\ stopping \in BOOLEAN
  /\ serving \in {"running", "returned", "faulted"}
  /\ watcher \in {"parked", "draining", "returned"} /\ forced \in BOOLEAN
  /\ job \in [Workers -> Points]
  /\ registryMu \in Workers \cup {Nobody} /\ gateMu \in Workers \cup {Nobody}
  /\ leases \in 0..Cardinality(Workers)

\* The reaper is a member of the group only with an interval set.
ServeInit ==
  /\ stage = "boot" /\ stopping = FALSE /\ serving = "running"
  /\ watcher = "parked" /\ forced = FALSE
  /\ \E r \in IF act = "serve" THEN {"idle", "returned"} ELSE {"idle"} :
       job = [w \in Workers |-> IF w = "reaper" THEN r ELSE "idle"]
  /\ registryMu = Nobody /\ gateMu = Nobody /\ leases = 0

Serving == act = "serve" /\ ~Over

-----------------------------------------------------------------------------
(* The group (server.go) *)

\* newRuntime: the data directory, recovery and the port, or the first error.
Boot ==
  /\ Serving /\ stage = "boot"
  /\ \/ stage' = "listening" /\ UNCHANGED exit
     \/ stage' = "closed" /\ exit' = 1
  /\ UNCHANGED <<stopping, serving, watcher, forced, job, registryMu, gateMu,
                 leases, act, signals>>

\* The bridge from the run's context.
Bridge ==
  /\ Serving /\ stage # "boot" /\ Canceled /\ ~stopping
  /\ stopping' = TRUE
  /\ UNCHANGED <<stage, serving, watcher, forced, job, registryMu, gateMu,
                 leases, commandVars>>

\* A fatal Serve fault begins the stop itself.
beginStopNot == stopping
beginStop == TRUE

ServeFaults ==
  /\ Serving /\ stage = "listening" /\ serving = "running"
  /\ serving' = "faulted"
  /\ stopping' = beginStop
  /\ UNCHANGED <<stage, watcher, forced, job, registryMu, gateMu, leases,
                 commandVars>>

\* Shutdown and Close make Serve return ErrServerClosed.
ServeReturns ==
  /\ Serving /\ stage = "closed" /\ serving = "running"
  /\ serving' = "returned"
  /\ UNCHANGED <<stage, stopping, watcher, forced, job, registryMu, gateMu,
                 leases, commandVars>>

Shutdown ==
  /\ Serving /\ stage = "listening" /\ stopping /\ watcher = "parked"
  /\ watcher' = "draining"
  /\ stage' = "closed"
  /\ UNCHANGED <<stopping, serving, forced, job, registryMu, gateMu, leases,
                 commandVars>>

\* Every handler has finished, or the window has passed and Close cuts them.
Drained ==
  /\ Serving /\ watcher = "draining"
  /\ \/ \A h \in Handlers : job[h] = "idle"
        /\ UNCHANGED forced
     \/ forced' = TRUE
  /\ watcher' = "returned"
  /\ UNCHANGED <<stage, stopping, serving, job, registryMu, gateMu, leases,
                 commandVars>>

\* g.Wait returns once every member has.
RunReturns ==
  /\ Serving /\ stage = "closed"
  /\ serving # "running" /\ watcher = "returned" /\ job["reaper"] = "returned"
  /\ exit' = IF serving = "faulted" THEN 1 ELSE 0
  /\ UNCHANGED <<serverVars, act, signals>>

Runtime == Boot \/ Bridge \/ ServeReturns \/ Shutdown \/ Drained \/ RunReturns

-----------------------------------------------------------------------------
(* The locks (registry.go, gate.go) *)

rest == <<stage, stopping, serving, watcher, forced, commandVars>>

Move(w, from, to) == Serving /\ job[w] = from /\ job' = [job EXCEPT ![w] = to]

\* A step at a lock: taken when free.
LockRegistry(w, from, to) ==
  /\ Move(w, from, to) /\ registryMu = Nobody /\ registryMu' = w
  /\ UNCHANGED <<gateMu, leases, rest>>

LockGate(w, from, to) ==
  /\ Move(w, from, to) /\ gateMu = Nobody /\ gateMu' = w
  /\ UNCHANGED <<registryMu, leases, rest>>

\* The closure of a peek, transition or commit: handle state, quota and medium
\* only, never registry.mu.
closureMayRunNested == registryMu = Nobody
closureMayRun == TRUE

Acquire(w) == LockRegistry(w, "acquire", "acquiring")

Acquired(w) ==
  /\ Move(w, "acquiring", "enter")
  /\ leases' = leases + 1
  /\ registryMu' = Nobody
  /\ UNCHANGED <<gateMu, rest>>

Enter(w) == LockGate(w, "enter", "inside")

\* A handler goes on with its transfer, the reaper with its release.
Leave(w) ==
  /\ closureMayRun
  /\ \E to \in IF w = "reaper" THEN {"release"} ELSE {"follow", "transfer", "release"} :
       Move(w, "inside", to)
  /\ gateMu' = Nobody
  /\ UNCHANGED <<registryMu, leases, rest>>

Release(w) == LockRegistry(w, "release", "releasing")

\* The last lease looks at the handle under the gate, below registry.mu.
Released(w) ==
  /\ IF leases = 1
       THEN Move(w, "releasing", "peeking") /\ gateMu = Nobody /\ gateMu' = w
            /\ UNCHANGED registryMu
       ELSE Move(w, "releasing", "idle") /\ registryMu' = Nobody /\ UNCHANGED gateMu
  /\ leases' = leases - 1
  /\ UNCHANGED rest

Evicted(w) ==
  /\ Move(w, "peeking", "idle")
  /\ gateMu' = Nobody /\ registryMu' = Nobody
  /\ UNCHANGED <<leases, rest>>

\* A walk over the registry, of List or of a sweep: the handles are copied
\* under registry.mu, then looked at under the gate with no lease.
Snapshot(w) == LockRegistry(w, "snapshot", "copying")

Copied(w) ==
  /\ Move(w, "copying", "peek")
  /\ registryMu' = Nobody
  /\ UNCHANGED <<gateMu, leases, rest>>

Peek(w) == LockGate(w, "peek", "looking")

\* An expired value that a sweep found is removed under a lease.
Looked(w) ==
  /\ closureMayRun
  /\ \E to \in {"idle", "acquire"} : Move(w, "looking", to)
  /\ gateMu' = Nobody
  /\ UNCHANGED <<registryMu, leases, rest>>

Work(w) == Acquire(w) \/ Acquired(w) \/ Enter(w) \/ Leave(w) \/ Release(w)
           \/ Released(w) \/ Evicted(w) \/ Snapshot(w) \/ Copied(w) \/ Peek(w)
           \/ Looked(w)

-----------------------------------------------------------------------------
(* Handlers *)

\* A request on a name, or List; a write at a cap sweeps before its second try.
Accept(h) ==
  /\ stage = "listening" /\ serving = "running"
  /\ \E to \in {"acquire", "snapshot"} : Move(h, "idle", to)
  /\ UNCHANGED <<registryMu, gateMu, leases, rest>>

\* A parked read, a live follow or an upload watches the request's context; a
\* finalized read ends in its own time, or when its connection is closed.  A
\* waiter that resolves again, a commit, a discard and a consumed clip's cleanup
\* enter the gate once more.
EndFollow(h) ==
  /\ \E to \in {"enter", "release"} : Move(h, "follow", to)
  /\ UNCHANGED <<registryMu, gateMu, leases, rest>>

EndTransfer(h) ==
  /\ \E to \in {"enter", "release"} : Move(h, "transfer", to)
  /\ UNCHANGED <<registryMu, gateMu, leases, rest>>

Unwind(h) == (EndFollow(h) /\ stopping) \/ (EndTransfer(h) /\ forced)

-----------------------------------------------------------------------------
(* The reaper (reaper.go) *)

Tick ==
  /\ stage # "boot" /\ Move("reaper", "idle", "snapshot")
  /\ UNCHANGED <<registryMu, gateMu, leases, rest>>

\* The select takes the stop when it is there; a tick that is there too may
\* win, but not for ever.
ReaperReturns ==
  /\ stage # "boot" /\ stopping /\ Move("reaper", "idle", "returned")
  /\ UNCHANGED <<registryMu, gateMu, leases, rest>>

ServeNext ==
  \/ Runtime \/ ServeFaults \/ Tick \/ Work("reaper") \/ ReaperReturns
  \/ \E h \in Handlers : Accept(h) \/ Work(h) \/ EndFollow(h) \/ EndTransfer(h)

\* Nobody has asked the server to stop.
AwaitsStop == act = "serve" /\ ~Canceled /\ serving # "faulted"
=============================================================================
