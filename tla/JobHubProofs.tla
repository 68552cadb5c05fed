---------------------------- MODULE JobHubProofs ----------------------------
(***************************************************************************)
(* Theorems about JobHub, for every set of pids, every choice of handlers  *)
(* and disturbances and any number of them: the types, that no worker runs *)
(* unowned, that the memory of the workers is what the policy says, that a *)
(* Stop finds the pid of a synthesis, that the status posted is current,   *)
(* that a model which counts as loaded is with its worker, and that the    *)
(* hub keeps the promise of module ModelSlots.                             *)
(*                                                                         *)
(* A command passes a WorkerManager from one operator to the next, so each *)
(* operator has lemmas about any manager m, and the proof about an action  *)
(* follows the calls of its handler.                                       *)
(***************************************************************************)
EXTENDS JobHub, SequenceTheorems, TLAPS

-----------------------------------------------------------------------------
(* What is kept.                                                           *)

\* A manager whose slots hold models of their roles.
Managed == {m \in Manager : \A r \in Roles : m.loaded[r] \in ModelsOf(r) \union {NoModel}}

\* Each worker that runs has its client, no two clients own one process, and
\* what a client owns is still to be reaped.
Owned(m) ==
  /\ \A p \in Pids : m.procs[p].st = "running" =>
       \E r \in Roles : m.client[r] = [pid |-> p, live |-> TRUE]
  /\ \A r \in Roles : m.client[r].live =>
       /\ m.client[Peer(r)] # m.client[r]
       /\ m.procs[m.client[r].pid].st \in {"running", "zombie"}

Sound == {m \in Managed : Owned(m)}

-----------------------------------------------------------------------------
(* Roles, clients, processes.                                              *)

\* There are two roles, each the other's peer.
LEMMA RoleFacts ==
  /\ "stt" \in Roles /\ "tts" \in Roles
  /\ Peer("stt") = "tts" /\ Peer("tts") = "stt"
  /\ \A r \in Roles : /\ Peer(r) \in Roles /\ Peer(r) # r /\ Peer(Peer(r)) = r
                      /\ \A s \in Roles : s = r \/ s = Peer(r)
BY DEF Roles, Peer

\* A model of a role is a model.
LEMMA ModelFacts == \A r \in Roles : ModelsOf(r) \subseteq Models
BY DEF Models

\* The parts of a manager have their types, and a client that owns a child has a
\* pid.
LEMMA ManagerFacts ==
  ASSUME NEW m \in Managed, NEW r \in Roles
  PROVE  /\ m \in Manager
         /\ m.client \in [Roles -> Client] /\ m.procs \in [Pids -> Process]
         /\ m.loaded \in [Roles -> Models \union {NoModel}]
         /\ m.loaded[r] \in ModelsOf(r) \union {NoModel}
         /\ m.client[r] \in Client
         /\ m.client[r].live \in BOOLEAN
         /\ m.client[r].live => m.client[r].pid \in Pids
         /\ m.client[r].pid \in Pids \union {NoPid}
         /\ m.client[r].live => m.client[r] = [pid |-> m.client[r].pid, live |-> TRUE]
<1>1. /\ m \in Manager
      /\ m.client \in [Roles -> Client] /\ m.procs \in [Pids -> Process]
      /\ m.loaded \in [Roles -> Models \union {NoModel}]
  BY DEF Managed, Manager
<1>2. m.loaded[r] \in ModelsOf(r) \union {NoModel}
  BY DEF Managed
<1>3. m.client[r] \in Client
  BY <1>1
<1>4. \A c \in Client : /\ c.live \in BOOLEAN /\ (c.live => c.pid \in Pids)
                        /\ c.pid \in Pids \union {NoPid}
                        /\ (c.live => c = [pid |-> c.pid, live |-> TRUE])
  <2> TAKE c \in Client
  <2>1. CASE c \in [pid : Pids, live : BOOLEAN]
    <3>1. ASSUME c.live PROVE c = [pid |-> c.pid, live |-> TRUE]
      BY <2>1, <3>1
    <3> QED
      BY <2>1, <3>1
  <2>2. CASE c = NoClient
    <3>1. c.pid = NoPid /\ c.live = FALSE
      BY <2>2 DEF NoClient
    <3> QED
      BY <3>1
  <2> QED
    BY <2>1, <2>2 DEF Client
<1> QED
  BY <1>1, <1>2, <1>3, <1>4

\* A process record may be put under any pid.
LEMMA SetProcManaged ==
  ASSUME NEW m \in Managed, NEW p \in Pids, NEW q \in Process
  PROVE  LET n == [m EXCEPT !.procs[p] = q]
         IN  /\ n \in Managed /\ n.client = m.client /\ n.loaded = m.loaded
             /\ n.procs = [m.procs EXCEPT ![p] = q]
             /\ n.procs[p] = q /\ \A o \in Pids \ {p} : n.procs[o] = m.procs[o]
<1> DEFINE n == [m EXCEPT !.procs[p] = q]
<1>1. m \in Manager /\ m.procs \in [Pids -> Process]
  BY DEF Managed, Manager
<1>2. n.client = m.client /\ n.loaded = m.loaded /\ n.procs = [m.procs EXCEPT ![p] = q]
  BY <1>1 DEF Manager
<1>3. n \in Manager
  BY <1>1 DEF Manager
<1>4. n \in Managed
  BY <1>2, <1>3 DEF Managed
<1> QED
  BY <1>1, <1>2, <1>4

\* Any client may be put under a role, with any process under a pid.
LEMMA SetClientManaged ==
  ASSUME NEW m \in Managed, NEW r \in Roles, NEW c \in Client
  PROVE  LET n == [m EXCEPT !.client[r] = c]
         IN  /\ n \in Managed /\ n.procs = m.procs /\ n.loaded = m.loaded
             /\ n.client[r] = c /\ n.client[Peer(r)] = m.client[Peer(r)]
<1> DEFINE n == [m EXCEPT !.client[r] = c]
<1>1. m \in Manager /\ m.client \in [Roles -> Client]
  BY DEF Managed, Manager
<1>2. n.procs = m.procs /\ n.loaded = m.loaded /\ n.client = [m.client EXCEPT ![r] = c]
  BY <1>1 DEF Manager
<1>3. n \in Manager
  BY <1>1 DEF Manager
<1>4. n \in Managed
  BY <1>2, <1>3 DEF Managed
<1> QED
  BY <1>1, <1>2, <1>4, RoleFacts

\* A slot may be set to any model of its role, or to none.
LEMMA SetLoadedManaged ==
  ASSUME NEW m \in Managed, NEW r \in Roles, NEW x \in ModelsOf(r) \union {NoModel}
  PROVE  LET n == MarkLoaded(m, r, x)
         IN  /\ n \in Managed /\ n.procs = m.procs /\ n.client = m.client
             /\ n.loaded[r] = x /\ n.loaded[Peer(r)] = m.loaded[Peer(r)]
<1> DEFINE n == MarkLoaded(m, r, x)
<1>1. /\ m \in Manager /\ m.loaded \in [Roles -> Models \union {NoModel}]
      /\ x \in Models \union {NoModel}
  BY ModelFacts DEF Managed, Manager
<1>2. n.procs = m.procs /\ n.client = m.client /\ n.loaded = [m.loaded EXCEPT ![r] = x]
  BY <1>1 DEF Manager, MarkLoaded
<1>3. n \in Manager
  BY <1>1 DEF Manager, MarkLoaded
<1>4. n \in Managed
  BY <1>1, <1>2, <1>3 DEF Managed
<1> QED
  BY <1>1, <1>2, <1>4, RoleFacts
-----------------------------------------------------------------------------
(* The operators keep a manager sound and touch one role.                  *)

\* n differs from the sound manager m in the worker and the slot of role r only.
Kept(m, n, r) ==
  /\ n \in Sound
  /\ n.client[Peer(r)] = m.client[Peer(r)]
  /\ n.loaded[Peer(r)] = m.loaded[Peer(r)]
  /\ m.client[Peer(r)].live => ProcOf(n, Peer(r)) = ProcOf(m, Peer(r))

\* Two such changes of one role are one.
LEMMA KeptTwice ==
  ASSUME NEW m, NEW n, NEW k, NEW r, Kept(m, n, r), Kept(n, k, r)
  PROVE  Kept(m, k, r)
BY DEF Kept

\* A client that owns nothing runs nothing.
LEMMA NotRunning ==
  ASSUME NEW m, NEW r, m.client[r].live = FALSE
  PROVE  ~Running(m, r)
BY DEF Running

\* Setting a slot.
LEMMA MarkKept ==
  ASSUME NEW m \in Sound, NEW r \in Roles, NEW x \in ModelsOf(r) \union {NoModel}
  PROVE  LET n == MarkLoaded(m, r, x)
         IN  /\ Kept(m, n, r)
             /\ n.loaded[r] = x /\ n.client = m.client /\ n.procs = m.procs
<1> DEFINE n == MarkLoaded(m, r, x)
<1>1. m \in Managed /\ Owned(m)
  BY DEF Sound
<1>2. /\ n \in Managed /\ n.procs = m.procs /\ n.client = m.client
      /\ n.loaded[r] = x /\ n.loaded[Peer(r)] = m.loaded[Peer(r)]
  BY <1>1, SetLoadedManaged
<1> HIDE DEF n
<1>3. Owned(n)
  BY <1>1, <1>2 DEF Owned
<1>4. n \in Sound
  BY <1>2, <1>3 DEF Sound
<1> QED
  BY <1>2, <1>4 DEF n, Kept, ProcOf

\* Clearing a slot is setting it to no model.
LEMMA UnmarkKept ==
  ASSUME NEW m \in Sound, NEW r \in Roles
  PROVE  LET n == MarkUnloaded(m, r)
         IN  /\ Kept(m, n, r)
             /\ n.loaded[r] = NoModel /\ n.client = m.client /\ n.procs = m.procs
<1>1. MarkUnloaded(m, r) = MarkLoaded(m, r, NoModel)
  BY DEF MarkUnloaded, MarkLoaded
<1> QED
  BY <1>1, MarkKept

\* What reaping does.
LEMMA ReapFacts ==
  ASSUME NEW m \in Managed, NEW r \in Roles
  PROVE  LET n == Reap(m, r)
         IN  /\ n \in Managed /\ n.loaded = m.loaded
             /\ n.client[Peer(r)] = m.client[Peer(r)]
             /\ n.client[r].live = FALSE /\ n.client[r].pid = m.client[r].pid
             /\ ~m.client[r].live => n = m
             /\ m.client[r].live =>
                  /\ n.procs[m.client[r].pid] = InState("free")
                  /\ \A o \in Pids \ {m.client[r].pid} : n.procs[o] = m.procs[o]
<1> DEFINE p == m.client[r].pid
           c == [m.client[r] EXCEPT !.live = FALSE]
           k == [m EXCEPT !.client[r] = c]
           n == Reap(m, r)
<1>1. CASE ~m.client[r].live
  <2>1. m.client[r].live = FALSE
    BY <1>1, ManagerFacts
  <2> QED
    BY <1>1, <2>1 DEF Reap
<1>2. CASE m.client[r].live
  <2>1. p \in Pids /\ m.client[r] = [pid |-> p, live |-> TRUE] /\ m \in Manager
    BY <1>2, ManagerFacts
  <2>2. c \in Client /\ c.live = FALSE /\ c.pid = p
    <3> HIDE DEF p
    <3>1. c = [[pid |-> p, live |-> TRUE] EXCEPT !.live = FALSE]
      BY <2>1 DEF c
    <3> HIDE DEF c
    <3>2. c = [pid |-> p, live |-> FALSE]
      BY <3>1
    <3>3. c \in [pid : Pids, live : BOOLEAN]
      BY <2>1, <3>2
    <3> QED
      BY <3>2, <3>3 DEF Client
  <2>3. InState("free") \in Process
    BY DEF InState, Process
  <2>4. n = [k EXCEPT !.procs[p] = InState("free")]
    <3>1. n = [m EXCEPT !.client[r].live = FALSE, !.procs[p] = InState("free")]
      BY <1>2 DEF Reap
    <3> QED
      BY <3>1, <2>1 DEF Manager
  <2>5. /\ k \in Managed /\ k.procs = m.procs /\ k.loaded = m.loaded
        /\ k.client[r] = c /\ k.client[Peer(r)] = m.client[Peer(r)]
    <3> HIDE DEF c
    <3> QED BY <2>2, SetClientManaged
  <2> HIDE DEF k, c, n, p
  <2>6. /\ n \in Managed /\ n.client = k.client /\ n.loaded = k.loaded
        /\ n.procs[p] = InState("free") /\ \A o \in Pids \ {p} : n.procs[o] = k.procs[o]
    BY <2>1, <2>3, <2>4, <2>5, SetProcManaged
  <2> QED
    BY <1>2, <2>2, <2>5, <2>6 DEF n, p
<1> QED
  BY <1>1, <1>2

\* A change that touches the client, the slot and the processes of role r alone
\* keeps a manager sound if it leaves no process of r behind.
LEMMA RoleChange ==
  ASSUME NEW m \in Sound, NEW r \in Roles, NEW n \in Managed,
         n.client[Peer(r)] = m.client[Peer(r)], n.loaded[Peer(r)] = m.loaded[Peer(r)],
         \A o \in Pids : \/ m.client[r].live /\ o = m.client[r].pid
                         \/ n.client[r].live /\ o = n.client[r].pid
                         \/ n.procs[o] = m.procs[o],
         m.client[r].live => \/ n.client[r] = m.client[r]
                             \/ n.procs[m.client[r].pid].st # "running"
                             \/ n.client[r].live /\ n.client[r].pid = m.client[r].pid,
         n.client[r].live =>
           /\ n.procs[n.client[r].pid].st \in {"running", "zombie"}
           /\ m.client[Peer(r)].live => n.client[r].pid # m.client[Peer(r)].pid
  PROVE  Kept(m, n, r)
<1>1. m \in Managed /\ Owned(m) /\ Peer(r) \in Roles
  BY RoleFacts DEF Sound
<1> DEFINE s == Peer(r)
<1>2. s \in Roles /\ s # r /\ Peer(s) = r
  BY RoleFacts
<1>3. m.client[s].live => /\ m.client[s].pid \in Pids
                          /\ m.client[r].live => m.client[s].pid # m.client[r].pid
                          /\ n.procs[m.client[s].pid] = m.procs[m.client[s].pid]
  <2> SUFFICES ASSUME m.client[s].live
               PROVE  /\ m.client[s].pid \in Pids
                      /\ m.client[r].live => m.client[s].pid # m.client[r].pid
                      /\ n.procs[m.client[s].pid] = m.procs[m.client[s].pid]
    OBVIOUS
  <2>1. m.client[s].pid \in Pids /\ m.client[s] = [pid |-> m.client[s].pid, live |-> TRUE]
    BY <1>1, <1>2, ManagerFacts
  <2>2. m.client[r].live => m.client[s].pid # m.client[r].pid
    <3>1. m.client[r].live => m.client[r] = [pid |-> m.client[r].pid, live |-> TRUE]
      BY <1>1, ManagerFacts
    <3>2. m.client[r].live => m.client[s] # m.client[r]
      BY <1>1 DEF Owned
    <3> HIDE DEF s
    <3> QED BY <2>1, <3>1, <3>2
  <2> QED
    BY <2>1, <2>2
<1>4. \A p \in Pids : n.procs[p].st = "running" =>
        \E t \in Roles : n.client[t] = [pid |-> p, live |-> TRUE]
  <2> SUFFICES ASSUME NEW p \in Pids, n.procs[p].st = "running"
               PROVE  \E t \in Roles : n.client[t] = [pid |-> p, live |-> TRUE]
    OBVIOUS
  <2>1. CASE n.client[r].live /\ p = n.client[r].pid
    BY <2>1, ManagerFacts
  <2>2. CASE ~(n.client[r].live /\ p = n.client[r].pid)
    <3>1. ~(m.client[r].live /\ p = m.client[r].pid)
      <4> SUFFICES ASSUME m.client[r].live, p = m.client[r].pid PROVE FALSE
        OBVIOUS
      <4> QED BY <2>2
    <3>2. n.procs[p] = m.procs[p]
      BY <2>2, <3>1
    <3>3. PICK t \in Roles : m.client[t] = [pid |-> p, live |-> TRUE]
      BY <3>2, <1>1 DEF Owned
    <3>4. t # r
      <4>1. m.client[t].live /\ m.client[t].pid = p
        BY <3>3
      <4> QED BY <3>1, <4>1
    <3>5. t = s
      BY <3>4, RoleFacts
    <3> QED
      BY <3>3, <3>5
  <2> QED
    BY <2>1, <2>2
<1>5. \A t \in Roles : n.client[t].live =>
        /\ n.client[Peer(t)] # n.client[t]
        /\ n.procs[n.client[t].pid].st \in {"running", "zombie"}
  <2>1. n.client[r].live => n.client[s] # n.client[r]
    BY <1>1, ManagerFacts
  <2>2. n.client[s].live => /\ n.client[r] # n.client[s]
                            /\ n.procs[n.client[s].pid].st \in {"running", "zombie"}
    <3> SUFFICES ASSUME n.client[s].live
                 PROVE  /\ n.client[r] # n.client[s]
                        /\ n.procs[n.client[s].pid].st \in {"running", "zombie"}
      OBVIOUS
    <3>1. m.client[s].live /\ n.procs[n.client[s].pid] = m.procs[m.client[s].pid]
      BY <1>3
    <3>2. n.procs[n.client[s].pid].st \in {"running", "zombie"}
      BY <3>1, <1>1, <1>2 DEF Owned
    <3> QED
      BY <2>1, <3>2
  <2> QED
    BY <2>1, <2>2, <1>2, RoleFacts
<1>6. n \in Sound
  BY <1>4, <1>5 DEF Sound, Owned
<1>8. m.client[s].live => ProcOf(n, s) = ProcOf(m, s)
  BY <1>3 DEF ProcOf
<1> QED
  BY <1>6, <1>8 DEF Kept

\* Reaping.
LEMMA ReapKept ==
  ASSUME NEW m \in Sound, NEW r \in Roles
  PROVE  LET n == Reap(m, r)
         IN  /\ Kept(m, n, r) /\ n.loaded = m.loaded /\ ~Running(n, r)
             /\ n.client[r].live = FALSE /\ n.client[r].pid = m.client[r].pid
             /\ m.client[r].live => n.procs[m.client[r].pid] = InState("free")
<1> DEFINE n == Reap(m, r)
<1>1. m \in Managed
  BY DEF Sound
<1>2. /\ n \in Managed /\ n.loaded = m.loaded
      /\ n.client[Peer(r)] = m.client[Peer(r)]
      /\ n.client[r].live = FALSE /\ n.client[r].pid = m.client[r].pid
      /\ ~m.client[r].live => n = m
      /\ m.client[r].live =>
           /\ n.procs[m.client[r].pid] = InState("free")
           /\ \A o \in Pids \ {m.client[r].pid} : n.procs[o] = m.procs[o]
  BY <1>1, ReapFacts
<1> HIDE DEF n
<1>3. ~Running(n, r)
  BY <1>2, NotRunning
<1>4. InState("free").st # "running"
  BY DEF InState
<1>5. Kept(m, n, r)
  BY <1>2, <1>4, RoleChange
<1> QED
  BY <1>2, <1>3, <1>5 DEF n

\* Dropping a client that owns nothing.
LEMMA DropKept ==
  ASSUME NEW m \in Sound, NEW r \in Roles, m.client[r].live = FALSE
  PROVE  LET n == [m EXCEPT !.client[r] = NoClient]
         IN  /\ Kept(m, n, r) /\ n.loaded = m.loaded /\ n.client[r] = NoClient
             /\ ~Running(n, r) /\ ~HasClient(n, r)
<1> DEFINE n == [m EXCEPT !.client[r] = NoClient]
<1>1. m \in Managed /\ NoClient \in Client
  BY DEF Sound, Client
<1>2. /\ n \in Managed /\ n.procs = m.procs /\ n.loaded = m.loaded
      /\ n.client[r] = NoClient /\ n.client[Peer(r)] = m.client[Peer(r)]
  BY <1>1, SetClientManaged
<1> HIDE DEF n
<1>3. n.client[r].live = FALSE /\ n.client[r].pid = NoPid
  BY <1>2 DEF NoClient
<1>4. Kept(m, n, r)
  BY <1>2, <1>3, RoleChange
<1> QED
  BY <1>2, <1>3, <1>4, NotRunning DEF n, HasClient

\* Shutting a worker down.
LEMMA ShutDownKept ==
  ASSUME NEW m \in Sound, NEW r \in Roles
  PROVE  LET n == ShutDown(m, r)
         IN  /\ Kept(m, n, r) /\ n.loaded = m.loaded
             /\ ~Running(n, r) /\ ~HasClient(n, r)
<1> DEFINE k == Reap(m, r)
<1>1. k.client[r].live = FALSE /\ k.loaded = m.loaded /\ Kept(m, k, r)
  BY ReapKept
<1>2. ShutDown(m, r) = [k EXCEPT !.client[r] = NoClient]
  BY DEF ShutDown
<1> HIDE DEF k
<1>3. k \in Sound
  BY <1>1 DEF Kept
<1> DEFINE n == [k EXCEPT !.client[r] = NoClient]
<1>4. /\ Kept(k, n, r) /\ n.loaded = k.loaded
      /\ ~Running(n, r) /\ ~HasClient(n, r)
  BY <1>1, <1>3, DropKept
<1> HIDE DEF n
<1>5. Kept(m, n, r)
  BY <1>1, <1>4, KeptTwice
<1> QED
  BY <1>1, <1>2, <1>4, <1>5 DEF n

\* Killing a worker.
LEMMA KillKept ==
  ASSUME NEW m \in Sound, NEW r \in Roles
  PROVE  LET n == KillWorker(m, r)
         IN  /\ Kept(m, n, r) /\ n.loaded[r] = NoModel
             /\ ~Running(n, r) /\ ~HasClient(n, r)
<1> DEFINE k == ShutDown(m, r)
<1>1. Kept(m, k, r) /\ k \in Sound /\ ~Running(k, r) /\ ~HasClient(k, r)
  BY ShutDownKept DEF Kept
<1>2. KillWorker(m, r) = MarkUnloaded(k, r)
  BY DEF KillWorker, ShutDown
<1> HIDE DEF k
<1> DEFINE n == MarkUnloaded(k, r)
<1>3. Kept(k, n, r) /\ n.loaded[r] = NoModel /\ n.client = k.client /\ n.procs = k.procs
  BY <1>1, UnmarkKept
<1> HIDE DEF n
<1>4. ~Running(n, r) /\ ~HasClient(n, r)
  BY <1>1, <1>3 DEF Running, HasClient, ProcOf
<1> QED
  BY <1>1, <1>2, <1>3, <1>4, KeptTwice DEF n

\* A worker that ensure_worker returns is the old one, or a new one without a
\* model.
LEMMA EnsuredKept ==
  ASSUME NEW m \in Sound, NEW r \in Roles, NEW n \in Ensured(m, r)
  PROVE  /\ Kept(m, n, r) /\ n.loaded = m.loaded
         /\ IF Running(m, r) THEN n = m
                             ELSE Running(n, r) /\ ProcOf(n, r).model = NoModel
<1>1. CASE Running(m, r)
  <2>1. n = m
    BY <1>1 DEF Ensured
  <2> QED
    BY <1>1, <2>1 DEF Kept
<1>2. CASE ~Running(m, r)
  <2> DEFINE k == Reap(m, r)
  <2>0. k.client[r].live = FALSE /\ k.loaded = m.loaded /\ Kept(m, k, r)
    BY ReapKept
  <2>2. n \in {[k EXCEPT !.client[r] = [pid |-> p, live |-> TRUE],
                         !.procs[p] = InState("running")] : p \in FreePids(k)}
    BY <1>2 DEF Ensured, Spawned
  <2> HIDE DEF k
  <2>1. k \in Sound /\ k.client[r].live = FALSE /\ k.loaded = m.loaded /\ Kept(m, k, r)
    BY <2>0 DEF Kept
  <2>3. PICK p \in FreePids(k) : n = [k EXCEPT !.client[r] = [pid |-> p, live |-> TRUE],
                                               !.procs[p] = InState("running")]
    BY <2>2
  <2> DEFINE c == [pid |-> p, live |-> TRUE]
             j == [k EXCEPT !.client[r] = c]
             q == InState("running")
  <2>4. k \in Managed /\ k \in Manager /\ Owned(k)
    BY <2>1 DEF Sound, Managed
  <2>5. p \in Pids /\ k.procs[p].st = "free" /\ c \in Client /\ c.live = TRUE /\ c.pid = p
    BY DEF FreePids, Client
  <2>6. q \in Process /\ q.st = "running" /\ q.model = NoModel
    BY DEF InState, Process
  <2>7. n = [j EXCEPT !.procs[p] = q]
    BY <2>3, <2>4 DEF Manager
  <2> HIDE DEF c, q
  <2>8. /\ j \in Managed /\ j.procs = k.procs /\ j.loaded = k.loaded
        /\ j.client[r] = c /\ j.client[Peer(r)] = k.client[Peer(r)]
    BY <2>4, <2>5, SetClientManaged
  <2> HIDE DEF j
  <2>9. /\ n \in Managed /\ n.client = j.client /\ n.loaded = j.loaded
        /\ n.procs[p] = q /\ \A o \in Pids \ {p} : n.procs[o] = j.procs[o]
    BY <2>5, <2>6, <2>7, <2>8, SetProcManaged
  <2>10. k.client[Peer(r)].live => p # k.client[Peer(r)].pid
    BY <2>4, <2>5, RoleFacts DEF Owned
  <2>11. Kept(k, n, r)
    BY <2>1, <2>5, <2>6, <2>8, <2>9, <2>10, RoleChange
  <2>12. Running(n, r) /\ ProcOf(n, r).model = NoModel
    BY <2>5, <2>6, <2>8, <2>9 DEF Running, ProcOf
  <2> QED
    BY <1>2, <2>1, <2>8, <2>9, <2>11, <2>12, KeptTwice
<1> QED
  BY <1>1, <1>2

-----------------------------------------------------------------------------
(* Answers.                                                                *)

\* The answers after which the worker of the request runs on.
LivingAnswers == {"done"} \union ErrorAnswers \union UnreadAnswers

\* An answer leaves the slots alone, and the worker that still runs after it
\* holds what its request left it.
LEMMA AnswerKept ==
  ASSUME NEW m \in Sound, NEW r \in Roles, NEW cmd, NEW wanted \in Models \union {NoModel},
         NEW a \in Answers, Possible(m, r, a), NEW n \in AfterAnswer(m, r, cmd, wanted, a)
  PROVE  /\ Kept(m, n, r) /\ n.loaded = m.loaded
         /\ n.client[r].pid = m.client[r].pid
         /\ Running(n, r) =>
              /\ Running(m, r) /\ a \in LivingAnswers
              /\ ProcOf(n, r).model = ModelAfter(cmd, wanted, a, ProcOf(m, r).model)
         /\ a \in LivingAnswers => Running(n, r)
<1>0. "timeout" \notin LivingAnswers /\ "lost" \notin LivingAnswers
  BY DEF LivingAnswers, ErrorAnswers, UnreadAnswers
<1>1. CASE a = "timeout"
  <2>1. n = Reap(m, r)
    BY <1>1 DEF AfterAnswer
  <2> QED
    BY <1>0, <1>1, <2>1, ReapKept
<1>2. CASE a = "lost"
  <2>1. n = m \/ n = Reap(m, r)
    BY <1>2 DEF AfterAnswer
  <2>2. ~Running(m, r)
    BY <1>2 DEF Possible
  <2>3. Kept(m, m, r)
    BY DEF Kept
  <2> QED
    BY <1>0, <1>2, <2>1, <2>2, <2>3, ReapKept
<1>3. CASE a \notin {"timeout", "lost"}
  <2> DEFINE p == m.client[r].pid
             h == ModelAfter(cmd, wanted, a, m.procs[p].model)
             q == [m.procs[p] EXCEPT !.model = h]
  <2>1. n = [m EXCEPT !.procs[p].model = h]
    BY <1>3 DEF AfterAnswer, ProcOf
  <2>2. m \in Managed /\ m \in Manager /\ Owned(m)
    BY DEF Sound, Managed
  <2>3. Running(m, r)
    BY <1>3 DEF Possible
  <2>4. m.client[r].live /\ p \in Pids /\ m.procs[p].st = "running"
    BY <2>2, <2>3, ManagerFacts DEF Running, ProcOf
  <2>5. m.procs[p] \in Process
    BY <2>2, <2>4 DEF Manager
  <2>6. h \in Models \union {NoModel, Adrift}
    BY <2>5 DEF ModelAfter, Process
  <2>7. n = [m EXCEPT !.procs[p] = q]
    BY <2>1, <2>2, <2>4 DEF Manager
  <2> HIDE DEF h
  <2>8. q \in Process /\ q.st = "running" /\ q.model = h
    BY <2>4, <2>5, <2>6 DEF Process
  <2> HIDE DEF q, p
  <2>9. /\ n \in Managed /\ n.client = m.client /\ n.loaded = m.loaded
        /\ n.procs[p] = q /\ \A o \in Pids \ {p} : n.procs[o] = m.procs[o]
    BY <2>2, <2>4, <2>7, <2>8, SetProcManaged
  <2>10. m.client[Peer(r)].live => m.client[Peer(r)].pid # p
    <3>1. m.client[r] = [pid |-> p, live |-> TRUE]
      BY <2>2, <2>4, ManagerFacts DEF p
    <3>2. m.client[Peer(r)].live =>
            m.client[Peer(r)] = [pid |-> m.client[Peer(r)].pid, live |-> TRUE]
      BY <2>2, ManagerFacts, RoleFacts
    <3>3. m.client[Peer(r)] # m.client[r]
      BY <2>2, <2>4 DEF Owned
    <3> QED
      BY <3>1, <3>2, <3>3
  <2>11. n.client[r] = m.client[r] /\ n.client[r].pid = p
    BY <2>9 DEF p
  <2>12. Kept(m, n, r)
    BY <2>2, <2>4, <2>8, <2>9, <2>10, <2>11, RoleChange
  <2>13. ProcOf(n, r) = q /\ Running(n, r)
    BY <2>4, <2>8, <2>9, <2>11 DEF ProcOf, Running
  <2>14. a \in LivingAnswers
    BY <1>3 DEF Answers, LivingAnswers
  <2>15. q.model = ModelAfter(cmd, wanted, a, ProcOf(m, r).model)
    BY <2>8 DEF h, p, ProcOf
  <2> QED
    BY <2>3, <2>9, <2>11, <2>12, <2>13, <2>14, <2>15
<1> QED
  BY <1>1, <1>2, <1>3

\* After an unload the worker of the role holds nothing, or nothing new.
LEMMA UnloadAnsweredKept ==
  ASSUME NEW m \in Sound, NEW r \in Roles, NEW a \in Answers,
         Running(m, r) => ProcOf(m, r).model = NoModel
  PROVE  LET u == UnloadAnswered(m, r, a)
         IN  Kept(m, u.m, r)
<1>0. Kept(m, m, r)
  BY DEF Kept
<1>1. CASE a = "done"
  <2> DEFINE n == MarkUnloaded(m, r)
  <2>1. UnloadAnswered(m, r, a).m = n
    BY <1>1 DEF UnloadAnswered, ErrorAnswers
  <2>2. Kept(m, n, r) /\ n.client = m.client /\ n.procs = m.procs
    BY UnmarkKept
  <2> HIDE DEF n
  <2> QED
    BY <2>1, <2>2
<1>2. CASE a \in ErrorAnswers
  <2>1. UnloadAnswered(m, r, a).m = m
    BY <1>2 DEF UnloadAnswered, ErrorAnswers
  <2> QED
    BY <2>1, <1>0
<1>3. CASE a \notin {"done"} \union ErrorAnswers
  <2>1. UnloadAnswered(m, r, a).m = KillWorker(m, r)
    BY <1>3 DEF UnloadAnswered
  <2> QED
    BY <2>1, KillKept
<1> QED
  BY <1>1, <1>2, <1>3

\* After a load the worker of the role holds the model, or nothing that counts.
LEMMA LoadAnsweredKept ==
  ASSUME NEW m \in Sound, NEW r \in Roles, NEW x \in ModelsOf(r) \union {NoModel},
         NEW a \in Answers,
         Running(m, r) =>
           ProcOf(m, r).model \in IF a = "done" THEN {x} ELSE {NoModel, Adrift}
  PROVE  LET n == LoadAnswered(m, r, x, a)
         IN  Kept(m, n, r)
<1>1. CASE a = "done"
  <2> DEFINE n == MarkLoaded(m, r, x)
  <2>1. LoadAnswered(m, r, x, a) = n
    BY <1>1 DEF LoadAnswered, TimedOutAnswers
  <2>2. Kept(m, n, r) /\ n.loaded[r] = x /\ n.client = m.client /\ n.procs = m.procs
    BY MarkKept
  <2> HIDE DEF n
  <2> QED
    BY <2>1, <2>2
<1>2. CASE a \in TimedOutAnswers
  <2>1. LoadAnswered(m, r, x, a) = KillWorker(m, r)
    BY <1>2 DEF LoadAnswered, TimedOutAnswers
  <2> QED
    BY <2>1, KillKept
<1>3. CASE a \notin {"done"} \union TimedOutAnswers
  <2>1. LoadAnswered(m, r, x, a) = m
    BY <1>3 DEF LoadAnswered
  <2>2. Kept(m, m, r)
    BY DEF Kept
  <2> QED
    BY <2>1, <2>2
<1> QED
  BY <1>1, <1>2, <1>3

-----------------------------------------------------------------------------
(* The inductive invariant.                                                *)

\* Commands whose model is one of their role; tones and the kill of a synthesis
\* are the TTS worker's.
GoodCmds == {c \in Cmds : /\ c.model \in ModelsOf(c.role) \union {NoModel}
                          /\ c.kind \in {"ListTones", "CancelTtsWorker"} => c.role = "tts"}

\* Steps that send such commands and signal real pids.
GoodSteps == {s \in UiSteps : s.cmd \in GoodCmds /\ (s.step = "signal" => s.pid \in Pids)}

HubTypes ==
  /\ workers \in Managed
  /\ live \in [Roles -> Pids \union {NoPid}]
  /\ job \in [at : Positions, cmd : GoodCmds]
  /\ cmds \in Seq(GoodCmds)
  /\ told \in [Roles -> Models \union {NoModel}]
  /\ uiTodo \in Seq(GoodSteps)
  /\ app \in {"up", "quitting", "gone"}
  /\ foreignHit \in BOOLEAN
  /\ unloadErr \subseteq Roles
  /\ userActions \in Nat /\ disturbances \in Nat

\* When shutdown_all comes to the TTS worker the STT worker is gone.
SttDown == job.at = "downTts" => ~HasClient(workers, "stt")

\* The status is current between requests and in those that load nothing.
Told == job.at \in {"idle", "sync", "work"} => told = workers.loaded

HubInv ==
  /\ HubTypes
  /\ app # "gone" => Owned(workers)
  /\ SttDown
  /\ Told
  /\ StopReachesSynthesis

\* The commands and the steps of the handlers are of these kinds.
LEMMA CommandFacts ==
  /\ GoodCmds \subseteq Cmds /\ GoodSteps \subseteq UiSteps
  /\ \A r \in Roles : /\ \A x \in ModelsOf(r) : Load(r, x) \in GoodCmds
                      /\ Unload(r) \in GoodCmds /\ Work(r) \in GoodCmds
                      /\ Swap(r) \in GoodSteps
  /\ CancelTtsWorker \in GoodCmds /\ ListTones \in GoodCmds /\ UnloadAllCmd \in GoodCmds
  /\ Shutdown \in GoodCmds /\ NoCmd \in GoodCmds
  /\ \A c \in GoodCmds : Send(c) \in GoodSteps
  /\ \A p \in Pids : Signal(p) \in GoodSteps
  /\ Exit \in GoodSteps
<1>1. \A k \in {"Load", "Unload", "Work", "CancelTtsWorker", "ListTones", "UnloadAll",
                "Shutdown", "none"}, r \in Roles, x \in Models \union {NoModel} :
        /\ Command(k, r, x) \in Cmds /\ Command(k, r, x).kind = k
        /\ Command(k, r, x).role = r /\ Command(k, r, x).model = x
  BY DEF Command, Cmds
<1>2. \A k \in {"Load", "Unload", "Work", "CancelTtsWorker", "ListTones", "UnloadAll",
                "Shutdown", "none"}, r \in Roles :
        \A x \in ModelsOf(r) \union {NoModel} :
          (k \in {"ListTones", "CancelTtsWorker"} => r = "tts") => Command(k, r, x) \in GoodCmds
  BY <1>1, ModelFacts DEF GoodCmds
<1>3. \A r \in Roles : \A x \in ModelsOf(r) : Load(r, x) \in GoodCmds
  BY <1>2 DEF Load
<1>4. \A r \in Roles : Unload(r) \in GoodCmds /\ Work(r) \in GoodCmds
  BY <1>2 DEF Unload, Work
<1>5. /\ CancelTtsWorker \in GoodCmds /\ ListTones \in GoodCmds /\ UnloadAllCmd \in GoodCmds
      /\ Shutdown \in GoodCmds /\ NoCmd \in GoodCmds
  BY <1>2, RoleFacts DEF CancelTtsWorker, ListTones, UnloadAllCmd, Shutdown, NoCmd
<1>6. \A c \in GoodCmds : c \in Cmds
  BY DEF GoodCmds
<1>7. \A r \in Roles : Swap(r) \in GoodSteps
  BY <1>5, <1>6 DEF Swap, GoodSteps, UiSteps
<1>8. \A c \in GoodCmds : Send(c) \in GoodSteps
  BY <1>6, RoleFacts DEF Send, GoodSteps, UiSteps
<1>9. \A p \in Pids : Signal(p) \in GoodSteps
  BY <1>5, <1>6, RoleFacts DEF Signal, GoodSteps, UiSteps
<1>10. Exit \in GoodSteps
  BY <1>5, <1>6, RoleFacts DEF Exit, GoodSteps, UiSteps
<1>11. GoodCmds \subseteq Cmds /\ GoodSteps \subseteq UiSteps
  BY DEF GoodCmds, GoodSteps
<1> QED
  BY <1>3, <1>4, <1>5, <1>7, <1>8, <1>9, <1>10, <1>11

\* A good command has a role and a model of that role.
LEMMA GoodCmdFacts ==
  ASSUME NEW c \in GoodCmds
  PROVE  c.role \in Roles /\ c.model \in ModelsOf(c.role) \union {NoModel}
                          /\ c.model \in Models \union {NoModel}
<1>1. c \in Cmds /\ c.model \in ModelsOf(c.role) \union {NoModel}
  BY DEF GoodCmds
<1> QED
  BY <1>1 DEF Cmds

\* What each request is for.
LEMMA RequestFacts ==
  ASSUME NEW c \in GoodCmds, job.cmd = c, job.at \in Requests
  PROVE  /\ RequestRole \in Roles
         /\ RequestCmd \in {"load", "unload", "other"}
         /\ job.at \in {"unloadOld", "load", "retry", "unload", "work", "list"} =>
              RequestRole = c.role
         /\ job.at = "evict" => RequestRole = Peer(c.role)
         /\ job.at \in {"unloadStt", "downStt"} => RequestRole = "stt"
         /\ job.at \in {"unloadTts", "downTts"} => RequestRole = "tts"
         /\ job.at \in {"load", "retry"} => RequestCmd = "load"
         /\ job.at \in {"unloadOld", "evict", "unload", "unloadStt", "unloadTts"} =>
              RequestCmd = "unload"
         /\ job.at \in {"work", "list", "downStt", "downTts"} => RequestCmd = "other"
<1>1. c.role \in Roles
  BY GoodCmdFacts
<1>2. /\ job.at \in {"unloadOld", "load", "retry", "unload", "work", "list"} =>
           RequestRole = c.role
      /\ job.at = "evict" => RequestRole = Peer(c.role)
      /\ job.at \in {"unloadStt", "downStt"} => RequestRole = "stt"
      /\ job.at \in {"unloadTts", "downTts"} => RequestRole = "tts"
  BY DEF RequestRole
<1>3. /\ job.at \in {"load", "retry"} => RequestCmd = "load"
      /\ job.at \in {"unloadOld", "evict", "unload", "unloadStt", "unloadTts"} =>
           RequestCmd = "unload"
      /\ job.at \in {"work", "list", "downStt", "downTts"} => RequestCmd = "other"
  BY DEF RequestCmd
<1>4. RequestRole \in Roles
  BY <1>1, <1>2, RoleFacts DEF Requests
<1>5. RequestCmd \in {"load", "unload", "other"}
  BY <1>3 DEF Requests
<1> QED
  BY <1>2, <1>3, <1>4, <1>5

\* The initial states satisfy the invariant.
LEMMA HubInit == Init => HubInv
<1> SUFFICES ASSUME Init PROVE HubInv
  OBVIOUS
<1> USE DEF Init
<1>1. /\ NewManager \in Manager
      /\ \A r \in Roles : NewManager.loaded[r] = NoModel /\ NewManager.client[r].live = FALSE
      /\ \A p \in Pids : NewManager.procs[p].st = "free"
  <2>1. NoClient \in Client /\ NoClient.live = FALSE
    BY DEF NoClient, Client
  <2>2. InState("free") \in Process /\ InState("free").st = "free"
    BY DEF InState, Process
  <2> QED
    BY <2>1, <2>2 DEF NewManager, Manager
<1>2. NewManager \in Managed
  BY <1>1 DEF Managed
<1>3. Owned(NewManager)
  BY <1>1 DEF Owned
<1>4. << ListTones >> \in Seq(GoodCmds)
  BY CommandFacts
<1>5. << >> \in Seq(GoodSteps)
  OBVIOUS
<1>6. job \in [at : Positions, cmd : GoodCmds]
  BY CommandFacts DEF Positions
<1>7. HubTypes
  BY <1>2, <1>4, <1>5, <1>6 DEF HubTypes
<1>8. SttDown
  BY <1>1, NotRunning DEF SttDown
<1>9. Told
  BY DEF Told, NewManager
<1>10. StopReachesSynthesis
  BY DEF StopReachesSynthesis, InSynthesis
<1> QED
  BY <1>3, <1>7, <1>8, <1>9, <1>10 DEF HubInv

-----------------------------------------------------------------------------
(* How a step of the job thread ends.                                      *)

\* The part of a step of the job thread that each of them has.
Serves ==
  /\ cmds' \in Seq(GoodCmds)
  /\ UNCHANGED uiVars
  /\ disturbances' \in Nat

\* The slots of a manager may be posted, its pids registered.
LEMMA PostedFacts ==
  ASSUME NEW m \in Managed
  PROVE  /\ m.loaded \in [Roles -> Models \union {NoModel}]
         /\ WorkerPids(m) \in [Roles -> Pids \union {NoPid}]
<1>1. m.loaded \in [Roles -> Models \union {NoModel}]
  BY RoleFacts, ManagerFacts
<1>2. \A r \in Roles : m.client[r].pid \in Pids \union {NoPid}
  BY ManagerFacts
<1> QED
  BY <1>1, <1>2 DEF WorkerPids

\* A command that ends leaves the thread at the sync with a sound manager.
LEMMA JobEnds ==
  ASSUME HubInv, Serves, NEW m \in Sound,
         NEW failed \in SUBSET Roles, EndsFailing(m, failed)
  PROVE  HubInv'
<1> USE DEF EndsFailing, SetWorkers, Serves, uiVars
<1>1. m \in Managed /\ Owned(m)
  BY DEF Sound
<1>2. /\ m.loaded \in [Roles -> Models \union {NoModel}]
      /\ WorkerPids(m) \in [Roles -> Pids \union {NoPid}]
  BY <1>1, PostedFacts
<1>3. job' \in [at : Positions, cmd : GoodCmds] /\ job'.at = "sync"
  BY CommandFacts DEF Positions
<1>4. unloadErr' \subseteq Roles
  BY DEF HubInv, HubTypes
<1>5. HubTypes'
  BY <1>1, <1>2, <1>3, <1>4 DEF HubInv, HubTypes
<1>6. SttDown'
  BY <1>3 DEF SttDown
<1>7. Told'
  BY DEF Told
<1>8. StopReachesSynthesis'
  BY <1>3 DEF StopReachesSynthesis, InSynthesis
<1> QED
  BY <1>1, <1>5, <1>6, <1>7, <1>8 DEF HubInv

\* A request finds a sound manager; the status stays for the end of the command.
LEMMA JobAsks ==
  ASSUME HubInv, Serves, NEW m \in Sound, NEW failed \in SUBSET Roles, SetWorkers(m, failed),
         NEW at \in Requests \ {"work"}, NEW c \in GoodCmds, job' = [at |-> at, cmd |-> c],
         UNCHANGED << live, told >>,
         at = "downTts" => ~HasClient(m, "stt")
  PROVE  HubInv'
<1> USE DEF SetWorkers, Serves, uiVars
<1>1. m \in Managed /\ Owned(m)
  BY DEF Sound
<1>2. job' \in [at : Positions, cmd : GoodCmds] /\ job'.at = at
  BY DEF Positions
<1>3. unloadErr' \subseteq Roles
  BY DEF HubInv, HubTypes
<1>4. HubTypes'
  BY <1>1, <1>2, <1>3 DEF HubInv, HubTypes
<1>5. SttDown'
  BY <1>2 DEF SttDown
<1>6. at \notin {"idle", "sync", "work"}
  BY DEF Requests
<1>7. Told'
  BY <1>2, <1>6 DEF Told
<1>8. StopReachesSynthesis'
  BY <1>2, <1>6 DEF StopReachesSynthesis, InSynthesis
<1> QED
  BY <1>1, <1>4, <1>5, <1>7, <1>8 DEF HubInv

\* A request that needs a worker.
LEMMA JobEnsures ==
  ASSUME HubInv, Serves, NEW m \in Sound,
         NEW r \in Roles, NEW at \in {"load", "list"}, NEW c \in GoodCmds,
         EnsureThen(m, r, at, c)
  PROVE  HubInv'
<1>1. ASSUME NEW n \in Ensured(m, r), Asks(n, at, c) PROVE HubInv'
  <2>1. n \in Sound
    BY EnsuredKept, RoleFacts DEF Kept
  <2>2. at \in Requests \ {"work"} /\ at # "downTts"
    BY DEF Requests
  <2> QED
    BY <1>1, <2>1, <2>2, JobAsks DEF Asks
<1>2. ASSUME Ends(Reap(m, r)) PROVE HubInv'
  <2> DEFINE n == Reap(m, r)
  <2>1. Kept(m, n, r)
    BY ReapKept
  <2>2. EndsFailing(n, {})
    BY <1>2 DEF Ends
  <2> HIDE DEF n
  <2>3. n \in Sound
    BY <2>1, RoleFacts DEF Kept
  <2> QED
    BY <2>2, <2>3, JobEnds
<1> QED
  BY <1>1, <1>2 DEF EnsureThen

\* A role without a client runs nothing.
LEMMA NoClientRuns ==
  ASSUME NEW m \in Managed, NEW r \in Roles, ~HasClient(m, r)
  PROVE  ~Running(m, r)
<1>1. m.client[r].live = FALSE
  BY ManagerFacts, PidAssumption DEF HasClient
<1> QED
  BY <1>1, NotRunning

\* The second half of unload_all.
LEMMA JobUnloadsTts ==
  ASSUME HubInv, Serves, NEW m \in Sound,
         NEW failed \in SUBSET Roles, NEW c \in GoodCmds, UnloadTtsNext(m, failed, c)
  PROVE  HubInv'
<1>1. CASE HasClient(m, "tts")
  <2>1. "unloadTts" \in Requests \ {"work"}
    BY DEF Requests
  <2>2. /\ SetWorkers(m, failed) /\ job' = [at |-> "unloadTts", cmd |-> c]
        /\ UNCHANGED << live, told >>
    BY <1>1 DEF UnloadTtsNext
  <2> QED
    BY <2>1, <2>2, JobAsks
<1>2. CASE ~HasClient(m, "tts")
  <2> DEFINE n == MarkUnloaded(m, "tts")
  <2>1. EndsFailing(n, failed)
    BY <1>2 DEF UnloadTtsNext
  <2>2. Kept(m, n, "tts") /\ n.client = m.client
    BY UnmarkKept, RoleFacts
  <2> HIDE DEF n
  <2>3. n \in Sound /\ n \in Managed /\ ~HasClient(n, "tts")
    BY <1>2, <2>2 DEF Kept, Sound, HasClient
  <2> QED
    BY <2>1, <2>3, JobEnds
<1> QED
  BY <1>1, <1>2

\* The second half of shutdown_all: without a TTS worker the thread is done.
LEMMA JobDownsTts ==
  ASSUME HubInv, Serves, NEW m \in Sound, ~HasClient(m, "stt"),
         DownTtsNext(m)
  PROVE  HubInv'
<1>1. m \in Managed /\ Owned(m)
  BY DEF Sound
<1>3. CASE HasClient(m, "tts")
  <2>1. Asks(m, "downTts", Shutdown)
    BY <1>3 DEF DownTtsNext
  <2>2. "downTts" \in Requests \ {"work"} /\ Shutdown \in GoodCmds
    BY CommandFacts DEF Requests
  <2> QED
    BY <2>1, <2>2, JobAsks DEF Asks
<1>4. CASE ~HasClient(m, "tts")
  <2> DEFINE n == [m EXCEPT !.loaded = NewManager.loaded]
  <2>1. /\ SetWorkers(n, {}) /\ job' = [at |-> "exited", cmd |-> NoCmd]
        /\ live' = [r \in Roles |-> NoPid] /\ UNCHANGED told
    BY <1>4 DEF DownTtsNext
  <2>2. m \in Manager /\ NewManager.loaded = [r \in Roles |-> NoModel]
    BY <1>1 DEF Managed, NewManager
  <2>3. n.client = m.client /\ n.procs = m.procs /\ n.loaded = [r \in Roles |-> NoModel]
    BY <2>2 DEF Manager
  <2>4. n \in Manager
    BY <2>2 DEF Manager
  <2> HIDE DEF n
  <2>5. n \in Managed /\ Owned(n)
    BY <1>1, <2>3, <2>4 DEF Managed, Owned
  <2>6. \A r \in Roles : ~HasClient(n, r)
    BY <1>4, <2>3 DEF HasClient, Roles
  <2>7. workers' = n /\ unloadErr' \subseteq Roles
    BY <2>1 DEF SetWorkers, HubInv, HubTypes
  <2>8. job' \in [at : Positions, cmd : GoodCmds] /\ job'.at = "exited"
    BY <2>1, CommandFacts DEF Positions
  <2>9. live' \in [Roles -> Pids \union {NoPid}]
    BY <2>1
  <2>10. HubTypes'
    BY <2>1, <2>5, <2>7, <2>8, <2>9 DEF HubInv, HubTypes, Serves, uiVars
  <2>11. SttDown'
    BY <2>5, <2>6, <2>7, <2>8, NoClientRuns DEF SttDown
  <2>12. Told' /\ StopReachesSynthesis'
    BY <2>8 DEF Told, StopReachesSynthesis, InSynthesis
  <2> QED
    BY <2>5, <2>7, <2>10, <2>11, <2>12 DEF HubInv
<1> QED
  BY <1>3, <1>4

-----------------------------------------------------------------------------
(* The job thread takes a command.                                         *)

\* A thread that takes a command is in no request.
LEMMA TakesFacts ==
  ASSUME HubInv, NEW kind, Takes(kind), disturbances' \in Nat
  PROVE  /\ Serves /\ Head(cmds) \in GoodCmds
         /\ workers \in Sound
         /\ told = workers.loaded
<1> USE DEF Takes
<1>1. cmds \in Seq(GoodCmds) /\ cmds # << >>
  BY DEF HubInv, HubTypes
<1>2. Head(cmds) \in GoodCmds /\ Tail(cmds) \in Seq(GoodCmds)
  BY <1>1
<1>3. workers \in Sound
  BY DEF HubInv, HubTypes, Sound
<1>4. \A r \in Roles : Settled(r)
  BY DEF Settled, Requests
<1>5. told = workers.loaded
  BY DEF HubInv, Told
<1> QED
  BY <1>2, <1>3, <1>4, <1>5 DEF HubInv, SttDown, Serves

\* Whatever is disturbed, disturbances are counted.
LEMMA CountFacts ==
  ASSUME HubInv
  PROVE  /\ Undisturbed => disturbances' \in Nat
         /\ \A d : Disturbed(d) => disturbances' \in Nat
BY DEF HubInv, HubTypes, Undisturbed, Disturbed

\* ensure_worker counts its disturbance.
LEMMA EnsureCounts ==
  ASSUME HubInv, NEW m, NEW r, NEW at, NEW c, EnsureThen(m, r, at, c)
  PROVE  disturbances' \in Nat
BY CountFacts DEF EnsureThen

\* load_timeout.
LEMMA TakeLoadKeeps == ASSUME HubInv, TakeLoad PROVE HubInv'
<1> DEFINE c == Head(cmds)
           r == c.role
<1>1. Takes("Load") /\ disturbances' \in Nat
  BY CountFacts, EnsureCounts DEF TakeLoad
<1>2. /\ Serves /\ c \in GoodCmds
      /\ workers \in Sound
  BY <1>1, TakesFacts
<1>3. r \in Roles
  BY <1>2, GoodCmdFacts
<1>4. CASE Ends(workers)
  BY <1>2, <1>4, JobEnds DEF Ends
<1>5. CASE Asks(workers, "unloadOld", c)
  <2>1. "unloadOld" \in Requests \ {"work"}
    BY DEF Requests
  <2> HIDE DEF c
  <2> QED
    BY <1>2, <1>5, <2>1, JobAsks DEF Asks
<1>6. CASE EnsureThen(workers, r, "load", c)
  <2> HIDE DEF c, r
  <2> QED
    BY <1>2, <1>3, <1>6, JobEnsures
<1> QED
  BY <1>4, <1>5, <1>6 DEF TakeLoad

\* unload.
LEMMA TakeUnloadKeeps == ASSUME HubInv, TakeUnload PROVE HubInv'
<1> DEFINE c == Head(cmds)
           r == c.role
<1>1. Takes("Unload") /\ disturbances' \in Nat
  BY CountFacts DEF TakeUnload
<1>2. /\ Serves /\ c \in GoodCmds
      /\ workers \in Sound
  BY <1>1, TakesFacts
<1>3. r \in Roles
  BY <1>2, GoodCmdFacts
<1>4. CASE HasClient(workers, r)
  <2>1. "unload" \in Requests \ {"work"}
    BY DEF Requests
  <2>2. Asks(workers, "unload", c)
    BY <1>4 DEF TakeUnload
  <2> HIDE DEF c
  <2> QED
    BY <1>2, <2>1, <2>2, JobAsks DEF Asks
<1>5. CASE ~HasClient(workers, r)
  <2> DEFINE n == MarkUnloaded(workers, r)
  <2>1. Ends(n)
    BY <1>5 DEF TakeUnload
  <2> HIDE DEF r
  <2>2. Kept(workers, n, r) /\ n.client = workers.client
    BY <1>2, <1>3, UnmarkKept
  <2> HIDE DEF n
  <2>3. n \in Sound /\ n \in Managed /\ ~HasClient(n, r)
    BY <1>5, <2>2 DEF Kept, Sound, HasClient
  <2> QED
    BY <1>2, <2>1, <2>3, JobEnds DEF Ends
<1> QED
  BY <1>4, <1>5

\* unload_all.
LEMMA TakeUnloadAllKeeps == ASSUME HubInv, TakeUnloadAll PROVE HubInv'
<1> DEFINE c == Head(cmds)
<1>1. Takes("UnloadAll") /\ disturbances' \in Nat
  BY CountFacts DEF TakeUnloadAll
<1>2. /\ Serves /\ c \in GoodCmds
      /\ workers \in Sound
  BY <1>1, TakesFacts
<1>3. CASE HasClient(workers, "stt")
  <2>1. "unloadStt" \in Requests \ {"work"}
    BY DEF Requests
  <2>2. Asks(workers, "unloadStt", c)
    BY <1>3 DEF TakeUnloadAll
  <2> HIDE DEF c
  <2> QED
    BY <1>2, <2>1, <2>2, JobAsks DEF Asks
<1>4. CASE ~HasClient(workers, "stt")
  <2> DEFINE n == MarkUnloaded(workers, "stt")
  <2>1. UnloadTtsNext(n, {}, c)
    BY <1>4 DEF TakeUnloadAll
  <2>2. Kept(workers, n, "stt") /\ n.client = workers.client
    BY <1>2, UnmarkKept, RoleFacts
  <2> HIDE DEF n, c
  <2>3. n \in Sound /\ n \in Managed /\ ~HasClient(n, "stt")
    BY <1>4, <2>2 DEF Kept, Sound, HasClient
  <2> QED
    BY <1>2, <2>1, <2>3, JobUnloadsTts
<1> QED
  BY <1>3, <1>4

\* Transcribe and Synthesize: the pids registered are those of the workers.
LEMMA TakeWorkKeeps == ASSUME HubInv, TakeWork PROVE HubInv'
<1> DEFINE c == Head(cmds)
<1>1. Takes("Work") /\ disturbances' \in Nat
  BY CountFacts DEF TakeWork
<1>2. /\ Serves /\ c \in GoodCmds
      /\ workers \in Sound
      /\ told = workers.loaded
  BY <1>1, TakesFacts
<1>3. UNCHANGED << workers, told, unloadErr >>
  BY DEF TakeWork
<1>4. \/ job' = [at |-> "sync", cmd |-> NoCmd] /\ UNCHANGED live
      \/ job' = [at |-> "work", cmd |-> c] /\ live' = WorkerPids(workers)
  BY DEF TakeWork
<1> HIDE DEF c
<1>5. workers \in Managed /\ Owned(workers)
  BY <1>2 DEF Sound
<1>6. job' \in [at : Positions, cmd : GoodCmds] /\ job'.at \in {"sync", "work"}
  BY <1>2, <1>4, CommandFacts DEF Positions, Requests
<1>7. live' \in [Roles -> Pids \union {NoPid}]
  BY <1>4, <1>5, PostedFacts DEF HubInv, HubTypes
<1>8. HubTypes'
  BY <1>2, <1>3, <1>6, <1>7 DEF HubInv, HubTypes, Serves, uiVars
<1>9. SttDown' /\ Told'
  BY <1>2, <1>3, <1>6 DEF SttDown, Told
<1>10. StopReachesSynthesis'
  <2>1. job'.at = "work" => live' = WorkerPids(workers)
    BY <1>4
  <2> QED
    BY <1>3, <2>1, RoleFacts DEF StopReachesSynthesis, InSynthesis, WorkerPids
<1> QED
  BY <1>3, <1>5, <1>8, <1>9, <1>10 DEF HubInv

\* CancelTtsWorker.
LEMMA TakeCancelTtsWorkerKeeps == ASSUME HubInv, TakeCancelTtsWorker PROVE HubInv'
<1>1. Takes("CancelTtsWorker") /\ disturbances' \in Nat
  BY CountFacts DEF TakeCancelTtsWorker
<1>2. Serves /\ workers \in Sound
  BY <1>1, TakesFacts
<1> DEFINE n == KillWorker(workers, "tts")
<1>3. Kept(workers, n, "tts")
  BY <1>2, KillKept, RoleFacts
<1>4. Ends(n)
  BY DEF TakeCancelTtsWorker
<1> HIDE DEF n
<1>5. n \in Sound
  BY <1>2, <1>3, RoleFacts DEF Kept
<1> QED
  BY <1>2, <1>4, <1>5, JobEnds DEF Ends

\* ListTones.
LEMMA TakeListTonesKeeps == ASSUME HubInv, TakeListTones PROVE HubInv'
<1> DEFINE c == Head(cmds)
<1>1. Takes("ListTones") /\ EnsureThen(workers, "tts", "list", c)
  BY DEF TakeListTones
<1>2. disturbances' \in Nat
  BY <1>1, EnsureCounts
<1>3. /\ Serves /\ c \in GoodCmds
      /\ workers \in Sound
  BY <1>1, <1>2, TakesFacts
<1> HIDE DEF c
<1> QED
  BY <1>1, <1>3, JobEnsures, RoleFacts

\* shutdown_all.
LEMMA TakeShutdownKeeps == ASSUME HubInv, TakeShutdown PROVE HubInv'
<1>1. Takes("Shutdown") /\ disturbances' \in Nat
  BY CountFacts DEF TakeShutdown
<1>2. Serves /\ workers \in Sound
  BY <1>1, TakesFacts
<1>3. CASE HasClient(workers, "stt")
  <2>1. Asks(workers, "downStt", Shutdown)
    BY <1>3 DEF TakeShutdown
  <2>2. "downStt" \in Requests \ {"work"} /\ Shutdown \in GoodCmds
    BY CommandFacts DEF Requests
  <2> QED
    BY <1>2, <2>1, <2>2, JobAsks DEF Asks
<1>4. CASE ~HasClient(workers, "stt")
  <2>1. DownTtsNext(workers)
    BY <1>4 DEF TakeShutdown
  <2> QED
    BY <1>2, <1>4, <2>1, JobDownsTts, RoleFacts
<1> QED
  BY <1>3, <1>4

-----------------------------------------------------------------------------
(* A request is answered.                                                  *)

\* What is known once the answer a of the request is there and n is the manager
\* it leaves.
Answer(a, n) ==
  /\ app # "gone" /\ job.at \in Requests
  /\ a \in Answers
  /\ Possible(workers, RequestRole, a)
  /\ n \in AfterAnswer(workers, RequestRole, RequestCmd, job.cmd.model, a)

\* The manager is sound, the peer and the counts are left alone, and what the
\* worker holds follows from the request and its answer.
LEMMA AnswerFacts ==
  ASSUME HubInv, NEW a, NEW n, Answer(a, n)
  PROVE  /\ job.cmd \in GoodCmds /\ job.cmd.role \in Roles
         /\ job.cmd.model \in ModelsOf(job.cmd.role) \union {NoModel}
         /\ RequestRole \in Roles
         /\ n \in Sound /\ n.loaded = workers.loaded
         /\ n.client[Peer(RequestRole)] = workers.client[Peer(RequestRole)]
         /\ RequestCmd = "load" /\ Running(n, RequestRole) =>
              ProcOf(n, RequestRole).model
                \in IF a = "done" THEN {job.cmd.model} ELSE {NoModel, Adrift}
         /\ RequestCmd = "unload" /\ Running(n, RequestRole) =>
              ProcOf(n, RequestRole).model = NoModel
<1> USE DEF Answer
<1>1. job.cmd \in GoodCmds
  BY DEF HubInv, HubTypes
<1>2. /\ job.cmd.role \in Roles
      /\ job.cmd.model \in ModelsOf(job.cmd.role) \union {NoModel}
      /\ job.cmd.model \in Models \union {NoModel}
  BY <1>1, GoodCmdFacts
<1>3. RequestRole \in Roles
  BY <1>1, RequestFacts
<1> DEFINE r == RequestRole
<1>4. workers \in Sound
  BY DEF HubInv, HubTypes, Sound
<1>5. /\ Kept(workers, n, r) /\ n.loaded = workers.loaded
      /\ n.client[r].pid = workers.client[r].pid
      /\ Running(n, r) =>
           /\ Running(workers, r) /\ a \in LivingAnswers
           /\ ProcOf(n, r).model =
                ModelAfter(RequestCmd, job.cmd.model, a, ProcOf(workers, r).model)
  BY <1>2, <1>3, <1>4, AnswerKept
<1>8. RequestCmd = "load" /\ Running(n, r) =>
        ProcOf(n, r).model \in IF a = "done" THEN {job.cmd.model} ELSE {NoModel, Adrift}
  BY <1>5 DEF ModelAfter
<1>9. RequestCmd = "unload" /\ Running(n, r) => ProcOf(n, r).model = NoModel
  BY <1>5 DEF ModelAfter
<1> HIDE DEF r
<1>10. /\ n \in Sound /\ n.client[Peer(r)] = workers.client[Peer(r)]
  BY <1>5 DEF Kept
<1> QED
  BY <1>1, <1>2, <1>3, <1>5, <1>8, <1>9, <1>10 DEF r

\* An answered request leaves the queue and the handlers of the UI alone.
LEMMA InRequestServes ==
  ASSUME HubInv, NEW at, InRequest(at), disturbances' \in Nat
  PROVE  Serves
BY DEF InRequest, Serves, HubInv, HubTypes

\* The environment's part is counted.
LEMMA OutcomeCounts ==
  ASSUME HubInv, NEW a, Outcome(a)
  PROVE  disturbances' \in Nat
BY CountFacts DEF Outcome

\* The role that refuses to unload is a role.
LEMMA RefusingFacts == ASSUME NEW r \in Roles, NEW a PROVE Refusing(r, a) \in SUBSET Roles
BY DEF Refusing

\* The unload of the model a load replaces.
LEMMA UnloadOldKeeps ==
  ASSUME HubInv, NEW a, NEW n, Answer(a, n), UnloadOldAnswered(a, n)
  PROVE  HubInv'
<1> DEFINE r == job.cmd.role
           u == UnloadAnswered(n, r, a)
<1>1. InRequest("unloadOld") /\ job.at = "unloadOld"
  BY DEF UnloadOldAnswered, InRequest
<1>2. \/ u.ok /\ EnsureThen(u.m, r, "load", job.cmd)
      \/ ~u.ok /\ EndsFailing(u.m, Refusing(r, a)) /\ Outcome(a)
  BY DEF UnloadOldAnswered
<1>3. Serves
  BY <1>1, <1>2, InRequestServes, OutcomeCounts, EnsureCounts
<1>4. RequestRole = r /\ RequestCmd = "unload" /\ r \in Roles
  BY <1>1, AnswerFacts, RequestFacts DEF Answer
<1>5. n \in Sound /\ job.cmd \in GoodCmds
  BY <1>4, AnswerFacts
<1>6. Kept(n, u.m, r)
  BY <1>4, <1>5, AnswerFacts, UnloadAnsweredKept DEF Answer
<1> HIDE DEF u, r
<1>7. u.m \in Sound
  BY <1>4, <1>5, <1>6, RoleFacts DEF Kept
<1>8. Refusing(r, a) \in SUBSET Roles
  BY <1>4, RefusingFacts
<1> QED
  BY <1>2, <1>3, <1>4, <1>5, <1>7, <1>8, JobEnsures, JobEnds

\* The load itself: out of memory it evicts the peer, unless that has none.
LEMMA LoadKeeps ==
  ASSUME HubInv, NEW a, NEW n, Answer(a, n), LoadRequestAnswered(a, n)
  PROVE  HubInv'
<1> DEFINE c == job.cmd
           r == c.role
           s == Peer(r)
<1>1. InRequest("load") /\ job.at = "load" /\ Outcome(a)
  BY DEF LoadRequestAnswered, InRequest
<1>2. Serves
  BY <1>1, InRequestServes, OutcomeCounts
<1>3. RequestRole = r /\ RequestCmd = "load" /\ r \in Roles /\ s \in Roles
  BY <1>1, AnswerFacts, RequestFacts, RoleFacts DEF Answer
<1>4. /\ n \in Sound /\ c \in GoodCmds
      /\ c.model \in ModelsOf(r) \union {NoModel}
      /\ Running(n, r) =>
           ProcOf(n, r).model \in IF a = "done" THEN {c.model} ELSE {NoModel, Adrift}
  BY <1>3, AnswerFacts
<1>5. /\ "evict" \in Requests \ {"work"} /\ "retry" \in Requests \ {"work"}
      /\ {} \in SUBSET Roles
  BY DEF Requests
<1>6. CASE EvictsPeer(n, r, a)
  <2>1. a # "done"
    BY <1>6 DEF EvictsPeer, OomAnswers
  <2>3. CASE HasClient(n, s)
    <3>1. Asks(n, "evict", c)
      BY <1>6, <2>3 DEF LoadRequestAnswered
    <3> HIDE DEF c
    <3> QED
      BY <1>2, <1>4, <1>5, <3>1, JobAsks DEF Asks
  <2>4. CASE ~HasClient(n, s)
    <3> DEFINE k == MarkUnloaded(n, s)
    <3>1. Asks(k, "retry", c)
      BY <1>6, <2>4 DEF LoadRequestAnswered
    <3>2. Kept(n, k, s) /\ k.client = n.client
      BY <1>3, <1>4, UnmarkKept
    <3> HIDE DEF k
    <3>3. k \in Sound /\ k \in Managed /\ ~HasClient(k, s)
      BY <2>4, <3>2 DEF Kept, Sound, HasClient
    <3> HIDE DEF c
    <3> QED
      BY <1>2, <1>4, <1>5, <3>1, <3>3, JobAsks DEF Asks
  <2> QED
    BY <2>3, <2>4
<1>7. CASE ~EvictsPeer(n, r, a)
  <2> DEFINE k == LoadAnswered(n, r, c.model, a)
  <2>1. Ends(k)
    BY <1>7 DEF LoadRequestAnswered
  <2>2. Kept(n, k, r)
    BY <1>3, <1>4, LoadAnsweredKept DEF Answer
  <2> HIDE DEF k
  <2>3. k \in Sound
    BY <1>3, <1>4, <2>2, RoleFacts DEF Kept
  <2> QED
    BY <1>2, <1>5, <2>1, <2>3, JobEnds DEF Ends
<1> QED
  BY <1>6, <1>7

\* The unload of the evicted peer.
LEMMA EvictKeeps ==
  ASSUME HubInv, NEW a, NEW n, Answer(a, n), EvictAnswered(a, n)
  PROVE  HubInv'
<1> DEFINE r == RequestRole
           u == UnloadAnswered(n, r, a)
           c == job.cmd
<1>1. InRequest("evict") /\ job.at = "evict" /\ Outcome(a)
  BY DEF EvictAnswered, InRequest
<1>2. Serves
  BY <1>1, InRequestServes, OutcomeCounts
<1>3. \/ u.ok /\ Asks(u.m, "retry", c)
      \/ ~u.ok /\ EndsFailing(u.m, Refusing(r, a))
  BY DEF EvictAnswered
<1>4. RequestCmd = "unload" /\ r \in Roles /\ c \in GoodCmds
  BY <1>1, AnswerFacts, RequestFacts DEF Answer
<1>5. n \in Sound
  BY AnswerFacts
<1>6. Kept(n, u.m, r)
  BY <1>4, <1>5, AnswerFacts, UnloadAnsweredKept DEF Answer
<1> HIDE DEF u, r, c
<1>7. u.m \in Sound
  BY <1>4, <1>5, <1>6, RoleFacts DEF Kept
<1>8. Refusing(r, a) \in SUBSET Roles /\ {} \in SUBSET Roles
  BY <1>4, RefusingFacts
<1>9. "retry" \in Requests \ {"work"} /\ "retry" # "downTts"
  BY DEF Requests
<1> QED
  BY <1>2, <1>3, <1>4, <1>7, <1>8, <1>9, JobAsks, JobEnds DEF Asks

\* The second try.
LEMMA RetryKeeps ==
  ASSUME HubInv, NEW a, NEW n, Answer(a, n), RetryAnswered(a, n)
  PROVE  HubInv'
<1> DEFINE r == job.cmd.role
           x == job.cmd.model
           k == IF a = "done" THEN MarkLoaded(n, r, x) ELSE n
<1>1. InRequest("retry") /\ job.at = "retry" /\ Outcome(a) /\ Ends(k)
  BY DEF RetryAnswered, InRequest
<1>2. Serves
  BY <1>1, InRequestServes, OutcomeCounts
<1>3. RequestRole = r /\ RequestCmd = "load" /\ r \in Roles
  BY <1>1, AnswerFacts, RequestFacts DEF Answer
<1>4. /\ n \in Sound
      /\ x \in ModelsOf(r) \union {NoModel}
      /\ Running(n, r) =>
           ProcOf(n, r).model \in IF a = "done" THEN {x} ELSE {NoModel, Adrift}
  BY <1>3, AnswerFacts
<1> HIDE DEF r, x
<1>5. Kept(n, k, r)
  <2>1. CASE a = "done"
    <3> DEFINE j == MarkLoaded(n, r, x)
    <3>1. Kept(n, j, r) /\ j.loaded[r] = x /\ j.client = n.client /\ j.procs = n.procs
      BY <1>3, <1>4, MarkKept
    <3> HIDE DEF j
    <3> QED
      BY <2>1, <3>1 DEF j
  <2>2. CASE a # "done"
    <3>1. Kept(n, n, r)
      BY <1>4, <2>2 DEF Kept
    <3> QED
      BY <2>2, <3>1
  <2> QED
    BY <2>1, <2>2
<1> HIDE DEF k
<1>6. k \in Sound
  BY <1>3, <1>4, <1>5, RoleFacts DEF Kept
<1> QED
  BY <1>1, <1>2, <1>6, JobEnds DEF Ends

\* The unload of one role.
LEMMA UnloadRequestKeeps ==
  ASSUME HubInv, NEW a, NEW n, Answer(a, n), UnloadRequestAnswered(a, n)
  PROVE  HubInv'
<1> DEFINE r == job.cmd.role
           k == UnloadAnswered(n, r, a).m
<1>1. /\ InRequest("unload") /\ job.at = "unload" /\ Outcome(a)
      /\ EndsFailing(k, Refusing(r, a))
  BY DEF UnloadRequestAnswered, InRequest
<1>2. Serves
  BY <1>1, InRequestServes, OutcomeCounts
<1>3. RequestRole = r /\ RequestCmd = "unload" /\ r \in Roles
  BY <1>1, AnswerFacts, RequestFacts DEF Answer
<1>4. n \in Sound
  BY <1>3, AnswerFacts
<1>5. Kept(n, k, r)
  BY <1>3, <1>4, AnswerFacts, UnloadAnsweredKept DEF Answer
<1> HIDE DEF k, r
<1>6. k \in Sound
  BY <1>3, <1>4, <1>5, RoleFacts DEF Kept
<1>7. Refusing(r, a) \in SUBSET Roles
  BY <1>3, RefusingFacts
<1> QED
  BY <1>1, <1>2, <1>6, <1>7, JobEnds

\* The two unloads of unload_all.
LEMMA UnloadAllKeeps ==
  ASSUME HubInv, NEW a, NEW n, Answer(a, n), UnloadAllAnswered(a, n)
  PROVE  HubInv'
<1>1. disturbances' \in Nat
  BY OutcomeCounts DEF UnloadAllAnswered
<1>2. ASSUME NEW at \in {"unloadStt", "unloadTts"}, InRequest(at)
      PROVE  LET k == UnloadAnswered(n, RequestRole, a).m
             IN  /\ k \in Sound
                 /\ Refusing(RequestRole, a) \in SUBSET Roles
  <2> DEFINE r == RequestRole
             k == UnloadAnswered(n, r, a).m
  <2>1. job.at = at
    BY <1>2 DEF InRequest
  <2>2. RequestCmd = "unload" /\ r \in Roles
    BY <2>1, AnswerFacts, RequestFacts DEF Answer
  <2>3. n \in Sound
    BY AnswerFacts
  <2>4. Kept(n, k, r)
    BY <2>2, <2>3, AnswerFacts, UnloadAnsweredKept DEF Answer
  <2> HIDE DEF k, r
  <2>5. k \in Sound
    BY <2>2, <2>3, <2>4, RoleFacts DEF Kept
  <2> QED
    BY <2>2, <2>5, RefusingFacts DEF k, r
<1>3. CASE /\ InRequest("unloadStt")
           /\ UnloadTtsNext(UnloadAnswered(n, "stt", a).m, Refusing("stt", a), job.cmd)
  <2>1. RequestRole = "stt" /\ job.cmd \in GoodCmds
    BY <1>3, AnswerFacts, RequestFacts DEF InRequest, Answer
  <2>2. Serves
    BY <1>1, <1>3, InRequestServes
  <2> DEFINE k == UnloadAnswered(n, "stt", a).m
  <2>3. k \in Sound /\ Refusing("stt", a) \in SUBSET Roles
    BY <1>2, <1>3, <2>1
  <2>4. UnloadTtsNext(k, Refusing("stt", a), job.cmd)
    BY <1>3
  <2> HIDE DEF k
  <2> QED
    BY <2>1, <2>2, <2>3, <2>4, JobUnloadsTts
<1>4. CASE InRequest("unloadTts") /\ EndsFailing(UnloadAnswered(n, "tts", a).m, Refusing("tts", a))
  <2>1. RequestRole = "tts"
    BY <1>4, AnswerFacts, RequestFacts DEF InRequest, Answer
  <2>2. Serves
    BY <1>1, <1>4, InRequestServes
  <2> DEFINE k == UnloadAnswered(n, "tts", a).m
  <2>3. k \in Sound /\ Refusing("tts", a) \in SUBSET Roles
    BY <1>2, <1>4, <2>1
  <2>4. EndsFailing(k, Refusing("tts", a))
    BY <1>4
  <2> HIDE DEF k
  <2> QED
    BY <2>2, <2>3, <2>4, JobEnds
<1> QED
  BY <1>3, <1>4 DEF UnloadAllAnswered

\* A transcription or a synthesis: a failure that costs the worker its life is
\* posted.
LEMMA WorkKeeps ==
  ASSUME HubInv, NEW a, NEW n, Answer(a, n), WorkAnswered(a, n)
  PROVE  HubInv'
<1> DEFINE r == job.cmd.role
           k == IF WorkKills(r, a) THEN KillWorker(n, r) ELSE n
<1>1. /\ InRequest("work") /\ job.at = "work" /\ Outcome(a)
      /\ SetWorkers(k, {}) /\ live' = WorkerPids(k)
      /\ job' = [at |-> "sync", cmd |-> NoCmd]
      /\ told' = IF a = "done" THEN told ELSE k.loaded
  BY DEF WorkAnswered, InRequest
<1>2. Serves
  BY <1>1, InRequestServes, OutcomeCounts
<1>3. RequestRole = r /\ RequestCmd = "other" /\ r \in Roles
  BY <1>1, AnswerFacts, RequestFacts DEF Answer
<1>4. n \in Sound /\ n.loaded = workers.loaded
  BY <1>3, AnswerFacts
<1>5. told = workers.loaded
  BY <1>1 DEF HubInv, Told
<1> HIDE DEF r
<1>6. Kept(n, k, r)
  <2>1. CASE WorkKills(r, a)
    BY <1>3, <1>4, <2>1, KillKept
  <2>2. CASE ~WorkKills(r, a)
    BY <1>4, <2>2 DEF Kept
  <2> QED
    BY <2>1, <2>2
<1>7. told' = k.loaded
  <2>1. CASE a = "done"
    <3>1. ~WorkKills(r, a)
      BY <2>1 DEF WorkKills, UnreadAnswers
    <3> QED
      BY <1>1, <1>4, <1>5, <2>1, <3>1
  <2>2. CASE a # "done"
    BY <1>1, <2>2
  <2> QED
    BY <2>1, <2>2
<1> HIDE DEF k
<1>8. k \in Sound
  BY <1>3, <1>4, <1>6, RoleFacts DEF Kept
<1>9. EndsFailing(k, {}) /\ {} \in SUBSET Roles
  BY <1>1, <1>7 DEF EndsFailing
<1> QED
  BY <1>2, <1>8, <1>9, JobEnds

\* The tones of the TTS worker.
LEMMA ListKeeps ==
  ASSUME HubInv, NEW a, NEW n, Answer(a, n), ListAnswered(a, n)
  PROVE  HubInv'
<1>1. InRequest("list") /\ job.at = "list" /\ Outcome(a) /\ Ends(n)
  BY DEF ListAnswered, InRequest
<1>2. Serves
  BY <1>1, InRequestServes, OutcomeCounts
<1>3. RequestCmd = "other" /\ RequestRole \in Roles
  BY <1>1, AnswerFacts, RequestFacts DEF Answer
<1>4. n \in Sound
  BY <1>3, AnswerFacts, RoleFacts
<1> QED
  BY <1>1, <1>2, <1>4, JobEnds DEF Ends

\* The workers go down, the STT worker first.
LEMMA DownKeeps ==
  ASSUME HubInv, NEW a, NEW n, Answer(a, n), DownAnswered(a, n)
  PROVE  HubInv'
<1>1. disturbances' \in Nat
  BY OutcomeCounts DEF DownAnswered
<1>2. CASE InRequest("downStt") /\ DownTtsNext(ShutDown(n, "stt"))
  <2> DEFINE k == ShutDown(n, "stt")
  <2>1. Serves /\ job.at = "downStt"
    BY <1>1, <1>2, InRequestServes DEF InRequest
  <2>2. RequestRole = "stt" /\ RequestCmd = "other"
    BY <2>1, AnswerFacts, RequestFacts DEF Answer
  <2>3. n \in Sound
    BY <2>2, AnswerFacts, RoleFacts
  <2>4. Kept(n, k, "stt") /\ ~HasClient(k, "stt")
    BY <2>3, ShutDownKept, RoleFacts
  <2>5. DownTtsNext(k)
    BY <1>2
  <2> HIDE DEF k
  <2>6. k \in Sound
    BY <2>3, <2>4, RoleFacts DEF Kept
  <2> QED
    BY <2>1, <2>4, <2>5, <2>6, JobDownsTts
<1>3. CASE InRequest("downTts") /\ DownTtsNext(ShutDown(n, "tts"))
  <2> DEFINE k == ShutDown(n, "tts")
  <2>1. Serves /\ job.at = "downTts"
    BY <1>1, <1>3, InRequestServes DEF InRequest
  <2>2. RequestRole = "tts" /\ RequestCmd = "other"
    BY <2>1, AnswerFacts, RequestFacts DEF Answer
  <2>3. n \in Sound /\ n.client["stt"] = workers.client["stt"]
    BY <2>2, AnswerFacts, RoleFacts
  <2>4. ~HasClient(n, "stt")
    BY <2>1, <2>3 DEF HubInv, SttDown, HasClient
  <2>5. Kept(n, k, "tts")
    BY <2>3, ShutDownKept, RoleFacts
  <2>6. DownTtsNext(k)
    BY <1>3
  <2> HIDE DEF k
  <2>7. k \in Sound /\ ~HasClient(k, "stt")
    BY <2>4, <2>5, RoleFacts DEF Kept, HasClient
  <2> QED
    BY <2>1, <2>5, <2>6, <2>7, JobDownsTts
<1> QED
  BY <1>2, <1>3 DEF DownAnswered

\* Any answer.
LEMMA AnsweredKeeps ==
  ASSUME HubInv, NEW a \in Answers, Answered(a)
  PROVE  HubInv'
<1>1. PICK n \in AfterAnswer(workers, RequestRole, RequestCmd, job.cmd.model, a) :
        \/ UnloadOldAnswered(a, n) \/ LoadRequestAnswered(a, n)
        \/ EvictAnswered(a, n) \/ RetryAnswered(a, n)
        \/ UnloadRequestAnswered(a, n) \/ UnloadAllAnswered(a, n)
        \/ WorkAnswered(a, n) \/ ListAnswered(a, n) \/ DownAnswered(a, n)
  BY DEF Answered
<1>2. Answer(a, n)
  BY DEF Answered, Answer
<1> QED
  BY <1>1, <1>2, UnloadOldKeeps, LoadKeeps, EvictKeeps, RetryKeeps, UnloadRequestKeeps,
     UnloadAllKeeps, WorkKeeps, ListKeeps, DownKeeps

-----------------------------------------------------------------------------
(* The UI thread and the processes.                                        *)

\* From manager m to n process p went to state st: what a client may rely on.
ProcLost(m, n, p, st) ==
  /\ n \in Managed /\ n.client = m.client /\ n.loaded = m.loaded
  /\ \A r \in Roles : Running(n, r) => Running(m, r)
  /\ ~Running(n, "tts") \/ m.client["tts"].pid # p
  /\ Owned(m) /\ (m.procs[p].st \in {"running", "zombie"} => st = "zombie") => Owned(n)

\* A process ends, or a pid that none of ours holds changes hands.
LEMMA ProcKept ==
  ASSUME NEW m \in Managed, NEW p \in Pids, NEW st \in {"zombie", "free", "foreign"}
  PROVE  ProcLost(m, [m EXCEPT !.procs[p] = InState(st)], p, st)
<1> DEFINE q == InState(st)
           n == [m EXCEPT !.procs[p] = q]
<1>1. q \in Process /\ q.st = st
  BY DEF InState, Process
<1> HIDE DEF q
<1>2. /\ n \in Managed /\ n.client = m.client /\ n.loaded = m.loaded
      /\ n.procs[p] = q /\ \A o \in Pids \ {p} : n.procs[o] = m.procs[o]
  BY <1>1, SetProcManaged
<1> HIDE DEF n
<1>3. \A r \in Roles : m.client[r].live => m.client[r].pid \in Pids
  BY ManagerFacts
<1>5. \A r \in Roles : Running(n, r) => Running(m, r)
  BY <1>1, <1>2, <1>3 DEF Running, ProcOf
<1>6. ~Running(n, "tts") \/ m.client["tts"].pid # p
  BY <1>1, <1>2 DEF Running, ProcOf
<1>7. ASSUME Owned(m), m.procs[p].st \in {"running", "zombie"} => st = "zombie"
      PROVE  Owned(n)
  <2>1. ASSUME NEW o \in Pids, n.procs[o].st = "running"
        PROVE  \E r \in Roles : n.client[r] = [pid |-> o, live |-> TRUE]
    <3>1. m.procs[o].st = "running"
      BY <1>1, <1>2, <2>1
    <3>2. \E r \in Roles : m.client[r] = [pid |-> o, live |-> TRUE]
      BY <1>7, <3>1 DEF Owned
    <3> QED
      BY <1>2, <3>2
  <2>2. ASSUME NEW r \in Roles, n.client[r].live
        PROVE  /\ n.client[Peer(r)] # n.client[r]
               /\ n.procs[n.client[r].pid].st \in {"running", "zombie"}
    <3>1. /\ m.client[Peer(r)] # m.client[r]
          /\ m.procs[m.client[r].pid].st \in {"running", "zombie"}
      BY <1>2, <1>7, <2>2 DEF Owned
    <3> QED
      BY <1>1, <1>2, <1>3, <1>7, <2>2, <3>1
  <2> QED
    BY <2>1, <2>2 DEF Owned
<1> QED
  BY <1>2, <1>5, <1>6, <1>7 DEF ProcLost, n, q

\* A step that changes only the processes keeps the invariant if it takes from
\* no client a process the application has not lost.
LEMMA ProcsKeep ==
  ASSUME HubInv, NEW p \in Pids, NEW st \in {"zombie", "free", "foreign"},
         workers' = [workers EXCEPT !.procs[p] = InState(st)],
         app # "gone" /\ workers.procs[p].st \in {"running", "zombie"} => st = "zombie",
         UNCHANGED << live, job, cmds, told, app, unloadErr, userActions >>,
         uiTodo' \in Seq(GoodSteps), foreignHit' \in BOOLEAN, disturbances' \in Nat,
         uiTodo' = uiTodo \/ \A q : Head(uiTodo) = Signal(q) => q = p
  PROVE  HubInv'
<1>1. workers \in Managed
  BY DEF HubInv, HubTypes
<1>2. /\ workers' \in Managed /\ workers'.client = workers.client
      /\ workers'.loaded = workers.loaded
      /\ \A r \in Roles : Running(workers', r) => Running(workers, r)
      /\ ~Running(workers', "tts") \/ workers.client["tts"].pid # p
      /\ app # "gone" => Owned(workers')
  <2> DEFINE n == [workers EXCEPT !.procs[p] = InState(st)]
  <2>1. ProcLost(workers, n, p, st)
    BY <1>1, ProcKept
  <2>2. workers' = n
    OBVIOUS
  <2>3. app # "gone" => Owned(workers)
    BY DEF HubInv
  <2> HIDE DEF n
  <2>4. Owned(workers) /\ (workers.procs[p].st \in {"running", "zombie"} => st = "zombie") =>
          Owned(n)
    BY <2>1 DEF ProcLost
  <2>5. /\ n \in Managed /\ n.client = workers.client /\ n.loaded = workers.loaded
        /\ \A r \in Roles : Running(n, r) => Running(workers, r)
        /\ ~Running(n, "tts") \/ workers.client["tts"].pid # p
    BY <2>1 DEF ProcLost
  <2> QED
    BY <2>2, <2>3, <2>4, <2>5
<1>3. HubTypes'
  BY <1>2 DEF HubInv, HubTypes
<1>4. \A r \in Roles : Settled(r)' => Settled(r)
  BY DEF Settled, RequestRole, RequestCmd
<1>5. SttDown'
  BY <1>2, <1>4 DEF HubInv, SttDown, HasClient
<1>6. Told'
  BY <1>2 DEF HubInv, Told
<1>7. StopReachesSynthesis'
  <2> SUFFICES ASSUME InSynthesis, Running(workers', "tts"), app # "gone"
               PROVE  LET q == workers'.client["tts"].pid
                      IN  live["tts"] = q \/ (uiTodo' # << >> /\ Head(uiTodo') = Signal(q))
    BY DEF StopReachesSynthesis, InSynthesis
  <2> DEFINE q == workers.client["tts"].pid
  <2>1. q # p /\ Running(workers, "tts")
    BY <1>2, RoleFacts
  <2>2. live["tts"] = q \/ (uiTodo # << >> /\ Head(uiTodo) = Signal(q))
    BY <2>1 DEF HubInv, StopReachesSynthesis
  <2>3. uiTodo' = uiTodo \/ Head(uiTodo) # Signal(q)
    BY <2>1
  <2> QED
    BY <1>2, <2>2, <2>3
<1> QED
  BY <1>2, <1>3, <1>5, <1>6, <1>7 DEF HubInv

\* The same with nothing killed.
LEMMA QuietKeep ==
  ASSUME HubInv, UNCHANGED << workers, job, told, unloadErr, disturbances >>,
         live' \in [Roles -> Pids \union {NoPid}], cmds' \in Seq(GoodCmds),
         uiTodo' \in Seq(GoodSteps), app' \in {"up", "quitting", "gone"},
         app = "gone" => app' = "gone",
         foreignHit' \in BOOLEAN, userActions' \in Nat,
         StopReachesSynthesis'
  PROVE  HubInv'
<1>1. HubTypes'
  BY DEF HubInv, HubTypes
<1>2. SttDown' /\ Told'
  BY DEF HubInv, SttDown, Told, Settled, RequestRole, RequestCmd
<1> QED
  BY <1>1, <1>2 DEF HubInv

\* A handler starts when none runs: its steps take no pid yet.
LEMMA HandlesKeeps ==
  ASSUME HubInv, NEW h, NEW steps \in Seq(GoodSteps), Handles(h, steps),
         app' \in {"up", "quitting"}
  PROVE  HubInv'
<1> USE DEF Handles
<1>1. StopReachesSynthesis'
  BY DEF HubInv, StopReachesSynthesis, InSynthesis, Running, ProcOf
<1>2. userActions' \in Nat
  BY DEF HubInv, HubTypes
<1>3. /\ live' \in [Roles -> Pids \union {NoPid}] /\ cmds' \in Seq(GoodCmds)
      /\ foreignHit' \in BOOLEAN
  BY DEF HubInv, HubTypes
<1> QED
  BY <1>1, <1>2, <1>3, QuietKeep

\* The handlers.
LEMMA UiHandlerKeeps == ASSUME HubInv, UiHandler PROVE HubInv'
<1> USE CommandFacts, RoleFacts
<1>1. \A c \in GoodCmds : << Send(c) >> \in Seq(GoodSteps)
  OBVIOUS
<1>2. KillAllNow \in Seq(GoodSteps)
  BY DEF KillAllNow
<1>3. << Swap("tts"), Send(CancelTtsWorker) >> \in Seq(GoodSteps)
  OBVIOUS
<1>4. << Send(UnloadAllCmd), Send(Shutdown) >> \in Seq(GoodSteps)
  OBVIOUS
<1>5. << Send(UnloadAllCmd), Send(Shutdown), Exit >> \in Seq(GoodSteps)
  OBVIOUS
<1>6. ASSUME NEW h, NEW steps \in Seq(GoodSteps), Handles(h, steps), UNCHANGED app
      PROVE  HubInv'
  BY <1>6, HandlesKeeps DEF Handles
<1>7. ASSUME NEW r \in Roles, NEW x \in ModelsOf(r), LoadModel(r, x) PROVE HubInv'
  BY <1>1, <1>6, <1>7 DEF LoadModel
<1>8. ASSUME NEW r \in Roles, UnloadModel(r) PROVE HubInv'
  BY <1>1, <1>6, <1>8 DEF UnloadModel
<1>9. ASSUME NEW r \in Roles, StartWork(r) PROVE HubInv'
  BY <1>1, <1>6, <1>9 DEF StartWork
<1>10. ASSUME StopSpeech PROVE HubInv'
  BY <1>3, <1>6, <1>10 DEF StopSpeech
<1>11. ASSUME NEW f \in BOOLEAN, UnloadAllModels(f) PROVE HubInv'
  <2> DEFINE first == IF f THEN << Swap("tts"), Send(CancelTtsWorker) >> ELSE << >>
             steps == first \o KillAllNow \o << Send(UnloadAllCmd) >>
  <2>1. first \in Seq(GoodSteps)
    BY <1>3
  <2> HIDE DEF first
  <2>2. first \o KillAllNow \in Seq(GoodSteps)
    BY <1>2, <2>1
  <2>3. steps \in Seq(GoodSteps)
    BY <1>1, <2>2
  <2>4. Handles("unloadAll", steps) /\ UNCHANGED app
    BY <1>11 DEF UnloadAllModels, first
  <2> HIDE DEF steps
  <2> QED
    BY <1>6, <2>3, <2>4
<1>12. ASSUME Quit PROVE HubInv'
  <2> DEFINE head == KillAllNow \o << Send(UnloadAllCmd), Send(Shutdown) >>
             steps == head \o KillAllNow \o << Send(UnloadAllCmd), Send(Shutdown), Exit >>
  <2>1. head \in Seq(GoodSteps)
    BY <1>2, <1>4
  <2>2. Handles("quit", steps) /\ app' = "quitting"
    BY <1>12 DEF Quit
  <2> HIDE DEF head
  <2>3. head \o KillAllNow \in Seq(GoodSteps)
    BY <1>2, <2>1
  <2>4. steps \in Seq(GoodSteps)
    BY <1>5, <2>3
  <2> HIDE DEF steps
  <2> QED
    BY <2>2, <2>4, HandlesKeeps
<1> QED
  BY <1>7, <1>8, <1>9, <1>10, <1>11, <1>12 DEF UiHandler

\* The steps of a handler.
LEMMA UiStepKeeps == ASSUME HubInv, UiStep PROVE HubInv'
<1> DEFINE s == Head(uiTodo)
<1>1. /\ uiTodo \in Seq(GoodSteps) /\ live \in [Roles -> Pids \union {NoPid}]
      /\ cmds \in Seq(GoodCmds) /\ foreignHit \in BOOLEAN /\ app \in {"up", "quitting", "gone"}
      /\ userActions \in Nat /\ disturbances \in Nat /\ workers \in Managed
  BY DEF HubInv, HubTypes
<1>2. ASSUME uiTodo # << >>
      PROVE  s \in GoodSteps /\ Tail(uiTodo) \in Seq(GoodSteps)
  BY <1>1, <1>2
<1>3. \A x \in GoodSteps : /\ x.role \in Roles /\ x.cmd \in GoodCmds
                           /\ x.step = "signal" => x.pid \in Pids
  BY DEF GoodSteps, UiSteps
<1>4. ASSUME NEW step \in {"swap", "send", "exit"}, UiTakes(step), InSynthesis,
             Running(workers, "tts"), app # "gone"
      PROVE  live["tts"] = workers.client["tts"].pid
  <2>1. uiTodo # << >> /\ s.step # "signal"
    BY <1>4 DEF UiTakes
  <2>2. \A p : Signal(p).step = "signal"
    BY DEF Signal
  <2> QED
    BY <1>4, <2>1, <2>2 DEF HubInv, StopReachesSynthesis
<1>5. CASE SwapPid
  <2>1. UiTakes("swap") /\ uiTodo # << >>
    BY <1>5 DEF SwapPid, UiTakes
  <2> DEFINE r == s.role
             p == live[r]
  <2>2. r \in Roles /\ p \in Pids \union {NoPid}
    BY <1>1, <1>2, <1>3, <2>1
  <2>3. /\ live' = [live EXCEPT ![r] = NoPid]
        /\ uiTodo' = IF p = NoPid THEN Tail(uiTodo) ELSE << Signal(p) >> \o Tail(uiTodo)
        /\ UNCHANGED << workers, job, cmds, app, foreignHit >>
    BY <1>5 DEF SwapPid
  <2> HIDE DEF s, r
  <2>4. live' \in [Roles -> Pids \union {NoPid}]
    BY <1>1, <2>2, <2>3
  <2>5. p # NoPid => /\ << Signal(p) >> \o Tail(uiTodo) \in Seq(GoodSteps)
                     /\ << Signal(p) >> \o Tail(uiTodo) # << >>
                     /\ Head(<< Signal(p) >> \o Tail(uiTodo)) = Signal(p)
    <3> SUFFICES ASSUME p # NoPid
                 PROVE  /\ << Signal(p) >> \o Tail(uiTodo) \in Seq(GoodSteps)
                        /\ << Signal(p) >> \o Tail(uiTodo) # << >>
                        /\ Head(<< Signal(p) >> \o Tail(uiTodo)) = Signal(p)
      OBVIOUS
    <3>1. Signal(p) \in GoodSteps
      BY <2>2, CommandFacts
    <3> DEFINE x == Signal(p)
               t == Tail(uiTodo)
    <3> HIDE DEF x
    <3>2. x \in GoodSteps /\ t \in Seq(GoodSteps)
      BY <1>2, <2>1, <3>1 DEF x
    <3> HIDE DEF t
    <3>3. << x >> \o t \in Seq(GoodSteps) /\ << x >> \o t # << >> /\ Head(<< x >> \o t) = x
      BY <3>2
    <3> QED
      BY <3>3 DEF x, t
  <2>6. uiTodo' \in Seq(GoodSteps)
    BY <1>2, <2>1, <2>3, <2>5
  <2>7. StopReachesSynthesis'
    <3> SUFFICES ASSUME InSynthesis, Running(workers, "tts"), app # "gone"
                 PROVE  LET q == workers.client["tts"].pid
                        IN  live'["tts"] = q \/ (uiTodo' # << >> /\ Head(uiTodo') = Signal(q))
      BY <2>3 DEF StopReachesSynthesis, InSynthesis
    <3> DEFINE q == workers.client["tts"].pid
    <3>1. live["tts"] = q
      BY <1>4, <2>1
    <3>2. q \in Pids /\ q # NoPid
      <4>1. workers.client["tts"].live
        BY DEF Running
      <4>2. q \in Pids
        BY <1>1, <4>1, ManagerFacts, RoleFacts
      <4> QED
        BY <4>2, PidAssumption
    <3> HIDE DEF q
    <3>3. CASE r = "tts"
      <4>1. p = q /\ p # NoPid
        BY <3>1, <3>2, <3>3
      <4>2. uiTodo' = << Signal(p) >> \o Tail(uiTodo)
        BY <2>3, <4>1
      <4> HIDE DEF p
      <4> QED
        BY <2>5, <4>1, <4>2 DEF q
    <3>4. CASE r # "tts"
      <4>1. live'["tts"] = live["tts"]
        BY <1>1, <2>3, <3>4, RoleFacts
      <4> QED
        BY <3>1, <4>1 DEF q
    <3> QED
      BY <3>3, <3>4
  <2>8. UNCHANGED << told, unloadErr, userActions, disturbances >>
    BY <2>1 DEF UiTakes
  <2> QED
    BY <1>1, <2>3, <2>4, <2>6, <2>7, <2>8, QuietKeep
<1>6. CASE SignalPid
  <2>1. UiTakes("signal") /\ uiTodo # << >> /\ s.step = "signal"
    BY <1>6 DEF SignalPid, UiTakes
  <2> DEFINE p == s.pid
  <2>2. p \in Pids /\ Tail(uiTodo) \in Seq(GoodSteps)
    BY <1>2, <1>3, <2>1
  <2>3. /\ workers' = Sigkill(workers, p)
        /\ foreignHit' = (foreignHit \/ workers.procs[p].st = "foreign")
        /\ uiTodo' = Tail(uiTodo)
        /\ UNCHANGED << live, job, cmds, app, told, unloadErr, userActions, disturbances >>
    BY <1>6, <2>1 DEF SignalPid, UiTakes
  <2>4. foreignHit' \in BOOLEAN
    BY <2>3, <1>1
  <2>5. \A q : s = Signal(q) => q = p
    BY DEF Signal
  <2>6. ASSUME workers.procs[p].st \in {"running", "foreign"} PROVE HubInv'
    <3> DEFINE st == IF workers.procs[p].st = "running" THEN "zombie" ELSE "free"
    <3>1. workers' = [workers EXCEPT !.procs[p] = InState(st)]
      BY <2>3, <2>6 DEF Sigkill
    <3>2. workers.procs[p].st \in {"running", "zombie"} => st = "zombie"
      BY <2>6
    <3>3. st \in {"zombie", "free", "foreign"}
      OBVIOUS
    <3> HIDE DEF st, p
    <3> QED
      BY <1>1, <2>2, <2>3, <2>4, <2>5, <3>1, <3>2, <3>3, ProcsKeep
  <2>7. ASSUME workers.procs[p].st \notin {"running", "foreign"} PROVE HubInv'
    <3>1. workers' = workers
      BY <2>3, <2>7 DEF Sigkill
    <3>2. StopReachesSynthesis'
      <4> SUFFICES ASSUME InSynthesis, Running(workers, "tts"), app # "gone"
                   PROVE  live["tts"] = workers.client["tts"].pid
        BY <2>3, <3>1 DEF StopReachesSynthesis, InSynthesis
      <4>1. workers.client["tts"].pid # p
        BY <2>7 DEF Running, ProcOf
      <4> QED
        BY <2>5, <4>1 DEF HubInv, StopReachesSynthesis
    <3> HIDE DEF s
    <3> QED
      BY <1>1, <2>2, <2>3, <2>4, <3>1, <3>2, QuietKeep
  <2> QED
    BY <2>6, <2>7
<1>7. CASE SendCmd
  <2>1. UiTakes("send") /\ uiTodo # << >>
    BY <1>7 DEF SendCmd, UiTakes
  <2>2. s.cmd \in GoodCmds /\ Tail(uiTodo) \in Seq(GoodSteps)
    BY <1>2, <1>3, <2>1
  <2>3. /\ cmds' = Append(cmds, s.cmd) /\ uiTodo' = Tail(uiTodo)
        /\ UNCHANGED << workers, live, job, app, foreignHit >>
        /\ UNCHANGED << told, unloadErr, userActions, disturbances >>
    BY <1>7, <2>1 DEF SendCmd, UiTakes
  <2>4. cmds' \in Seq(GoodCmds)
    BY <1>1, <2>2, <2>3
  <2>5. StopReachesSynthesis'
    BY <1>4, <2>1, <2>3 DEF StopReachesSynthesis, InSynthesis
  <2> QED
    BY <1>1, <2>2, <2>3, <2>4, <2>5, QuietKeep
<1>8. CASE ExitApp
  <2>1. /\ uiTodo' = << >> /\ app' = "gone"
        /\ UNCHANGED << workers, live, job, cmds, foreignHit >>
        /\ UNCHANGED << told, unloadErr, userActions, disturbances >>
    BY <1>8 DEF ExitApp, UiTakes
  <2>2. StopReachesSynthesis'
    BY <2>1 DEF StopReachesSynthesis
  <2>3. << >> \in Seq(GoodSteps)
    OBVIOUS
  <2> QED
    BY <1>1, <2>1, <2>2, <2>3, QuietKeep
<1> QED
  BY <1>5, <1>6, <1>7, <1>8 DEF UiStep

\* The processes.
LEMMA EnvironmentKeeps == ASSUME HubInv, Environment PROVE HubInv'
<1>1. PICK p \in Pids : \/ WorkerDies(p) \/ PidReused(p)
                        \/ ForeignEnds(p) \/ WorkerSeesEof(p)
  BY DEF Environment
<1>2. uiTodo \in Seq(GoodSteps) /\ foreignHit \in BOOLEAN
  BY DEF HubInv, HubTypes
<1>3. ASSUME NEW st \in {"zombie", "free", "foreign"}, SetProc(p, st), disturbances' \in Nat,
             app # "gone" /\ workers.procs[p].st \in {"running", "zombie"} => st = "zombie"
      PROVE  HubInv'
  BY <1>2, <1>3, ProcsKeep DEF SetProc, uiVars
<1>4. CASE WorkerDies(p)
  BY <1>3, <1>4, CountFacts DEF WorkerDies
<1>5. CASE PidReused(p)
  BY <1>3, <1>5, CountFacts DEF PidReused
<1>6. CASE ForeignEnds(p)
  BY <1>3, <1>6, CountFacts DEF ForeignEnds
<1>7. CASE WorkerSeesEof(p)
  BY <1>3, <1>7, CountFacts DEF WorkerSeesEof
<1> QED
  BY <1>1, <1>4, <1>5, <1>6, <1>7

\* The sync of the registry.
LEMMA SyncKeeps == ASSUME HubInv, SyncLivePids PROVE HubInv'
<1> USE DEF SyncLivePids
<1>1. job' \in [at : Positions, cmd : GoodCmds] /\ job'.at = "idle"
  BY CommandFacts DEF Positions
<1>2. live' \in [Roles -> Pids \union {NoPid}]
  BY PostedFacts DEF HubInv, HubTypes
<1>3. HubTypes'
  BY <1>1, <1>2 DEF HubInv, HubTypes, uiVars
<1>5. SttDown' /\ Told' /\ StopReachesSynthesis'
  BY <1>1 DEF HubInv, SttDown, Told, StopReachesSynthesis, InSynthesis
<1> QED
  BY <1>3, <1>5 DEF HubInv, uiVars

\* Every step keeps the invariant.
LEMMA HubStep == HubInv /\ [Next]_vars => HubInv'
<1> SUFFICES ASSUME HubInv, [Next]_vars PROVE HubInv'
  OBVIOUS
<1>1. CASE TakeCmd
  BY <1>1, TakeLoadKeeps, TakeUnloadKeeps, TakeUnloadAllKeeps, TakeWorkKeeps,
     TakeCancelTtsWorkerKeeps, TakeListTonesKeeps, TakeShutdownKeeps DEF TakeCmd
<1>2. CASE SyncLivePids
  BY <1>2, SyncKeeps
<1>3. ASSUME NEW a \in Answers, Answered(a) PROVE HubInv'
  BY <1>3, AnsweredKeeps
<1>4. CASE UiHandler
  BY <1>4, UiHandlerKeeps
<1>5. CASE UiStep
  BY <1>5, UiStepKeeps
<1>6. CASE Environment
  BY <1>6, EnvironmentKeeps
<1>7. CASE UNCHANGED vars
  <2>1. /\ UNCHANGED << workers, live, job, cmds, told, uiTodo, app >>
        /\ UNCHANGED << foreignHit, unloadErr, userActions, disturbances >>
    BY <1>7 DEF vars, uiVars
  <2>2. HubTypes'
    BY <2>1 DEF HubInv, HubTypes
  <2>3. StopReachesSynthesis'
    BY <2>1 DEF HubInv, StopReachesSynthesis, InSynthesis
  <2>4. SttDown' /\ Told'
    BY <2>1 DEF HubInv, SttDown, Told, Settled, RequestRole, RequestCmd
  <2> QED
    BY <2>1, <2>2, <2>3, <2>4 DEF HubInv
<1> QED
  BY <1>1, <1>2, <1>3, <1>4, <1>5, <1>6, <1>7 DEF Next

\* So it always holds.
LEMMA HubAlways == Spec => []HubInv
<1>1. Init => HubInv
  BY HubInit
<1>2. HubInv /\ [Next]_vars => HubInv'
  BY HubStep
<1> QED
  BY <1>1, <1>2, PTL DEF Spec

-----------------------------------------------------------------------------
(* A model that counts as loaded is there.                                 *)

\* The role has a client for the model it counts, and its worker holds it while
\* it runs.
Held(m, r) ==
  m.loaded[r] # NoModel =>
    HasClient(m, r) /\ (Running(m, r) => ProcOf(m, r).model = m.loaded[r])

\* Nothing counts as loaded but what refused to unload.
Emptied == \A r \in Roles : workers.loaded[r] = NoModel \/ r \in unloadErr

\* The job thread unloads everything, has done so and waits, or shuts down.
MayShutDown ==
  \/ job.at \in {"unloadStt", "unloadTts", "downStt", "downTts", "exited"}
  \/ job.at \in {"idle", "sync"} /\ Emptied

\* The last command sent makes a Shutdown safe to send.
Cued == IF cmds = << >> THEN MayShutDown ELSE cmds[Len(cmds)].kind = "UnloadAll"

\* Tones are listed before anything else; a Shutdown comes behind an UnloadAll.
CmdsInv ==
  \A i \in DOMAIN cmds :
    /\ cmds[i].kind = "ListTones" =>
         i = 1 /\ job.at = "idle" /\ \A r \in Roles : workers.loaded[r] = NoModel
    /\ cmds[i].kind = "Shutdown" =>
         IF i = 1 THEN MayShutDown ELSE cmds[i - 1].kind = "UnloadAll"

\* So they are sent.
TodoInv ==
  \A i \in DOMAIN uiTodo :
    /\ uiTodo[i].step # "send" => uiTodo[i].cmd = NoCmd
    /\ uiTodo[i].cmd.kind # "ListTones"
    /\ uiTodo[i].cmd.kind = "Shutdown" =>
         IF i = 1 THEN Cued ELSE uiTodo[i - 1].cmd.kind = "UnloadAll"

\* What the requests of a load, an unload of everything and a shutdown rely on.
Stages ==
  /\ job.at \in {"load", "evict", "retry"} => workers.loaded[job.cmd.role] = NoModel
  /\ job.at = "unloadTts" => workers.loaded["stt"] = NoModel \/ "stt" \in unloadErr
  /\ job.at \in {"downStt", "downTts"} => Emptied

HeldInv == LoadedMeansHeld /\ Stages /\ CmdsInv /\ TodoInv

\* A change of one role leaves what the other holds.
LEMMA PeerHeld ==
  ASSUME NEW m, NEW n, NEW r, Kept(m, n, r), Held(m, Peer(r))
  PROVE  Held(n, Peer(r))
BY DEF Kept, Held, HasClient, Running, ProcOf

\* A step that sets the manager to m leaves each role as LoadedMeansHeld wants it
\* if m has it so, or if it refused to unload.
LEMMA WorkersHeld ==
  ASSUME NEW m, NEW failed, SetWorkers(m, failed),
         \A r \in Roles : \/ r \in unloadErr \union failed
                          \/ m.loaded[r] = NoModel
                          \/ HasClient(m, r) /\ (Settled(r)' => Held(m, r))
  PROVE  LoadedMeansHeld'
<1> SUFFICES ASSUME NEW r \in Roles, r \notin unloadErr'
             PROVE  (/\ workers.loaded[r] # NoModel => HasClient(workers, r)
                     /\ workers.loaded[r] # NoModel /\ Running(workers, r) /\ Settled(r) =>
                          ProcOf(workers, r).model = workers.loaded[r])'
  BY DEF LoadedMeansHeld
<1>1. workers' = m /\ (m.loaded[r] = NoModel \/ r \notin unloadErr \union failed)
  BY DEF SetWorkers
<1> QED
  BY <1>1 DEF Held

\* Whoever is settled holds what it counts.
LEMMA SettledHeld ==
  ASSUME LoadedMeansHeld, NEW r \in Roles
  PROVE  /\ r \in unloadErr \/ workers.loaded[r] = NoModel \/ HasClient(workers, r)
         /\ Settled(r) => r \in unloadErr \/ Held(workers, r)
BY DEF LoadedMeansHeld, Held

\* A role that refused to unload and still counts a model is remembered.
LEMMA EmptiedThen ==
  ASSUME NEW m, NEW failed, SetWorkers(m, failed), NEW r,
         m.loaded[r] = NoModel \/ r \in unloadErr \union failed
  PROVE  workers'.loaded[r] = NoModel \/ r \in unloadErr'
BY DEF SetWorkers

\* An unload empties the role unless its worker refused.
LEMMA UnloadedHeld ==
  ASSUME NEW m \in Sound, NEW r \in Roles, NEW a \in Answers
  PROVE  LET u == UnloadAnswered(m, r, a)
         IN  /\ u.ok => u.m.loaded[r] = NoModel
             /\ u.m.loaded[r] = NoModel \/ r \in Refusing(r, a)
<1>1. CASE a = "done"
  <2>1. UnloadAnswered(m, r, a) = [m |-> MarkUnloaded(m, r), ok |-> TRUE]
    BY <1>1 DEF UnloadAnswered, ErrorAnswers
  <2> QED
    BY <2>1, UnmarkKept
<1>2. CASE a \in ErrorAnswers
  <2>1. UnloadAnswered(m, r, a) = [m |-> m, ok |-> FALSE] /\ r \in Refusing(r, a)
    BY <1>2 DEF UnloadAnswered, ErrorAnswers, Refusing
  <2> QED
    BY <2>1
<1>3. CASE a \notin {"done"} \union ErrorAnswers
  <2>1. UnloadAnswered(m, r, a) = [m |-> KillWorker(m, r), ok |-> FALSE]
    BY <1>3 DEF UnloadAnswered
  <2> QED
    BY <2>1, KillKept
<1> QED
  BY <1>1, <1>2, <1>3

\* A load that is done leaves the model with the worker, any other none.
LEMMA LoadedHeld ==
  ASSUME NEW m \in Sound, NEW r \in Roles, NEW x \in ModelsOf(r) \union {NoModel},
         NEW n, n = MarkLoaded(m, r, x), HasClient(m, r),
         Running(m, r) => ProcOf(m, r).model = x
  PROVE  Held(n, r)
<1>1. n.loaded[r] = x /\ n.client = m.client /\ n.procs = m.procs
  BY MarkKept
<1> QED
  BY <1>1 DEF Held, HasClient, Running, ProcOf

\* A command that ends leaves both roles settled and the thread at the sync.
LEMMA EndHeld ==
  ASSUME NEW m, NEW failed, EndsFailing(m, failed),
         \A r \in Roles : r \in unloadErr \union failed \/ m.loaded[r] = NoModel \/ Held(m, r)
  PROVE  LoadedMeansHeld' /\ Stages'
<1>1. SetWorkers(m, failed) /\ job' = [at |-> "sync", cmd |-> NoCmd]
  BY DEF EndsFailing
<1>2. LoadedMeansHeld'
  BY <1>1, WorkersHeld DEF Held
<1>3. job'.at = "sync"
  BY <1>1
<1> QED
  BY <1>2, <1>3 DEF Stages

\* ensure_worker for a role that counts nothing yet.
LEMMA EnsureHeld ==
  ASSUME NEW m \in Sound,
         \A s \in Roles : s \in unloadErr \/ m.loaded[s] = NoModel \/ Held(m, s),
         NEW r \in Roles, m.loaded[r] = NoModel,
         NEW at \in {"load", "list"}, NEW c, at = "load" => c.role = r,
         EnsureThen(m, r, at, c)
  PROVE  LoadedMeansHeld' /\ Stages'
<1>1. ASSUME NEW n \in Sound, Kept(m, n, r), n.loaded = m.loaded
      PROVE  \A s \in Roles : s \in unloadErr \/ n.loaded[s] = NoModel \/ Held(n, s)
  BY <1>1, PeerHeld, RoleFacts
<1>2. ASSUME NEW n \in Ensured(m, r), Asks(n, at, c) PROVE LoadedMeansHeld' /\ Stages'
  <2>1. n \in Sound /\ Kept(m, n, r) /\ n.loaded = m.loaded
    BY EnsuredKept DEF Kept
  <2>2. SetWorkers(n, {}) /\ workers' = n /\ job' = [at |-> at, cmd |-> c]
    BY <1>2 DEF Asks, SetWorkers
  <2>3. LoadedMeansHeld'
    BY <1>1, <2>1, <2>2, WorkersHeld DEF Held
  <2>4. job'.at = at /\ job'.cmd = c
    BY <2>2
  <2>5. Stages'
    BY <2>1, <2>2, <2>4 DEF Stages
  <2> QED
    BY <2>3, <2>5
<1>3. ASSUME Ends(Reap(m, r)) PROVE LoadedMeansHeld' /\ Stages'
  <2> DEFINE n == Reap(m, r)
  <2>1. Kept(m, n, r) /\ n.loaded = m.loaded
    BY ReapKept
  <2>2. EndsFailing(n, {})
    BY <1>3 DEF Ends
  <2> HIDE DEF n
  <2>3. n \in Sound
    BY <2>1 DEF Kept
  <2> QED
    BY <1>1, <2>1, <2>2, <2>3, EndHeld
<1> QED
  BY <1>2, <1>3 DEF EnsureThen

\* The second half of unload_all, with the first done.
LEMMA UnloadTtsHeld ==
  ASSUME NEW m \in Sound, NEW failed, NEW c, UnloadTtsNext(m, failed, c),
         \A s \in Roles : s \in unloadErr \union failed \/ m.loaded[s] = NoModel \/ Held(m, s),
         m.loaded["stt"] = NoModel \/ "stt" \in unloadErr \union failed
  PROVE  LoadedMeansHeld' /\ Stages' /\ MayShutDown'
<1>1. CASE HasClient(m, "tts")
  <2>1. SetWorkers(m, failed) /\ job' = [at |-> "unloadTts", cmd |-> c]
    BY <1>1 DEF UnloadTtsNext
  <2>2. LoadedMeansHeld'
    BY <2>1, WorkersHeld DEF Held
  <2>3. job'.at = "unloadTts"
    BY <2>1
  <2>4. workers'.loaded["stt"] = NoModel \/ "stt" \in unloadErr'
    BY <2>1, EmptiedThen
  <2> QED
    BY <2>2, <2>3, <2>4 DEF Stages, MayShutDown
<1>2. CASE ~HasClient(m, "tts")
  <2> DEFINE n == MarkUnloaded(m, "tts")
  <2>1. EndsFailing(n, failed)
    BY <1>2 DEF UnloadTtsNext
  <2>2. Kept(m, n, "tts") /\ n.loaded["tts"] = NoModel
    BY UnmarkKept, RoleFacts
  <2> HIDE DEF n
  <2>3. n.loaded["stt"] = m.loaded["stt"]
    BY <2>2, RoleFacts DEF Kept
  <2>4. \A s \in Roles : n.loaded[s] = NoModel \/ s \in unloadErr \union failed
    BY <2>2, <2>3 DEF Roles
  <2>5. LoadedMeansHeld' /\ Stages'
    BY <2>1, <2>4, EndHeld
  <2>6. Emptied' /\ job'.at = "sync"
    BY <2>1, <2>4, EmptiedThen DEF EndsFailing, Emptied
  <2> QED
    BY <2>5, <2>6 DEF MayShutDown
<1> QED
  BY <1>1, <1>2

\* The second half of shutdown_all: nothing counts as loaded but what refused.
LEMMA DownTtsHeld ==
  ASSUME NEW m \in Manager, DownTtsNext(m),
         \A s \in Roles : m.loaded[s] = NoModel \/ s \in unloadErr
  PROVE  LoadedMeansHeld' /\ Stages' /\ MayShutDown'
<1>1. CASE HasClient(m, "tts")
  <2>1. SetWorkers(m, {}) /\ job' = [at |-> "downTts", cmd |-> Shutdown]
    BY <1>1 DEF DownTtsNext, Asks
  <2>2. LoadedMeansHeld'
    BY <2>1, WorkersHeld
  <2>3. job'.at = "downTts"
    BY <2>1
  <2>4. Emptied'
    BY <2>1, EmptiedThen DEF Emptied
  <2> QED
    BY <2>2, <2>3, <2>4 DEF Stages, MayShutDown
<1>2. CASE ~HasClient(m, "tts")
  <2> DEFINE n == [m EXCEPT !.loaded = NewManager.loaded]
  <2>1. SetWorkers(n, {}) /\ job' = [at |-> "exited", cmd |-> NoCmd]
    BY <1>2 DEF DownTtsNext
  <2>2. NewManager.loaded = [r \in Roles |-> NoModel]
    BY DEF NewManager
  <2>3. n.loaded = [r \in Roles |-> NoModel]
    BY <2>2 DEF Manager
  <2> HIDE DEF n
  <2>4. LoadedMeansHeld'
    BY <2>1, <2>3, WorkersHeld
  <2>5. job'.at = "exited"
    BY <2>1
  <2> QED
    BY <2>4, <2>5 DEF Stages, MayShutDown
<1> QED
  BY <1>1, <1>2

\* Between commands both roles hold what they count.
LEMMA IdleHeld ==
  ASSUME HubInv, HeldInv, NEW kind, Takes(kind)
  PROVE  /\ workers \in Sound
         /\ \A s \in Roles : s \in unloadErr \/ workers.loaded[s] = NoModel \/ Held(workers, s)
<1>1. workers \in Sound
  BY DEF HubInv, HubTypes, Sound, Takes
<1>2. \A s \in Roles : Settled(s)
  BY DEF Takes, Settled, Requests
<1> QED
  BY <1>1, <1>2, SettledHeld DEF HubInv, SttDown, HeldInv

\* load_timeout.
LEMMA TakeLoadHeld ==
  ASSUME HubInv, HeldInv, TakeLoad
  PROVE  LoadedMeansHeld' /\ Stages'
<1> DEFINE c == Head(cmds)
           r == c.role
<1>1. Takes("Load")
  BY DEF TakeLoad
<1>2. /\ workers \in Sound
      /\ \A s \in Roles : s \in unloadErr \/ workers.loaded[s] = NoModel \/ Held(workers, s)
  BY <1>1, IdleHeld
<1>3. c \in GoodCmds /\ r \in Roles
  <2>1. cmds \in Seq(GoodCmds) /\ cmds # << >>
    BY <1>1 DEF HubInv, HubTypes, Takes
  <2>2. Head(cmds) \in GoodCmds
    BY <2>1
  <2> QED
    BY <2>2, GoodCmdFacts
<1>4. CASE Ends(workers)
  BY <1>2, <1>4, EndHeld DEF Ends
<1>5. CASE Asks(workers, "unloadOld", c)
  <2>1. SetWorkers(workers, {}) /\ job' = [at |-> "unloadOld", cmd |-> c]
    BY <1>5 DEF Asks
  <2>2. job'.at = "unloadOld"
    BY <2>1
  <2>3. LoadedMeansHeld'
    BY <1>2, <2>1, WorkersHeld DEF Held
  <2> QED
    BY <2>2, <2>3 DEF Stages
<1>6. CASE workers.loaded[r] = NoModel /\ EnsureThen(workers, r, "load", c)
  <2>1. c.role = r
    OBVIOUS
  <2> HIDE DEF c, r
  <2> QED
    BY <1>2, <1>3, <1>6, <2>1, EnsureHeld
<1> QED
  BY <1>4, <1>5, <1>6 DEF TakeLoad

\* unload.
LEMMA TakeUnloadHeld ==
  ASSUME HubInv, HeldInv, TakeUnload
  PROVE  LoadedMeansHeld' /\ Stages'
<1> DEFINE c == Head(cmds)
           r == c.role
<1>1. Takes("Unload")
  BY DEF TakeUnload
<1>2. /\ workers \in Sound
      /\ \A s \in Roles : s \in unloadErr \/ workers.loaded[s] = NoModel \/ Held(workers, s)
  BY <1>1, IdleHeld
<1>3. r \in Roles
  <2>1. cmds \in Seq(GoodCmds) /\ cmds # << >>
    BY <1>1 DEF HubInv, HubTypes, Takes
  <2>2. Head(cmds) \in GoodCmds
    BY <2>1
  <2> QED
    BY <2>2, GoodCmdFacts
<1>4. CASE HasClient(workers, r)
  <2>1. SetWorkers(workers, {}) /\ job' = [at |-> "unload", cmd |-> c]
    BY <1>4 DEF TakeUnload, Asks
  <2>2. job'.at = "unload"
    BY <2>1
  <2>3. LoadedMeansHeld'
    BY <1>2, <2>1, WorkersHeld DEF Held
  <2> QED
    BY <2>2, <2>3 DEF Stages
<1>5. CASE ~HasClient(workers, r)
  <2> DEFINE n == MarkUnloaded(workers, r)
  <2>1. EndsFailing(n, {})
    BY <1>5 DEF TakeUnload, Ends
  <2> HIDE DEF r
  <2>2. Kept(workers, n, r) /\ n.loaded[r] = NoModel
    BY <1>2, <1>3, UnmarkKept
  <2> HIDE DEF n
  <2>3. \A s \in Roles : s \in unloadErr \/ n.loaded[s] = NoModel \/ Held(n, s)
    BY <1>2, <1>3, <2>2, PeerHeld, RoleFacts DEF Kept
  <2> QED
    BY <2>1, <2>3, EndHeld
<1> QED
  BY <1>4, <1>5

\* unload_all.
LEMMA TakeUnloadAllHeld ==
  ASSUME HubInv, HeldInv, TakeUnloadAll
  PROVE  LoadedMeansHeld' /\ Stages' /\ MayShutDown'
<1> DEFINE c == Head(cmds)
<1>1. Takes("UnloadAll")
  BY DEF TakeUnloadAll
<1>2. /\ workers \in Sound
      /\ \A s \in Roles : s \in unloadErr \/ workers.loaded[s] = NoModel \/ Held(workers, s)
  BY <1>1, IdleHeld
<1>3. CASE HasClient(workers, "stt")
  <2>1. SetWorkers(workers, {}) /\ job' = [at |-> "unloadStt", cmd |-> c]
    BY <1>3 DEF TakeUnloadAll, Asks
  <2>2. job'.at = "unloadStt"
    BY <2>1
  <2>3. LoadedMeansHeld'
    BY <1>2, <2>1, WorkersHeld DEF Held
  <2> QED
    BY <2>2, <2>3 DEF Stages, MayShutDown
<1>4. CASE ~HasClient(workers, "stt")
  <2> DEFINE n == MarkUnloaded(workers, "stt")
  <2>1. UnloadTtsNext(n, {}, c)
    BY <1>4 DEF TakeUnloadAll
  <2>2. Kept(workers, n, "stt") /\ n.loaded["stt"] = NoModel
    BY <1>2, UnmarkKept, RoleFacts
  <2> HIDE DEF n, c
  <2>3. \A s \in Roles : s \in unloadErr \/ n.loaded[s] = NoModel \/ Held(n, s)
    BY <1>2, <2>2, PeerHeld, RoleFacts DEF Kept
  <2> QED
    BY <2>1, <2>2, <2>3, UnloadTtsHeld DEF Kept
<1> QED
  BY <1>3, <1>4

\* A request to work changes no worker when it starts.
LEMMA TakeWorkHeld ==
  ASSUME HubInv, HeldInv, TakeWork
  PROVE  LoadedMeansHeld' /\ Stages'
<1>1. Takes("Work") /\ UNCHANGED << workers, unloadErr >> /\ job'.at \in {"sync", "work"}
  BY DEF TakeWork
<1>2. \A r \in Roles : r \in unloadErr \/ workers.loaded[r] = NoModel \/ Held(workers, r)
  BY <1>1, IdleHeld
<1> QED
  BY <1>1, <1>2 DEF LoadedMeansHeld, Held, Stages

\* CancelTtsWorker.
LEMMA TakeCancelTtsWorkerHeld ==
  ASSUME HubInv, HeldInv, TakeCancelTtsWorker
  PROVE  LoadedMeansHeld' /\ Stages'
<1>1. Takes("CancelTtsWorker")
  BY DEF TakeCancelTtsWorker
<1>2. /\ workers \in Sound
      /\ \A s \in Roles : s \in unloadErr \/ workers.loaded[s] = NoModel \/ Held(workers, s)
  BY <1>1, IdleHeld
<1> DEFINE n == KillWorker(workers, "tts")
<1>3. Kept(workers, n, "tts") /\ n.loaded["tts"] = NoModel
  BY <1>2, KillKept, RoleFacts
<1>4. EndsFailing(n, {})
  BY DEF TakeCancelTtsWorker, Ends
<1> HIDE DEF n
<1>5. \A s \in Roles : s \in unloadErr \/ n.loaded[s] = NoModel \/ Held(n, s)
  BY <1>2, <1>3, PeerHeld, RoleFacts DEF Kept
<1> QED
  BY <1>4, <1>5, EndHeld

\* ListTones comes before any load.
LEMMA TakeListTonesHeld ==
  ASSUME HubInv, HeldInv, TakeListTones
  PROVE  LoadedMeansHeld' /\ Stages'
<1> DEFINE c == Head(cmds)
<1>1. Takes("ListTones") /\ EnsureThen(workers, "tts", "list", c)
  BY DEF TakeListTones
<1>2. /\ workers \in Sound
      /\ \A s \in Roles : s \in unloadErr \/ workers.loaded[s] = NoModel \/ Held(workers, s)
  BY <1>1, IdleHeld
<1>3. workers.loaded["tts"] = NoModel
  <2>1. cmds \in Seq(GoodCmds) /\ cmds # << >> /\ Head(cmds).kind = "ListTones"
    BY <1>1 DEF HubInv, HubTypes, Takes
  <2>2. 1 \in DOMAIN cmds /\ cmds[1].kind = "ListTones"
    BY <2>1
  <2> QED
    BY <2>2, RoleFacts DEF HeldInv, CmdsInv
<1> HIDE DEF c
<1> QED
  BY <1>1, <1>2, <1>3, EnsureHeld, RoleFacts

\* shutdown_all comes when nothing counts as loaded but what refused to unload.
LEMMA TakeShutdownHeld ==
  ASSUME HubInv, HeldInv, TakeShutdown
  PROVE  LoadedMeansHeld' /\ Stages' /\ MayShutDown'
<1>1. Takes("Shutdown") /\ job.at = "idle"
  BY DEF TakeShutdown, Takes
<1>2. workers \in Manager
  BY DEF HubInv, HubTypes, Managed
<1>3. Emptied
  <2>1. cmds \in Seq(GoodCmds) /\ cmds # << >> /\ Head(cmds).kind = "Shutdown"
    BY <1>1 DEF HubInv, HubTypes, Takes
  <2>2. 1 \in DOMAIN cmds /\ cmds[1].kind = "Shutdown"
    BY <2>1
  <2> QED
    BY <1>1, <2>2 DEF HeldInv, CmdsInv, MayShutDown
<1>4. CASE HasClient(workers, "stt")
  <2>1. SetWorkers(workers, {}) /\ job' = [at |-> "downStt", cmd |-> Shutdown]
    BY <1>4 DEF TakeShutdown, Asks
  <2>2. job'.at = "downStt"
    BY <2>1
  <2>3. LoadedMeansHeld'
    BY <1>3, <2>1, WorkersHeld DEF Emptied
  <2>4. Emptied'
    BY <1>3, <2>1, EmptiedThen DEF Emptied
  <2> QED
    BY <2>2, <2>3, <2>4 DEF Stages, MayShutDown
<1>5. CASE ~HasClient(workers, "stt")
  <2>1. DownTtsNext(workers)
    BY <1>5 DEF TakeShutdown
  <2> QED
    BY <1>2, <1>3, <2>1, DownTtsHeld DEF Emptied
<1> QED
  BY <1>4, <1>5

\* What the manager that an answer leaves behind still holds.
LEMMA AnswerHeld ==
  ASSUME HubInv, HeldInv, NEW a, NEW n, Answer(a, n)
  PROVE  /\ \A s \in Roles : s \in unloadErr \/ n.loaded[s] = NoModel \/ HasClient(n, s)
         /\ Peer(RequestRole) \in unloadErr \/ Held(n, Peer(RequestRole))
         /\ RequestCmd = "other" => \A s \in Roles : s \in unloadErr \/ Held(n, s)
         /\ a = "done" => HasClient(n, RequestRole)
<1> USE DEF Answer
<1> DEFINE r == RequestRole
<1>1. job.cmd \in GoodCmds /\ workers \in Sound /\ workers \in Managed
  BY DEF HubInv, HubTypes, Sound
<1>2. r \in Roles /\ Peer(r) \in Roles /\ job.cmd.model \in Models \union {NoModel}
  BY <1>1, RequestFacts, GoodCmdFacts, RoleFacts
<1>3. /\ Kept(workers, n, r) /\ n.loaded = workers.loaded
      /\ n.client[r].pid = workers.client[r].pid
      /\ Running(n, r) =>
           /\ Running(workers, r)
           /\ ProcOf(n, r).model =
                ModelAfter(RequestCmd, job.cmd.model, a, ProcOf(workers, r).model)
  BY <1>1, <1>2, AnswerKept
<1>4. Settled(Peer(r)) /\ (RequestCmd = "other" => Settled(r))
  BY <1>2, RoleFacts DEF Settled
<1>5. a = "done" => HasClient(n, r)
  <2> SUFFICES ASSUME a = "done" PROVE HasClient(n, r)
    OBVIOUS
  <2>1. workers.client[r].live
    BY DEF Possible, Running
  <2>2. workers.client[r].pid \in Pids
    BY <1>1, <1>2, <2>1, ManagerFacts
  <2> QED
    BY <1>3, <2>2, PidAssumption DEF HasClient
<1> HIDE DEF r
<1>6. LoadedMeansHeld
  BY DEF HeldInv
<1>7. \A s \in Roles : s \in unloadErr \/ workers.loaded[s] = NoModel \/ HasClient(workers, s)
  BY <1>6, SettledHeld
<1>8. n.client[Peer(r)] = workers.client[Peer(r)]
  BY <1>3 DEF Kept
<1>9. ASSUME NEW s \in Roles
      PROVE  s \in unloadErr \/ n.loaded[s] = NoModel \/ HasClient(n, s)
  BY <1>2, <1>3, <1>7, <1>8, RoleFacts DEF HasClient
<1>10. Peer(r) \in unloadErr \/ Held(n, Peer(r))
  BY <1>2, <1>3, <1>4, <1>6, SettledHeld, PeerHeld
<1>11. RequestCmd = "other" => r \in unloadErr \/ Held(n, r)
  <2> SUFFICES ASSUME RequestCmd = "other", r \notin unloadErr PROVE Held(n, r)
    OBVIOUS
  <2>1. Held(workers, r)
    BY <1>2, <1>4, <1>6, SettledHeld
  <2>2. Running(n, r) => ProcOf(n, r).model = ProcOf(workers, r).model
    BY <1>3 DEF ModelAfter
  <2> QED
    BY <1>3, <2>1, <2>2 DEF Held, HasClient
<1> QED
  BY <1>2, <1>5, <1>9, <1>10, <1>11, RoleFacts DEF r

\* The unload of the model a load replaces.
LEMMA UnloadOldHeld ==
  ASSUME HubInv, HeldInv, NEW a, NEW n, Answer(a, n), UnloadOldAnswered(a, n)
  PROVE  LoadedMeansHeld' /\ Stages' /\ ~MayShutDown
<1> DEFINE r == job.cmd.role
           u == UnloadAnswered(n, r, a)
<1>1. job.at = "unloadOld"
  BY DEF UnloadOldAnswered, InRequest
<1>2. \/ u.ok /\ EnsureThen(u.m, r, "load", job.cmd)
      \/ ~u.ok /\ EndsFailing(u.m, Refusing(r, a))
  BY DEF UnloadOldAnswered
<1>3. RequestRole = r /\ RequestCmd = "unload" /\ r \in Roles
  BY <1>1, AnswerFacts, RequestFacts DEF Answer
<1>4. n \in Sound /\ a \in Answers
  BY <1>3, AnswerFacts DEF Answer
<1>5. Kept(n, u.m, r)
  BY <1>3, <1>4, AnswerFacts, UnloadAnsweredKept
<1>6. /\ u.ok => u.m.loaded[r] = NoModel
      /\ u.m.loaded[r] = NoModel \/ r \in Refusing(r, a)
  BY <1>3, <1>4, UnloadedHeld
<1>7. Peer(r) \in unloadErr \/ Held(n, Peer(r))
  BY <1>3, AnswerHeld
<1>8. job.cmd.role = r
  OBVIOUS
<1> HIDE DEF u, r
<1>9. u.m \in Sound
  BY <1>3, <1>4, <1>5, RoleFacts DEF Kept
<1>10. Peer(r) \in unloadErr \/ Held(u.m, Peer(r))
  BY <1>5, <1>7, PeerHeld
<1>11. CASE u.ok /\ EnsureThen(u.m, r, "load", job.cmd)
  <2>1. u.m.loaded[r] = NoModel
    BY <1>6, <1>11
  <2>2. \A s \in Roles : s \in unloadErr \/ u.m.loaded[s] = NoModel \/ Held(u.m, s)
    BY <1>3, <1>10, <2>1, RoleFacts
  <2> QED
    BY <1>1, <1>3, <1>8, <1>9, <1>11, <2>1, <2>2, EnsureHeld DEF MayShutDown
<1>12. CASE EndsFailing(u.m, Refusing(r, a))
  <2>1. \A s \in Roles :
          s \in unloadErr \union Refusing(r, a) \/ u.m.loaded[s] = NoModel \/ Held(u.m, s)
    BY <1>3, <1>6, <1>10, RoleFacts
  <2> QED
    BY <1>1, <1>12, <2>1, EndHeld DEF MayShutDown
<1> QED
  BY <1>2, <1>11, <1>12

\* The load itself.
LEMMA LoadHeld ==
  ASSUME HubInv, HeldInv, NEW a, NEW n, Answer(a, n), LoadRequestAnswered(a, n)
  PROVE  LoadedMeansHeld' /\ Stages' /\ ~MayShutDown
<1> DEFINE c == job.cmd
           r == c.role
           s == Peer(r)
<1>1. job.at = "load"
  BY DEF LoadRequestAnswered, InRequest
<1>2. RequestRole = r /\ RequestCmd = "load" /\ r \in Roles /\ s \in Roles
  BY <1>1, AnswerFacts, RequestFacts, RoleFacts DEF Answer
<1>3. /\ n \in Sound /\ a \in Answers /\ n.loaded[r] = NoModel
      /\ c.model \in ModelsOf(r) \union {NoModel}
      /\ Running(n, r) =>
           ProcOf(n, r).model \in IF a = "done" THEN {c.model} ELSE {NoModel, Adrift}
  BY <1>1, <1>2, AnswerFacts DEF Answer, HeldInv, Stages
<1>4. s \in unloadErr \/ Held(n, s)
  BY <1>2, AnswerHeld
<1>5. CASE EvictsPeer(n, r, a) /\ HasClient(n, s)
  <2>1. SetWorkers(n, {}) /\ workers' = n /\ job' = [at |-> "evict", cmd |-> c]
    BY <1>5 DEF LoadRequestAnswered, Asks, SetWorkers
  <2>2. job'.at = "evict" /\ job'.cmd = c
    BY <2>1
  <2>3. LoadedMeansHeld'
    BY <1>2, <1>3, <1>4, <2>1, WorkersHeld, RoleFacts DEF Held
  <2> QED
    BY <1>1, <1>3, <2>1, <2>2, <2>3 DEF Stages, MayShutDown
<1>6. CASE EvictsPeer(n, r, a) /\ ~HasClient(n, s)
  <2> DEFINE k == MarkUnloaded(n, s)
  <2>1. SetWorkers(k, {}) /\ workers' = k /\ job' = [at |-> "retry", cmd |-> c]
    BY <1>6 DEF LoadRequestAnswered, Asks, SetWorkers
  <2>2. job'.at = "retry" /\ job'.cmd = c
    BY <2>1
  <2>3. Kept(n, k, s) /\ k.loaded[s] = NoModel
    BY <1>2, <1>3, UnmarkKept
  <2> HIDE DEF k
  <2>4. k.loaded[r] = NoModel
    BY <1>2, <1>3, <2>3, RoleFacts DEF Kept
  <2>5. LoadedMeansHeld'
    BY <1>2, <2>1, <2>3, <2>4, WorkersHeld, RoleFacts
  <2> QED
    BY <1>1, <2>1, <2>2, <2>4, <2>5 DEF Stages, MayShutDown
<1>7. CASE ~EvictsPeer(n, r, a)
  <2> DEFINE k == LoadAnswered(n, r, c.model, a)
  <2>1. EndsFailing(k, {})
    BY <1>7 DEF LoadRequestAnswered, Ends
  <2>2. Kept(n, k, r)
    BY <1>2, <1>3, LoadAnsweredKept
  <2>3. k.loaded[r] = NoModel \/ Held(k, r)
    <3>1. CASE a = "done"
      <4>1. k = MarkLoaded(n, r, c.model)
        BY <3>1 DEF LoadAnswered, TimedOutAnswers
      <4>2. HasClient(n, r)
        BY <1>2, <3>1, AnswerHeld
      <4> HIDE DEF k
      <4> QED
        BY <1>2, <1>3, <3>1, <4>1, <4>2, LoadedHeld
    <3>2. CASE a \in TimedOutAnswers
      <4>1. k = KillWorker(n, r)
        BY <3>2 DEF LoadAnswered, TimedOutAnswers
      <4> HIDE DEF k
      <4> QED
        BY <1>2, <1>3, <4>1, KillKept
    <3>3. CASE a \notin {"done"} \union TimedOutAnswers
      <4>1. k = n
        BY <3>3 DEF LoadAnswered
      <4> QED
        BY <1>3, <4>1
    <3> QED
      BY <3>1, <3>2, <3>3
  <2> HIDE DEF k
  <2>4. \A t \in Roles : t \in unloadErr \/ k.loaded[t] = NoModel \/ Held(k, t)
    BY <1>2, <1>4, <2>2, <2>3, PeerHeld, RoleFacts
  <2> QED
    BY <1>1, <2>1, <2>4, EndHeld DEF MayShutDown
<1> QED
  BY <1>5, <1>6, <1>7

\* The unload of the evicted peer.
LEMMA EvictHeld ==
  ASSUME HubInv, HeldInv, NEW a, NEW n, Answer(a, n), EvictAnswered(a, n)
  PROVE  LoadedMeansHeld' /\ Stages' /\ ~MayShutDown
<1> DEFINE r == RequestRole
           s == Peer(r)
           u == UnloadAnswered(n, r, a)
           c == job.cmd
<1>1. job.at = "evict"
  BY DEF EvictAnswered, InRequest
<1>2. \/ u.ok /\ Asks(u.m, "retry", c)
      \/ ~u.ok /\ EndsFailing(u.m, Refusing(r, a))
  BY DEF EvictAnswered
<1>3. RequestCmd = "unload" /\ r \in Roles /\ r = Peer(c.role) /\ c.role \in Roles
  BY <1>1, AnswerFacts, RequestFacts DEF Answer
<1>4. /\ n \in Sound /\ a \in Answers /\ n.loaded[c.role] = NoModel
  BY <1>1, AnswerFacts DEF Answer, HeldInv, Stages
<1>5. Kept(n, u.m, r)
  BY <1>3, <1>4, AnswerFacts, UnloadAnsweredKept
<1>6. /\ u.ok => u.m.loaded[r] = NoModel
      /\ u.m.loaded[r] = NoModel \/ r \in Refusing(r, a)
  BY <1>3, <1>4, UnloadedHeld
<1> HIDE DEF u, r
<1>7. s = c.role /\ u.m.loaded[s] = NoModel
  BY <1>3, <1>4, <1>5, RoleFacts DEF Kept
<1>8. CASE u.ok /\ Asks(u.m, "retry", c)
  <2>1. SetWorkers(u.m, {}) /\ workers' = u.m /\ job' = [at |-> "retry", cmd |-> c]
    BY <1>8 DEF Asks, SetWorkers
  <2>2. job'.at = "retry" /\ job'.cmd = c
    BY <2>1
  <2>3. LoadedMeansHeld'
    BY <1>3, <1>6, <1>7, <1>8, <2>1, WorkersHeld, RoleFacts
  <2> QED
    BY <1>1, <1>7, <2>1, <2>2, <2>3 DEF Stages, MayShutDown
<1>9. CASE EndsFailing(u.m, Refusing(r, a))
  <2>1. \A t \in Roles :
          t \in unloadErr \union Refusing(r, a) \/ u.m.loaded[t] = NoModel \/ Held(u.m, t)
    BY <1>3, <1>6, <1>7, RoleFacts
  <2> QED
    BY <1>1, <1>9, <2>1, EndHeld DEF MayShutDown
<1> QED
  BY <1>2, <1>8, <1>9

\* The second try.
LEMMA RetryHeld ==
  ASSUME HubInv, HeldInv, NEW a, NEW n, Answer(a, n), RetryAnswered(a, n)
  PROVE  LoadedMeansHeld' /\ Stages' /\ ~MayShutDown
<1> DEFINE r == job.cmd.role
           x == job.cmd.model
           k == IF a = "done" THEN MarkLoaded(n, r, x) ELSE n
<1>1. job.at = "retry" /\ EndsFailing(k, {})
  BY DEF RetryAnswered, InRequest, Ends
<1>2. RequestRole = r /\ RequestCmd = "load" /\ r \in Roles
  BY <1>1, AnswerFacts, RequestFacts DEF Answer
<1>3. /\ n \in Sound /\ n.loaded[r] = NoModel
      /\ x \in ModelsOf(r) \union {NoModel}
      /\ Running(n, r) =>
           ProcOf(n, r).model \in IF a = "done" THEN {x} ELSE {NoModel, Adrift}
  BY <1>1, <1>2, AnswerFacts DEF HeldInv, Stages
<1>4. Peer(r) \in unloadErr \/ Held(n, Peer(r))
  BY <1>2, AnswerHeld
<1>5. a = "done" => HasClient(n, r)
  BY <1>2, AnswerHeld
<1> HIDE DEF r, x
<1>6. /\ k.loaded[r] = NoModel \/ Held(k, r)
      /\ Peer(r) \in unloadErr \/ Held(k, Peer(r))
  <2>1. CASE a = "done"
    <3>1. k = MarkLoaded(n, r, x)
      BY <2>1
    <3> HIDE DEF k
    <3>2. Kept(n, k, r)
      BY <1>2, <1>3, <3>1, MarkKept
    <3> QED
      BY <1>2, <1>3, <1>4, <1>5, <2>1, <3>1, <3>2, LoadedHeld, PeerHeld
  <2>2. CASE a # "done"
    BY <1>3, <1>4, <2>2
  <2> QED
    BY <2>1, <2>2
<1> HIDE DEF k
<1>7. \A t \in Roles : t \in unloadErr \/ k.loaded[t] = NoModel \/ Held(k, t)
  BY <1>2, <1>6, RoleFacts
<1> QED
  BY <1>1, <1>7, EndHeld DEF MayShutDown

\* The unload of one role.
LEMMA UnloadRequestHeld ==
  ASSUME HubInv, HeldInv, NEW a, NEW n, Answer(a, n), UnloadRequestAnswered(a, n)
  PROVE  LoadedMeansHeld' /\ Stages' /\ ~MayShutDown
<1> DEFINE r == job.cmd.role
           k == UnloadAnswered(n, r, a).m
<1>1. job.at = "unload" /\ EndsFailing(k, Refusing(r, a))
  BY DEF UnloadRequestAnswered, InRequest
<1>2. RequestRole = r /\ RequestCmd = "unload" /\ r \in Roles
  BY <1>1, AnswerFacts, RequestFacts DEF Answer
<1>3. n \in Sound /\ a \in Answers
  BY AnswerFacts DEF Answer
<1>4. Kept(n, k, r)
  BY <1>2, <1>3, AnswerFacts, UnloadAnsweredKept
<1>5. k.loaded[r] = NoModel \/ r \in Refusing(r, a)
  BY <1>2, <1>3, UnloadedHeld
<1>6. Peer(r) \in unloadErr \/ Held(n, Peer(r))
  BY <1>2, AnswerHeld
<1> HIDE DEF k, r
<1>7. \A t \in Roles :
        t \in unloadErr \union Refusing(r, a) \/ k.loaded[t] = NoModel \/ Held(k, t)
  BY <1>2, <1>4, <1>5, <1>6, PeerHeld, RoleFacts
<1> QED
  BY <1>1, <1>7, EndHeld DEF MayShutDown

\* The two unloads of unload_all.
LEMMA UnloadAllHeld ==
  ASSUME HubInv, HeldInv, NEW a, NEW n, Answer(a, n), UnloadAllAnswered(a, n)
  PROVE  LoadedMeansHeld' /\ Stages' /\ MayShutDown'
<1>1. n \in Sound /\ a \in Answers /\ n.loaded = workers.loaded
  BY AnswerFacts DEF Answer
<1>2. ASSUME NEW r \in Roles, RequestRole = r, RequestCmd = "unload"
      PROVE  LET k == UnloadAnswered(n, r, a).m
             IN  /\ Kept(n, k, r)
                 /\ k.loaded[r] = NoModel \/ r \in Refusing(r, a)
                 /\ \A t \in Roles : \/ t \in unloadErr \union Refusing(r, a)
                                     \/ k.loaded[t] = NoModel \/ Held(k, t)
  <2> DEFINE k == UnloadAnswered(n, r, a).m
  <2>1. Kept(n, k, r)
    BY <1>1, <1>2, AnswerFacts, UnloadAnsweredKept
  <2>2. k.loaded[r] = NoModel \/ r \in Refusing(r, a)
    BY <1>1, UnloadedHeld
  <2>3. Peer(r) \in unloadErr \/ Held(n, Peer(r))
    BY <1>2, AnswerHeld
  <2> HIDE DEF k
  <2>4. \A t \in Roles : \/ t \in unloadErr \union Refusing(r, a)
                         \/ k.loaded[t] = NoModel \/ Held(k, t)
    BY <2>1, <2>2, <2>3, PeerHeld, RoleFacts
  <2> QED
    BY <2>1, <2>2, <2>4 DEF k
<1>3. CASE /\ InRequest("unloadStt")
           /\ UnloadTtsNext(UnloadAnswered(n, "stt", a).m, Refusing("stt", a), job.cmd)
  <2>1. RequestRole = "stt" /\ RequestCmd = "unload"
    BY <1>3, AnswerFacts, RequestFacts DEF InRequest, Answer
  <2> DEFINE k == UnloadAnswered(n, "stt", a).m
  <2>2. /\ Kept(n, k, "stt")
        /\ k.loaded["stt"] = NoModel \/ "stt" \in Refusing("stt", a)
        /\ \A t \in Roles : \/ t \in unloadErr \union Refusing("stt", a)
                            \/ k.loaded[t] = NoModel \/ Held(k, t)
    BY <1>2, <2>1, RoleFacts
  <2>3. UnloadTtsNext(k, Refusing("stt", a), job.cmd)
    BY <1>3
  <2> HIDE DEF k
  <2>4. k \in Sound
    BY <2>2 DEF Kept
  <2> QED
    BY <2>2, <2>3, <2>4, UnloadTtsHeld
<1>4. CASE InRequest("unloadTts") /\ EndsFailing(UnloadAnswered(n, "tts", a).m, Refusing("tts", a))
  <2>1. RequestRole = "tts" /\ RequestCmd = "unload" /\ job.at = "unloadTts"
    BY <1>4, AnswerFacts, RequestFacts DEF InRequest, Answer
  <2> DEFINE k == UnloadAnswered(n, "tts", a).m
             f == Refusing("tts", a)
  <2>2. /\ Kept(n, k, "tts") /\ (k.loaded["tts"] = NoModel \/ "tts" \in f)
        /\ \A t \in Roles : t \in unloadErr \union f \/ k.loaded[t] = NoModel \/ Held(k, t)
    BY <1>2, <2>1, RoleFacts
  <2>3. EndsFailing(k, f)
    BY <1>4
  <2> HIDE DEF k, f
  <2>4. k.loaded["stt"] = NoModel \/ "stt" \in unloadErr
    BY <1>1, <2>1, <2>2, RoleFacts DEF Kept, HeldInv, Stages
  <2>5. \A t \in Roles : k.loaded[t] = NoModel \/ t \in unloadErr \union f
    BY <2>2, <2>4 DEF Roles
  <2>6. Emptied' /\ job'.at = "sync"
    BY <2>3, <2>5, EmptiedThen DEF EndsFailing, Emptied
  <2> QED
    BY <2>2, <2>3, <2>6, EndHeld DEF MayShutDown
<1> QED
  BY <1>3, <1>4 DEF UnloadAllAnswered

\* A transcription or a synthesis.
LEMMA WorkHeld ==
  ASSUME HubInv, HeldInv, NEW a, NEW n, Answer(a, n), WorkAnswered(a, n)
  PROVE  LoadedMeansHeld' /\ Stages' /\ ~MayShutDown
<1> DEFINE r == job.cmd.role
           k == IF WorkKills(r, a) THEN KillWorker(n, r) ELSE n
<1>1. job.at = "work" /\ SetWorkers(k, {}) /\ job'.at = "sync"
  BY DEF WorkAnswered, InRequest
<1>2. RequestRole = r /\ RequestCmd = "other" /\ r \in Roles
  BY <1>1, AnswerFacts, RequestFacts DEF Answer
<1>3. n \in Sound /\ \A t \in Roles : t \in unloadErr \/ Held(n, t)
  BY <1>2, AnswerFacts, AnswerHeld
<1> HIDE DEF r
<1>4. \A t \in Roles : t \in unloadErr \/ k.loaded[t] = NoModel \/ Held(k, t)
  <2>1. CASE WorkKills(r, a)
    <3>1. k = KillWorker(n, r)
      BY <2>1
    <3> HIDE DEF k
    <3>2. Kept(n, k, r) /\ k.loaded[r] = NoModel
      BY <1>2, <1>3, <3>1, KillKept
    <3> QED
      BY <1>2, <1>3, <3>2, PeerHeld, RoleFacts
  <2>2. CASE ~WorkKills(r, a)
    BY <1>3, <2>2
  <2> QED
    BY <2>1, <2>2
<1> HIDE DEF k
<1>5. LoadedMeansHeld'
  BY <1>1, <1>4, WorkersHeld DEF Held
<1> QED
  BY <1>1, <1>5 DEF Stages, MayShutDown

\* The tones.
LEMMA ListHeld ==
  ASSUME HubInv, HeldInv, NEW a, NEW n, Answer(a, n), ListAnswered(a, n)
  PROVE  LoadedMeansHeld' /\ Stages' /\ ~MayShutDown
<1>1. job.at = "list" /\ EndsFailing(n, {})
  BY DEF ListAnswered, InRequest, Ends
<1>2. RequestCmd = "other"
  BY <1>1, AnswerFacts, RequestFacts DEF Answer
<1>3. \A t \in Roles : t \in unloadErr \/ Held(n, t)
  BY <1>2, AnswerHeld
<1> QED
  BY <1>1, <1>3, EndHeld DEF MayShutDown

\* The workers go down.
LEMMA DownHeld ==
  ASSUME HubInv, HeldInv, NEW a, NEW n, Answer(a, n), DownAnswered(a, n)
  PROVE  LoadedMeansHeld' /\ Stages' /\ MayShutDown'
<1>1. ASSUME NEW r \in Roles, InRequest("downStt") \/ InRequest("downTts"),
             DownTtsNext(ShutDown(n, r))
      PROVE  LoadedMeansHeld' /\ Stages' /\ MayShutDown'
  <2> DEFINE k == ShutDown(n, r)
  <2>1. n \in Sound /\ n.loaded = workers.loaded
    BY AnswerFacts
  <2>2. Kept(n, k, r) /\ k.loaded = n.loaded
    BY <2>1, ShutDownKept
  <2>3. Emptied
    BY <1>1 DEF InRequest, HeldInv, Stages
  <2>4. DownTtsNext(k)
    BY <1>1
  <2> HIDE DEF k
  <2>5. k \in Manager
    BY <2>2 DEF Kept, Sound, Managed
  <2> QED
    BY <2>1, <2>2, <2>3, <2>4, <2>5, DownTtsHeld DEF Emptied
<1> QED
  BY <1>1, RoleFacts DEF DownAnswered

\* Any answer.
LEMMA AnsweredHeld ==
  ASSUME HubInv, HeldInv, NEW a \in Answers, Answered(a)
  PROVE  LoadedMeansHeld' /\ Stages' /\ (MayShutDown => MayShutDown')
<1>1. PICK n \in AfterAnswer(workers, RequestRole, RequestCmd, job.cmd.model, a) :
        \/ UnloadOldAnswered(a, n) \/ LoadRequestAnswered(a, n)
        \/ EvictAnswered(a, n) \/ RetryAnswered(a, n)
        \/ UnloadRequestAnswered(a, n) \/ UnloadAllAnswered(a, n)
        \/ WorkAnswered(a, n) \/ ListAnswered(a, n) \/ DownAnswered(a, n)
  BY DEF Answered
<1>2. Answer(a, n)
  BY DEF Answered, Answer
<1> QED
  BY <1>1, <1>2, UnloadOldHeld, LoadHeld, EvictHeld, RetryHeld, UnloadRequestHeld,
     UnloadAllHeld, WorkHeld, ListHeld, DownHeld

-----------------------------------------------------------------------------
(* The queue of commands, and the steps that fill it.                      *)

\* A sequence without its first element.
LEMMA TailFacts ==
  ASSUME NEW S, NEW s \in Seq(S), s # << >>
  PROVE  /\ Tail(s) \in Seq(S) /\ Len(Tail(s)) = Len(s) - 1 /\ Len(s) \in Nat \ {0}
         /\ DOMAIN s = 1..Len(s) /\ Head(s) = s[1]
         /\ \A i \in DOMAIN Tail(s) :
              i \in Nat \ {0} /\ i + 1 \in DOMAIN s /\ Tail(s)[i] = s[i + 1]
OBVIOUS

\* A thread that takes a command leaves a queue with a Shutdown in front only
\* behind the UnloadAll it takes.
LEMMA TakeQueue ==
  ASSUME HubInv, HeldInv, NEW kind, Takes(kind), kind = "UnloadAll" => MayShutDown'
  PROVE  CmdsInv' /\ TodoInv'
<1>1. /\ cmds \in Seq(GoodCmds) /\ cmds # << >> /\ Head(cmds).kind = kind
      /\ cmds' = Tail(cmds) /\ uiTodo' = uiTodo
  BY DEF HubInv, HubTypes, Takes, uiVars
<1>2. /\ cmds' \in Seq(GoodCmds) /\ Len(cmds') = Len(cmds) - 1 /\ Len(cmds) \in Nat \ {0}
      /\ DOMAIN cmds = 1..Len(cmds) /\ cmds[1].kind = kind
      /\ \A i \in DOMAIN cmds' :
           i \in Nat \ {0} /\ i + 1 \in DOMAIN cmds /\ cmds'[i] = cmds[i + 1]
  BY <1>1, TailFacts
<1>3. CmdsInv'
  <2> SUFFICES ASSUME NEW i \in DOMAIN cmds'
               PROVE  /\ cmds'[i].kind # "ListTones"
                      /\ cmds'[i].kind = "Shutdown" =>
                           IF i = 1 THEN MayShutDown' ELSE cmds'[i - 1].kind = "UnloadAll"
    BY DEF CmdsInv
  <2>1. i \in Nat \ {0} /\ i + 1 \in DOMAIN cmds /\ cmds'[i] = cmds[i + 1] /\ i + 1 # 1
    BY <1>2
  <2>2. /\ cmds[i + 1].kind # "ListTones"
        /\ cmds[i + 1].kind = "Shutdown" => cmds[(i + 1) - 1].kind = "UnloadAll"
    BY <2>1 DEF HeldInv, CmdsInv
  <2>3. (i + 1) - 1 = i
    BY <2>1
  <2>4. i # 1 => i - 1 \in DOMAIN cmds' /\ cmds'[i - 1] = cmds[i]
    <3> SUFFICES ASSUME i # 1 PROVE i - 1 \in DOMAIN cmds' /\ cmds'[i - 1] = cmds[i]
      OBVIOUS
    <3>1. i - 1 \in DOMAIN cmds'
      BY <1>2, <2>1
    <3>2. (i - 1) + 1 = i
      BY <2>1
    <3> QED
      BY <1>2, <3>1, <3>2
  <2> QED
    BY <1>2, <2>1, <2>2, <2>3, <2>4
<1>4. Cued => Cued'
  <2> SUFFICES ASSUME Cued PROVE Cued'
    OBVIOUS
  <2>1. cmds[Len(cmds)].kind = "UnloadAll"
    BY <1>1 DEF Cued
  <2>2. CASE Len(cmds) = 1
    <3>1. cmds' = << >>
      BY <1>2, <2>2
    <3> QED
      BY <1>2, <2>1, <2>2, <3>1 DEF Cued
  <2>3. CASE Len(cmds) # 1
    <3>1. cmds' # << >> /\ Len(cmds') \in DOMAIN cmds' /\ Len(cmds') + 1 = Len(cmds)
      BY <1>2, <2>3
    <3>2. cmds'[Len(cmds')] = cmds[Len(cmds)]
      BY <1>2, <3>1
    <3> QED
      BY <2>1, <3>1, <3>2 DEF Cued
  <2> QED
    BY <2>2, <2>3
<1>5. TodoInv'
  BY <1>1, <1>4 DEF HeldInv, TodoInv
<1> QED
  BY <1>3, <1>5

\* A step that leaves the queue and the handler alone.
LEMMA QueueKept ==
  ASSUME HeldInv, UNCHANGED << cmds, uiTodo >>, MayShutDown => MayShutDown',
         job.at # "idle" \/ UNCHANGED << job, workers.loaded >>
  PROVE  CmdsInv' /\ TodoInv'
<1>1. CmdsInv'
  BY DEF HeldInv, CmdsInv
<1>2. Cued => Cued'
  BY DEF Cued
<1> QED
  BY <1>1, <1>2 DEF HeldInv, TodoInv

\* What a handler does: it lists no tones, and it asks for a shutdown only
\* directly behind an UnloadAll.
Paired(s) ==
  \A i \in DOMAIN s :
    /\ s[i].step # "send" => s[i].cmd = NoCmd
    /\ s[i].cmd.kind # "ListTones"
    /\ s[i].cmd.kind = "Shutdown" => i # 1 /\ s[i - 1].cmd.kind = "UnloadAll"

\* One list of steps after the other.
LEMMA PairedConcat ==
  ASSUME NEW s \in Seq(GoodSteps), NEW t \in Seq(GoodSteps), Paired(s), Paired(t)
  PROVE  s \o t \in Seq(GoodSteps) /\ Paired(s \o t)
<1> DEFINE u == s \o t
<1>1. /\ u \in Seq(GoodSteps) /\ DOMAIN s = 1..Len(s) /\ DOMAIN t = 1..Len(t)
      /\ DOMAIN u = 1..(Len(s) + Len(t)) /\ Len(s) \in Nat /\ Len(t) \in Nat
      /\ \A i \in 1..Len(s) : u[i] = s[i]
      /\ \A i \in 1..(Len(s) + Len(t)) : i > Len(s) => u[i] = t[i - Len(s)]
  OBVIOUS
<1> HIDE DEF u
<1>2. ASSUME NEW i \in DOMAIN u
      PROVE  /\ u[i].step # "send" => u[i].cmd = NoCmd
             /\ u[i].cmd.kind # "ListTones"
             /\ u[i].cmd.kind = "Shutdown" => i # 1 /\ u[i - 1].cmd.kind = "UnloadAll"
  <2>1. i \in Nat \ {0}
    BY <1>1
  <2>2. CASE i <= Len(s)
    <3>1. i \in DOMAIN s /\ u[i] = s[i] /\ (i # 1 => u[i - 1] = s[i - 1])
      BY <1>1, <2>1, <2>2
    <3> QED
      BY <3>1 DEF Paired
  <2>3. CASE i > Len(s)
    <3> DEFINE j == i - Len(s)
    <3>1. j \in DOMAIN t /\ u[i] = t[j] /\ j >= 1 /\ j \in Nat
      BY <1>1, <2>1, <2>3
    <3>2. j # 1 => u[i - 1] = t[j - 1] /\ i # 1
      <4> SUFFICES ASSUME j # 1 PROVE u[i - 1] = t[j - 1] /\ i # 1
        OBVIOUS
      <4>1. i - 1 \in 1..(Len(s) + Len(t)) /\ i - 1 > Len(s) /\ (i - 1) - Len(s) = j - 1
        BY <1>1, <2>1, <2>3, <3>1
      <4> QED
        BY <1>1, <3>1, <4>1
    <3> HIDE DEF j
    <3> QED
      BY <3>1, <3>2 DEF Paired
  <2> QED
    BY <1>1, <2>1, <2>2, <2>3
<1> QED
  BY <1>1, <1>2 DEF Paired, u

\* A step on its own.
LEMMA PairedOne ==
  ASSUME NEW x \in GoodSteps, x.step # "send" => x.cmd = NoCmd,
         x.cmd.kind \notin {"ListTones", "Shutdown"}
  PROVE  << x >> \in Seq(GoodSteps) /\ Paired(<< x >>)
BY DEF Paired

\* What each step sends.
LEMMA StepFacts ==
  /\ NoCmd.kind = "none"
  /\ \A r : /\ Swap(r).step = "swap" /\ Swap(r).cmd = NoCmd
            /\ Unload(r).kind = "Unload" /\ Work(r).kind = "Work"
            /\ \A x : Load(r, x).kind = "Load"
  /\ \A p : Signal(p).step = "signal" /\ Signal(p).cmd = NoCmd
  /\ \A c : Send(c).step = "send" /\ Send(c).cmd = c
  /\ Exit.step = "exit" /\ Exit.cmd = NoCmd
  /\ CancelTtsWorker.kind = "CancelTtsWorker"
  /\ UnloadAllCmd.kind = "UnloadAll" /\ Shutdown.kind = "Shutdown"
BY DEF NoCmd, Swap, Unload, Work, Load, Signal, Send, Exit, CancelTtsWorker,
       UnloadAllCmd, Shutdown, Command

\* The lists of steps the handlers are made of.
LEMMA PairedParts ==
  /\ KillAllNow \in Seq(GoodSteps) /\ Paired(KillAllNow)
  /\ << >> \in Seq(GoodSteps) /\ Paired(<< >>)
  /\ LET cancel == << Swap("tts"), Send(CancelTtsWorker) >>
     IN  cancel \in Seq(GoodSteps) /\ Paired(cancel)
  /\ LET down == << Send(UnloadAllCmd), Send(Shutdown) >>
     IN  down \in Seq(GoodSteps) /\ Paired(down)
  /\ << Exit >> \in Seq(GoodSteps) /\ Paired(<< Exit >>)
  /\ << Send(UnloadAllCmd) >> \in Seq(GoodSteps) /\ Paired(<< Send(UnloadAllCmd) >>)
<1> USE CommandFacts, StepFacts, RoleFacts
<1>1. ASSUME NEW x \in GoodSteps, NEW y \in GoodSteps,
             x.step # "send" => x.cmd = NoCmd, x.cmd.kind \notin {"ListTones", "Shutdown"},
             y.step # "send" => y.cmd = NoCmd, y.cmd.kind # "ListTones",
             y.cmd.kind = "Shutdown" => x.cmd.kind = "UnloadAll"
      PROVE  << x, y >> \in Seq(GoodSteps) /\ Paired(<< x, y >>)
  BY <1>1 DEF Paired
<1>2. KillAllNow \in Seq(GoodSteps) /\ Paired(KillAllNow)
  BY <1>1 DEF KillAllNow
<1>3. << >> \in Seq(GoodSteps) /\ Paired(<< >>)
  BY DEF Paired
<1>4. /\ << Swap("tts"), Send(CancelTtsWorker) >> \in Seq(GoodSteps)
      /\ Paired(<< Swap("tts"), Send(CancelTtsWorker) >>)
  BY <1>1
<1>5. /\ << Send(UnloadAllCmd), Send(Shutdown) >> \in Seq(GoodSteps)
      /\ Paired(<< Send(UnloadAllCmd), Send(Shutdown) >>)
  BY <1>1
<1>6. /\ << Exit >> \in Seq(GoodSteps) /\ Paired(<< Exit >>)
      /\ << Send(UnloadAllCmd) >> \in Seq(GoodSteps) /\ Paired(<< Send(UnloadAllCmd) >>)
  BY PairedOne
<1> QED
  BY <1>2, <1>3, <1>4, <1>5, <1>6

\* A handler that starts keeps to it.
LEMMA HandlesHeld ==
  ASSUME HubInv, HeldInv, NEW h, NEW steps \in Seq(GoodSteps), Paired(steps),
         Handles(h, steps)
  PROVE  HeldInv'
<1>1. /\ UNCHANGED << workers, job, cmds, unloadErr >> /\ uiTodo' = steps
  BY DEF Handles
<1>2. LoadedMeansHeld' /\ Stages' /\ CmdsInv'
  BY <1>1 DEF HeldInv, LoadedMeansHeld, Settled, RequestRole, RequestCmd, Stages, CmdsInv,
     MayShutDown, Emptied
<1>3. TodoInv'
  BY <1>1 DEF TodoInv, Paired
<1> QED
  BY <1>2, <1>3 DEF HeldInv

\* The handlers.
LEMMA UiHandlerHeld == ASSUME HubInv, HeldInv, UiHandler PROVE HeldInv'
<1>1. \A c \in GoodCmds : c.kind \notin {"ListTones", "Shutdown"} =>
        << Send(c) >> \in Seq(GoodSteps) /\ Paired(<< Send(c) >>)
  BY CommandFacts, StepFacts, PairedOne
<1>2. ASSUME NEW r \in Roles, NEW x \in ModelsOf(r), LoadModel(r, x) PROVE HeldInv'
  <2>1. Load(r, x) \in GoodCmds /\ Load(r, x).kind = "Load"
    BY CommandFacts, StepFacts
  <2> QED
    BY <1>1, <1>2, <2>1, HandlesHeld DEF LoadModel
<1>3. ASSUME NEW r \in Roles, UnloadModel(r) PROVE HeldInv'
  <2>1. Unload(r) \in GoodCmds /\ Unload(r).kind = "Unload"
    BY CommandFacts, StepFacts
  <2> QED
    BY <1>1, <1>3, <2>1, HandlesHeld DEF UnloadModel
<1>4. ASSUME NEW r \in Roles, StartWork(r) PROVE HeldInv'
  <2>1. Work(r) \in GoodCmds /\ Work(r).kind = "Work"
    BY CommandFacts, StepFacts
  <2> QED
    BY <1>1, <1>4, <2>1, HandlesHeld DEF StartWork
<1>5. ASSUME StopSpeech PROVE HeldInv'
  BY <1>5, PairedParts, HandlesHeld DEF StopSpeech
<1>6. ASSUME NEW f \in BOOLEAN, UnloadAllModels(f) PROVE HeldInv'
  <2> DEFINE first == IF f THEN << Swap("tts"), Send(CancelTtsWorker) >> ELSE << >>
             steps == first \o KillAllNow \o << Send(UnloadAllCmd) >>
  <2>1. first \in Seq(GoodSteps) /\ Paired(first)
    BY PairedParts
  <2>2. Handles("unloadAll", steps)
    BY <1>6 DEF UnloadAllModels
  <2> HIDE DEF first
  <2>3. first \o KillAllNow \in Seq(GoodSteps) /\ Paired(first \o KillAllNow)
    BY <2>1, PairedParts, PairedConcat
  <2>4. steps \in Seq(GoodSteps) /\ Paired(steps)
    BY <2>3, PairedParts, PairedConcat
  <2> HIDE DEF steps
  <2> QED
    BY <2>2, <2>4, HandlesHeld
<1>7. ASSUME Quit PROVE HeldInv'
  <2> DEFINE down == << Send(UnloadAllCmd), Send(Shutdown) >>
             head == KillAllNow \o down
             last == << Send(UnloadAllCmd), Send(Shutdown), Exit >>
             steps == head \o KillAllNow \o last
  <2>1. last \in Seq(GoodSteps) /\ Paired(last)
    <3>1. down \o << Exit >> \in Seq(GoodSteps) /\ Paired(down \o << Exit >>)
      BY PairedParts, PairedConcat
    <3>2. last = down \o << Exit >>
      OBVIOUS
    <3> QED
      BY <3>1, <3>2
  <2>2. Handles("quit", steps)
    BY <1>7 DEF Quit
  <2>3. down \in Seq(GoodSteps) /\ Paired(down)
    BY PairedParts
  <2> HIDE DEF down, last
  <2>4. head \in Seq(GoodSteps) /\ Paired(head)
    BY <2>3, PairedParts, PairedConcat
  <2> HIDE DEF head
  <2>5. head \o KillAllNow \in Seq(GoodSteps) /\ Paired(head \o KillAllNow)
    BY <2>4, PairedParts, PairedConcat
  <2>6. steps \in Seq(GoodSteps) /\ Paired(steps)
    BY <2>1, <2>5, PairedConcat
  <2> HIDE DEF steps
  <2> QED
    BY <2>2, <2>6, HandlesHeld
<1> QED
  BY <1>2, <1>3, <1>4, <1>5, <1>6, <1>7 DEF UiHandler

\* Nothing is disturbed by a process that ends or by one that is none of ours.
LEMMA ProcsHeld ==
  ASSUME HubInv, HeldInv, NEW p \in Pids, NEW st \in {"zombie", "free", "foreign"},
         workers' = [workers EXCEPT !.procs[p] = InState(st)],
         UNCHANGED << job, unloadErr >>
  PROVE  LoadedMeansHeld' /\ Stages' /\ (MayShutDown => MayShutDown')
         /\ UNCHANGED workers.loaded
<1>1. workers \in Managed /\ InState(st) \in Process /\ InState(st).st = st
  BY DEF HubInv, HubTypes, InState, Process
<1>2. /\ workers'.client = workers.client /\ workers'.loaded = workers.loaded
      /\ \A r \in Roles : Running(workers', r) =>
           Running(workers, r) /\ ProcOf(workers', r) = ProcOf(workers, r)
  <2> DEFINE q == InState(st)
             n == [workers EXCEPT !.procs[p] = q]
  <2> HIDE DEF q
  <2>1. /\ n.client = workers.client /\ n.loaded = workers.loaded /\ n.procs[p] = q
        /\ \A o \in Pids \ {p} : n.procs[o] = workers.procs[o]
    BY <1>1, SetProcManaged DEF q
  <2>2. \A r \in Roles : workers.client[r].live => workers.client[r].pid \in Pids
    BY <1>1, ManagerFacts
  <2>3. q.st # "running"
    BY <1>1 DEF q
  <2>4. workers' = n
    BY DEF q
  <2> HIDE DEF n
  <2>5. ASSUME NEW r \in Roles, Running(n, r)
        PROVE  Running(workers, r) /\ ProcOf(n, r) = ProcOf(workers, r)
    <3>1. workers.client[r].live /\ n.procs[workers.client[r].pid].st = "running"
      BY <2>1, <2>5 DEF Running, ProcOf
    <3>2. workers.client[r].pid \in Pids \ {p}
      BY <2>1, <2>2, <2>3, <3>1
    <3> QED
      BY <2>1, <3>1, <3>2 DEF Running, ProcOf
  <2> QED
    BY <2>1, <2>4, <2>5
<1>3. LoadedMeansHeld'
  BY <1>2 DEF HeldInv, LoadedMeansHeld, HasClient, Settled, RequestRole, RequestCmd
<1> QED
  BY <1>2, <1>3 DEF HeldInv, Stages, Emptied, MayShutDown

\* The step in front is done; what replaces it sends nothing.
LEMMA TodoTail ==
  ASSUME HubInv, HeldInv, uiTodo # << >>, Head(uiTodo).step # "send",
         \/ uiTodo' = Tail(uiTodo)
         \/ \E p \in Pids : uiTodo' = << Signal(p) >> \o Tail(uiTodo)
  PROVE  TodoInv'
<1>1. uiTodo \in Seq(GoodSteps)
  BY DEF HubInv, HubTypes
<1> DEFINE t == Tail(uiTodo)
<1>2. /\ t \in Seq(GoodSteps) /\ DOMAIN uiTodo = 1..Len(uiTodo) /\ Len(uiTodo) \in Nat \ {0}
      /\ Len(t) = Len(uiTodo) - 1 /\ Head(uiTodo) = uiTodo[1]
      /\ \A i \in DOMAIN t :
           i \in Nat \ {0} /\ i + 1 \in DOMAIN uiTodo /\ t[i] = uiTodo[i + 1]
  BY <1>1, TailFacts
<1> HIDE DEF t
<1>3. uiTodo[1].cmd.kind = "none"
  BY <1>2, StepFacts DEF HeldInv, TodoInv
<1>4. Paired(t)
  <2> SUFFICES ASSUME NEW i \in DOMAIN t
               PROVE  /\ t[i].step # "send" => t[i].cmd = NoCmd
                      /\ t[i].cmd.kind # "ListTones"
                      /\ t[i].cmd.kind = "Shutdown" => i # 1 /\ t[i - 1].cmd.kind = "UnloadAll"
    BY DEF Paired
  <2>1. i \in Nat \ {0} /\ i + 1 \in DOMAIN uiTodo /\ t[i] = uiTodo[i + 1] /\ i + 1 # 1
        /\ (i + 1) - 1 = i
    BY <1>2
  <2>2. /\ uiTodo[i + 1].step # "send" => uiTodo[i + 1].cmd = NoCmd
        /\ uiTodo[i + 1].cmd.kind # "ListTones"
        /\ uiTodo[i + 1].cmd.kind = "Shutdown" => uiTodo[i].cmd.kind = "UnloadAll"
    BY <2>1 DEF HeldInv, TodoInv
  <2>3. i # 1 => t[i - 1] = uiTodo[i]
    <3> SUFFICES ASSUME i # 1 PROVE t[i - 1] = uiTodo[i]
      OBVIOUS
    <3>1. i - 1 \in DOMAIN t /\ (i - 1) + 1 = i
      BY <1>2, <2>1
    <3> QED
      BY <1>2, <3>1
  <2> QED
    BY <1>3, <2>1, <2>2, <2>3
<1>5. CASE uiTodo' = t
  BY <1>4, <1>5 DEF Paired, TodoInv
<1>6. ASSUME NEW p \in Pids, uiTodo' = << Signal(p) >> \o t PROVE TodoInv'
  <2>1. << Signal(p) >> \in Seq(GoodSteps) /\ Paired(<< Signal(p) >>)
    BY CommandFacts, StepFacts, PairedOne
  <2>2. Paired(<< Signal(p) >> \o t)
    BY <1>2, <1>4, <2>1, PairedConcat
  <2> QED
    BY <1>6, <2>2 DEF Paired, TodoInv
<1> QED
  BY <1>5, <1>6 DEF t

\* A step that changes neither the workers, the job thread nor the queue.
LEMMA QuietHeld ==
  ASSUME HubInv, HeldInv, UNCHANGED << workers, job, cmds, unloadErr >>
  PROVE  /\ LoadedMeansHeld' /\ Stages' /\ CmdsInv'
         /\ MayShutDown => MayShutDown'
BY DEF HeldInv, LoadedMeansHeld, Settled, RequestRole, RequestCmd, Stages, CmdsInv,
       MayShutDown, Emptied

\* The steps of a handler.
LEMMA UiStepHeld == ASSUME HubInv, HeldInv, UiStep PROVE HeldInv'
<1> DEFINE s == Head(uiTodo)
<1>1. /\ uiTodo \in Seq(GoodSteps) /\ live \in [Roles -> Pids \union {NoPid}]
      /\ cmds \in Seq(GoodCmds)
  BY DEF HubInv, HubTypes
<1>2. ASSUME uiTodo # << >>
      PROVE  s \in GoodSteps /\ s.role \in Roles /\ (s.step = "signal" => s.pid \in Pids)
  <2>1. s \in GoodSteps
    BY <1>1, <1>2
  <2> QED
    BY <2>1 DEF GoodSteps, UiSteps
<1>3. CASE SwapPid
  <2>1. uiTodo # << >> /\ s.step = "swap" /\ UNCHANGED unloadErr
    BY <1>3 DEF SwapPid, UiTakes
  <2>2. /\ uiTodo' = IF live[s.role] = NoPid THEN Tail(uiTodo)
                     ELSE << Signal(live[s.role]) >> \o Tail(uiTodo)
        /\ UNCHANGED << workers, job, cmds >>
    BY <1>3 DEF SwapPid
  <2>3. live[s.role] \in Pids \union {NoPid}
    BY <1>1, <1>2, <2>1
  <2>4. TodoInv'
    BY <2>1, <2>2, <2>3, TodoTail
  <2> QED
    BY <2>1, <2>2, <2>4, QuietHeld DEF HeldInv
<1>4. CASE SignalPid
  <2>1. uiTodo # << >> /\ s.step = "signal" /\ UNCHANGED unloadErr
    BY <1>4 DEF SignalPid, UiTakes
  <2> DEFINE p == s.pid
  <2>2. /\ workers' = Sigkill(workers, p) /\ uiTodo' = Tail(uiTodo)
        /\ UNCHANGED << job, cmds >>
    BY <1>4 DEF SignalPid
  <2>3. p \in Pids
    BY <1>2, <2>1
  <2>4. TodoInv'
    BY <2>1, <2>2, TodoTail
  <2>5. /\ LoadedMeansHeld' /\ Stages' /\ (MayShutDown => MayShutDown')
        /\ UNCHANGED workers.loaded
    <3>1. CASE workers.procs[p].st \in {"running", "foreign"}
      <4> DEFINE st == IF workers.procs[p].st = "running" THEN "zombie" ELSE "free"
      <4>1. workers' = [workers EXCEPT !.procs[p] = InState(st)]
        BY <2>2, <3>1 DEF Sigkill
      <4>2. st \in {"zombie", "free", "foreign"}
        OBVIOUS
      <4> HIDE DEF st, p
      <4> QED
        BY <2>1, <2>2, <2>3, <4>1, <4>2, ProcsHeld
    <3>2. CASE workers.procs[p].st \notin {"running", "foreign"}
      <4>1. workers' = workers
        BY <2>2, <3>2 DEF Sigkill
      <4> HIDE DEF p, s
      <4> QED
        BY <2>1, <2>2, <4>1, QuietHeld
    <3> QED
      BY <3>1, <3>2
  <2>6. CmdsInv'
    BY <2>2, <2>5 DEF HeldInv, CmdsInv
  <2> QED
    BY <2>4, <2>5, <2>6 DEF HeldInv
<1>5. CASE SendCmd
  <2>1. uiTodo # << >> /\ s.step = "send" /\ UNCHANGED unloadErr
    BY <1>5 DEF SendCmd, UiTakes
  <2>2. /\ cmds' = Append(cmds, s.cmd) /\ uiTodo' = Tail(uiTodo)
        /\ UNCHANGED << workers, job >>
    BY <1>5 DEF SendCmd
  <2>3. /\ DOMAIN uiTodo = 1..Len(uiTodo) /\ Len(uiTodo) \in Nat \ {0} /\ s = uiTodo[1]
        /\ \A i \in DOMAIN uiTodo' :
             i \in Nat \ {0} /\ i + 1 \in DOMAIN uiTodo /\ uiTodo'[i] = uiTodo[i + 1]
    BY <1>1, <2>1, <2>2, TailFacts
  <2> DEFINE c == s.cmd
  <2>4. c \in GoodCmds
    BY <1>1, <1>2, <2>1 DEF GoodSteps, UiSteps
  <2>5. c.kind # "ListTones" /\ (c.kind = "Shutdown" => Cued)
    BY <2>3 DEF HeldInv, TodoInv
  <2>6. cmds' = Append(cmds, c)
    BY <2>2
  <2> HIDE DEF c
  <2>7. /\ DOMAIN cmds = 1..Len(cmds) /\ Len(cmds) \in Nat /\ Len(cmds') = Len(cmds) + 1
        /\ DOMAIN cmds' = 1..(Len(cmds) + 1) /\ cmds'[Len(cmds) + 1] = c /\ cmds' # << >>
        /\ \A i \in 1..Len(cmds) : cmds'[i] = cmds[i]
    BY <1>1, <2>4, <2>6
  <2>8. MayShutDown = MayShutDown'
    BY <2>1, <2>2 DEF MayShutDown, Emptied
  <2>9. CmdsInv'
    <3> SUFFICES ASSUME NEW i \in DOMAIN cmds'
                 PROVE  /\ cmds'[i].kind = "ListTones" =>
                             /\ i = 1 /\ job.at = "idle"
                             /\ \A r \in Roles : workers.loaded[r] = NoModel
                        /\ cmds'[i].kind = "Shutdown" =>
                             IF i = 1 THEN MayShutDown ELSE cmds'[i - 1].kind = "UnloadAll"
      BY <2>2, <2>8 DEF CmdsInv
    <3>1. CASE i \in 1..Len(cmds)
      <4>1. i \in DOMAIN cmds /\ cmds'[i] = cmds[i] /\ (i # 1 => cmds'[i - 1] = cmds[i - 1])
        BY <2>7, <3>1
      <4> QED
        BY <4>1 DEF HeldInv, CmdsInv
    <3>2. CASE i = Len(cmds) + 1
      <4>1. cmds'[i] = c /\ (i = 1 => cmds = << >>)
            /\ (i # 1 => cmds # << >> /\ cmds'[i - 1] = cmds[Len(cmds)])
        BY <1>1, <2>7, <3>2
      <4> QED
        BY <2>5, <4>1 DEF Cued
    <3> QED
      BY <2>7, <3>1, <3>2
  <2>10. c.kind = "UnloadAll" => Cued'
    BY <2>7 DEF Cued
  <2>11. TodoInv'
    <3> SUFFICES ASSUME NEW i \in DOMAIN uiTodo'
                 PROVE  /\ uiTodo'[i].step # "send" => uiTodo'[i].cmd = NoCmd
                        /\ uiTodo'[i].cmd.kind # "ListTones"
                        /\ uiTodo'[i].cmd.kind = "Shutdown" =>
                             IF i = 1 THEN Cued' ELSE uiTodo'[i - 1].cmd.kind = "UnloadAll"
      BY DEF TodoInv
    <3>1. i \in Nat \ {0} /\ i + 1 \in DOMAIN uiTodo /\ uiTodo'[i] = uiTodo[i + 1]
          /\ i + 1 # 1 /\ (i + 1) - 1 = i
      BY <2>3
    <3>2. /\ uiTodo[i + 1].step # "send" => uiTodo[i + 1].cmd = NoCmd
          /\ uiTodo[i + 1].cmd.kind # "ListTones"
          /\ uiTodo[i + 1].cmd.kind = "Shutdown" => uiTodo[i].cmd.kind = "UnloadAll"
      BY <3>1 DEF HeldInv, TodoInv
    <3>3. i # 1 => uiTodo'[i - 1] = uiTodo[i]
      <4> SUFFICES ASSUME i # 1 PROVE uiTodo'[i - 1] = uiTodo[i]
        OBVIOUS
      <4>1. Len(uiTodo') = Len(uiTodo) - 1 /\ DOMAIN uiTodo' = 1..Len(uiTodo')
        BY <1>1, <2>1, <2>2
      <4>2. i - 1 \in DOMAIN uiTodo' /\ (i - 1) + 1 = i
        BY <2>3, <3>1, <4>1
      <4> QED
        BY <2>3, <4>2
    <3> QED
      BY <2>3, <2>10, <3>1, <3>2, <3>3 DEF c
  <2> HIDE DEF s
  <2> QED
    BY <2>1, <2>2, <2>9, <2>11
    DEF HeldInv, LoadedMeansHeld, Settled, RequestRole, RequestCmd, Stages, Emptied
<1>6. CASE ExitApp
  <2>1. uiTodo' = << >> /\ UNCHANGED << workers, job, cmds, unloadErr >>
    BY <1>6 DEF ExitApp, UiTakes
  <2>2. TodoInv'
    BY <2>1 DEF TodoInv
  <2> QED
    BY <2>1, <2>2, QuietHeld DEF HeldInv
<1> QED
  BY <1>3, <1>4, <1>5, <1>6 DEF UiStep

\* The processes.
LEMMA EnvironmentHeld == ASSUME HubInv, HeldInv, Environment PROVE HeldInv'
<1>1. PICK p \in Pids : \E st \in {"zombie", "free", "foreign"} : SetProc(p, st)
  <2>1. PICK p \in Pids : \/ WorkerDies(p) \/ PidReused(p)
                          \/ ForeignEnds(p) \/ WorkerSeesEof(p)
    BY DEF Environment
  <2> QED
    BY <2>1 DEF WorkerDies, PidReused, ForeignEnds, WorkerSeesEof
<1>2. PICK st \in {"zombie", "free", "foreign"} : SetProc(p, st)
  BY <1>1
<1>3. /\ workers' = [workers EXCEPT !.procs[p] = InState(st)]
      /\ UNCHANGED << job, cmds, unloadErr, uiTodo >>
  BY <1>2 DEF SetProc, uiVars
<1>4. /\ LoadedMeansHeld' /\ Stages' /\ (MayShutDown => MayShutDown')
      /\ UNCHANGED << job, workers.loaded >>
  BY <1>3, ProcsHeld
<1>5. CmdsInv' /\ TodoInv'
  BY <1>3, <1>4, QueueKept
<1> QED
  BY <1>4, <1>5 DEF HeldInv

\* The sync of the registry.
LEMMA SyncHeld == ASSUME HeldInv, SyncLivePids PROVE HeldInv'
<1>1. /\ job.at = "sync" /\ job'.at = "idle"
      /\ UNCHANGED << workers, cmds, unloadErr, uiTodo >>
  BY DEF SyncLivePids, uiVars
<1>2. Stages' /\ (MayShutDown => MayShutDown')
  BY <1>1 DEF Stages, MayShutDown, Emptied
<1>3. CmdsInv' /\ TodoInv'
  BY <1>1, <1>2, QueueKept
<1>4. \A r : Settled(r)
  BY <1>1 DEF Settled, Requests
<1>5. LoadedMeansHeld'
  BY <1>1, <1>4 DEF HeldInv, LoadedMeansHeld
<1> QED
  BY <1>2, <1>3, <1>5 DEF HeldInv

\* At the start nothing is loaded and only the tones are asked for.
LEMMA HeldInit == Init => HeldInv
<1> SUFFICES ASSUME Init PROVE HeldInv
  OBVIOUS
<1> USE DEF Init
<1>1. \A r \in Roles : workers.loaded[r] = NoModel
  BY DEF NewManager
<1>2. LoadedMeansHeld /\ Stages
  BY <1>1 DEF LoadedMeansHeld, Stages
<1>3. CmdsInv
  <2>1. ListTones.kind = "ListTones"
    BY DEF ListTones, Command
  <2>2. DOMAIN cmds = {1} /\ cmds[1] = ListTones
    OBVIOUS
  <2> QED
    BY <1>1, <2>1, <2>2 DEF CmdsInv
<1>4. TodoInv
  BY DEF TodoInv
<1> QED
  BY <1>2, <1>3, <1>4 DEF HeldInv

\* Every step keeps what is held.
LEMMA HeldStep == HubInv /\ HeldInv /\ [Next]_vars => HeldInv'
<1> SUFFICES ASSUME HubInv, HeldInv, [Next]_vars PROVE HeldInv'
  OBVIOUS
<1>1. CASE TakeCmd
  <2>1. PICK kind : Takes(kind) /\ (kind = "UnloadAll" => MayShutDown')
    BY <1>1, TakeUnloadAllHeld DEF TakeCmd, TakeLoad, TakeUnload, TakeUnloadAll, TakeWork,
       TakeCancelTtsWorker, TakeListTones, TakeShutdown
  <2>2. CmdsInv' /\ TodoInv'
    BY <2>1, TakeQueue
  <2>3. LoadedMeansHeld' /\ Stages'
    BY <1>1, TakeLoadHeld, TakeUnloadHeld, TakeUnloadAllHeld, TakeWorkHeld,
       TakeCancelTtsWorkerHeld, TakeListTonesHeld, TakeShutdownHeld DEF TakeCmd
  <2> QED
    BY <2>2, <2>3 DEF HeldInv
<1>2. CASE SyncLivePids
  BY <1>2, SyncHeld
<1>3. ASSUME NEW a \in Answers, Answered(a) PROVE HeldInv'
  <2>1. LoadedMeansHeld' /\ Stages' /\ (MayShutDown => MayShutDown')
    BY <1>3, AnsweredHeld
  <2>2. job.at # "idle" /\ UNCHANGED << cmds, uiTodo >>
    BY <1>3 DEF Answered, Requests, UnloadOldAnswered, LoadRequestAnswered, EvictAnswered,
       RetryAnswered, UnloadRequestAnswered, UnloadAllAnswered, WorkAnswered, ListAnswered,
       DownAnswered, InRequest, uiVars
  <2> QED
    BY <2>1, <2>2, QueueKept DEF HeldInv
<1>4. CASE UiHandler
  BY <1>4, UiHandlerHeld
<1>5. CASE UiStep
  BY <1>5, UiStepHeld
<1>6. CASE Environment
  BY <1>6, EnvironmentHeld
<1>7. CASE UNCHANGED vars
  <2>1. UNCHANGED << workers, job, cmds, unloadErr, uiTodo >>
    BY <1>7 DEF vars, uiVars
  <2>2. LoadedMeansHeld' /\ Stages' /\ CmdsInv' /\ (MayShutDown => MayShutDown')
    BY <2>1, QuietHeld
  <2>3. TodoInv'
    BY <2>1, <2>2, QueueKept
  <2> QED
    BY <2>2, <2>3 DEF HeldInv
<1> QED
  BY <1>1, <1>2, <1>3, <1>4, <1>5, <1>6, <1>7 DEF Next

-----------------------------------------------------------------------------
(* The two slots.                                                          *)

\* What the worker of role r has in memory, if one runs.
Mem(m, r) == IF Running(m, r) THEN ProcOf(m, r).model ELSE "gone"

\* The command c wants the model of role r out of the manager m.
Ousts(c, m, r) ==
  \/ c.kind = "Unload" /\ c.role = r
  \/ c.kind \in {"UnloadAll", "Shutdown"}
  \/ c.kind = "Load" /\ c.role = r /\ c.model # m.loaded[r]
  \/ c.kind = "Load" /\ c.role = Peer(r) /\ m.loaded[Peer(r)] = NoModel

Risky(c, r) == c.kind \in {"Work", "CancelTtsWorker"} /\ c.role = r

\* From m to n the slot of role r changes as ModelSlots allows under the command c.
Moves(c, m, n, r) ==
  \/ /\ c.kind \in {"Load", "ListTones"} /\ c.role = r
     /\ m.loaded[r] = NoModel /\ Mem(m, r) = "gone"
     /\ n.loaded[r] = NoModel /\ Mem(n, r) = NoModel
  \/ /\ c.kind = "Load" /\ c.role = r
     /\ m.loaded[r] = NoModel /\ Mem(m, r) \in {NoModel, Adrift}
     /\ n.loaded[r] = c.model /\ Mem(n, r) = c.model
  \/ /\ c.kind = "Load" /\ c.role = r
     /\ m.loaded[r] = NoModel /\ Mem(m, r) # "gone"
     /\ n.loaded[r] = NoModel /\ Mem(n, r) = Adrift
  \/ /\ Ousts(c, m, r) /\ Mem(m, r) # "gone"
     /\ n.loaded[r] \in {NoModel, m.loaded[r]} /\ Mem(n, r) = NoModel
  \/ n.loaded[r] = m.loaded[r] /\ Mem(n, r) \in {Mem(m, r), "gone"}
  \/ /\ Ousts(c, m, r) \/ Risky(c, r)
     /\ n.loaded[r] = NoModel /\ Mem(n, r) = "gone"

\* What a worker holds is counted, in the middle of its requests too, or nothing
\* is counted because nobody knows what the worker holds.
TrueSlot(m, r) ==
  \/ Mem(m, r) \in {"gone", NoModel, m.loaded[r]}
  \/ Mem(m, r) = Adrift /\ m.loaded[r] = NoModel

\* A worker that runs holds a model or none.
LEMMA MemFacts ==
  ASSUME NEW m \in Managed, NEW r \in Roles
  PROVE  /\ Running(m, r) => Mem(m, r) = ProcOf(m, r).model /\ Mem(m, r) # "gone"
         /\ ~Running(m, r) => Mem(m, r) = "gone"
         /\ ~HasClient(m, r) => Mem(m, r) = "gone"
<1>1. ASSUME Running(m, r) PROVE ProcOf(m, r).model \in Models \union {NoModel, Adrift}
  <2>1. m.client[r].pid \in Pids /\ m.procs \in [Pids -> Process]
    BY <1>1, ManagerFacts DEF Running
  <2> QED
    BY <2>1 DEF ProcOf, Process
<1>2. "gone" \notin Models \union {NoModel, Adrift}
  BY DEF Models, ModelsOf, Roles, NoModel, Adrift
<1>3. ~HasClient(m, r) => ~Running(m, r)
  BY NoClientRuns
<1> QED
  BY <1>1, <1>2, <1>3 DEF Mem

\* A change of one role leaves the slot of the other.
LEMMA PeerMem ==
  ASSUME NEW m, NEW n, NEW r, Kept(m, n, r)
  PROVE  n.loaded[Peer(r)] = m.loaded[Peer(r)] /\ Mem(n, Peer(r)) = Mem(m, Peer(r))
BY DEF Kept, Mem, Running, ProcOf

\* If the other role moves as allowed, both do.
LEMMA OneMoves ==
  ASSUME NEW m, NEW n, NEW r \in Roles, Kept(m, n, r), NEW c, Moves(c, m, n, r)
  PROVE  \A s \in Roles : Moves(c, m, n, s)
<1>1. Moves(c, m, n, Peer(r))
  BY PeerMem DEF Moves
<1> QED
  BY <1>1, RoleFacts

\* Nothing moves.
LEMMA NoneMoves ==
  ASSUME NEW m, NEW n, n.client = m.client, n.procs = m.procs, n.loaded = m.loaded
  PROVE  \A c, r : Moves(c, m, n, r)
BY DEF Moves, Mem, Running, ProcOf

\* What a later change of the other role does not touch.
LEMMA StillMoves ==
  ASSUME NEW m, NEW n, NEW k, NEW r \in Roles, Kept(n, k, Peer(r)), NEW c, Moves(c, m, n, r)
  PROVE  Moves(c, m, k, r)
<1>1. Peer(Peer(r)) = r
  BY RoleFacts
<1>2. k.loaded[r] = n.loaded[r] /\ Mem(k, r) = Mem(n, r)
  BY <1>1, PeerMem
<1> QED
  BY <1>2 DEF Moves

\* What is held is counted, and stays so.
LEMMA MovesTrue ==
  ASSUME NEW c, NEW m, NEW n, NEW r, TrueSlot(m, r), Moves(c, m, n, r)
  PROVE  TrueSlot(n, r)
BY DEF TrueSlot, Moves

\* The command a request serves.
KindAt(at) ==
  CASE at \in {"unloadOld", "load", "evict", "retry"} -> "Load"
    [] at = "unload"                     -> "Unload"
    [] at \in {"unloadStt", "unloadTts"} -> "UnloadAll"
    [] at = "work"                       -> "Work"
    [] at = "list"                       -> "ListTones"
    [] OTHER                             -> "Shutdown"

\* Each request serves a command of its kind, and only a load of another model
\* unloads the old one.
ServingInv ==
  /\ job.at \in Requests => job.cmd.kind = KindAt(job.at)
  /\ job.at = "unloadOld" => workers.loaded[job.cmd.role] # job.cmd.model

SlotInv == ServingInv /\ \A r \in Roles : TrueSlot(workers, r)

\* What is to be shown of a step of the job thread.
SlotsMove == ServingInv' /\ \A r \in Roles : Moves(AtHand, workers, workers', r)

\* A command that ends serves nothing more.
LEMMA EndsServing ==
  ASSUME job'.at \in {"idle", "sync", "exited"}
  PROVE  ServingInv'
BY DEF ServingInv, Requests

\* A request of a command of its kind.
LEMMA AsksServing ==
  ASSUME NEW at, NEW c, job' = [at |-> at, cmd |-> c], c.kind = KindAt(at),
         at = "unloadOld" => workers'.loaded[c.role] # c.model
  PROVE  ServingInv'
<1>1. job'.at = at /\ job'.cmd = c
  OBVIOUS
<1> QED
  BY <1>1 DEF ServingInv

\* A thread that takes a command serves the first of the queue.
LEMMA TakesServe ==
  ASSUME HubInv, NEW kind, Takes(kind)
  PROVE  /\ AtHand = Head(cmds) /\ AtHand \in GoodCmds /\ AtHand.kind = kind
         /\ AtHand.role \in Roles
         /\ kind \in {"ListTones", "CancelTtsWorker"} => AtHand.role = "tts"
         /\ workers \in Sound /\ workers \in Managed
<1>1. AtHand = Head(cmds) /\ Head(cmds).kind = kind /\ job.at = "idle" /\ app # "gone"
  BY DEF Takes, AtHand
<1>2. cmds \in Seq(GoodCmds) /\ cmds # << >>
  BY DEF HubInv, HubTypes, Takes
<1>3. Head(cmds) \in GoodCmds
  BY <1>2
<1>4. workers \in Sound /\ workers \in Managed
  BY <1>1 DEF HubInv, HubTypes, Sound
<1> QED
  BY <1>1, <1>3, <1>4, GoodCmdFacts DEF GoodCmds

\* ensure_worker for a role that counts nothing starts a worker at most.
LEMMA EnsureMoves ==
  ASSUME workers \in Sound, NEW c, AtHand = c, NEW r \in Roles,
         c.role = r, workers.loaded[r] = NoModel,
         NEW at \in {"load", "list"}, c.kind = KindAt(at), EnsureThen(workers, r, at, c)
  PROVE  SlotsMove
<1>0. workers \in Managed /\ c.kind \in {"Load", "ListTones"}
  BY DEF Sound, KindAt
<1>1. ASSUME NEW n \in Ensured(workers, r), Asks(n, at, c) PROVE SlotsMove
  <2>1. /\ Kept(workers, n, r) /\ n.loaded = workers.loaded
        /\ IF Running(workers, r) THEN n = workers
                                  ELSE Running(n, r) /\ ProcOf(n, r).model = NoModel
    BY EnsuredKept
  <2>2. workers' = n /\ job' = [at |-> at, cmd |-> c]
    BY <1>1 DEF Asks, SetWorkers
  <2>3. Moves(c, workers, n, r)
    <3>1. CASE Running(workers, r)
      BY <2>1, <3>1, NoneMoves
    <3>2. CASE ~Running(workers, r)
      <4>1. Mem(workers, r) = "gone" /\ Mem(n, r) = NoModel
        BY <1>0, <2>1, <3>2, MemFacts DEF Mem
      <4> QED
        BY <1>0, <2>1, <4>1 DEF Moves
    <3> QED
      BY <3>1, <3>2
  <2>4. ServingInv'
    BY <2>2, AsksServing
  <2> QED
    BY <2>1, <2>2, <2>3, <2>4, OneMoves DEF SlotsMove
<1>2. ASSUME Ends(Reap(workers, r)) PROVE SlotsMove
  <2> DEFINE n == Reap(workers, r)
  <2>1. Kept(workers, n, r) /\ n.loaded = workers.loaded /\ ~Running(n, r)
    BY ReapKept
  <2>2. workers' = n /\ job'.at = "sync"
    BY <1>2 DEF Ends, EndsFailing, SetWorkers
  <2> HIDE DEF n
  <2>3. Moves(c, workers, n, r)
    BY <2>1 DEF Moves, Mem
  <2> QED
    BY <2>1, <2>2, <2>3, EndsServing, OneMoves DEF SlotsMove
<1> QED
  BY <1>1, <1>2 DEF EnsureThen

\* Clearing the slot of a role without a client.
LEMMA UnmarkMoves ==
  ASSUME NEW m \in Sound, NEW r \in Roles, ~HasClient(m, r), NEW w, NEW c,
         Ousts(c, w, r)
  PROVE  LET n == MarkUnloaded(m, r)
         IN  Kept(m, n, r) /\ Moves(c, w, n, r) /\ n.client = m.client
<1> DEFINE n == MarkUnloaded(m, r)
<1>1. Kept(m, n, r) /\ n.loaded[r] = NoModel /\ n.client = m.client
  BY UnmarkKept
<1> HIDE DEF n
<1>2. Mem(n, r) = "gone"
  BY <1>1, MemFacts DEF Kept, Sound, HasClient
<1> QED
  BY <1>1, <1>2 DEF n, Moves

\* load_timeout.
LEMMA TakeLoadMoves == ASSUME HubInv, TakeLoad PROVE SlotsMove
<1> DEFINE c == AtHand
           r == c.role
<1>1. Takes("Load")
  BY DEF TakeLoad
<1>2. /\ c = Head(cmds) /\ c \in GoodCmds /\ c.kind = "Load" /\ r \in Roles
      /\ workers \in Sound
  BY <1>1, TakesServe
<1> HIDE DEF c
<1>3. CASE Ends(workers)
  <2>1. workers' = workers /\ job'.at = "sync"
    BY <1>3 DEF Ends, EndsFailing, SetWorkers
  <2> QED
    BY <2>1, EndsServing, NoneMoves DEF SlotsMove
<1>4. CASE workers.loaded[r] # c.model /\ Asks(workers, "unloadOld", c)
  <2>1. workers' = workers /\ job' = [at |-> "unloadOld", cmd |-> c]
    BY <1>4 DEF Asks, SetWorkers
  <2>2. ServingInv'
    BY <1>2, <1>4, <2>1, AsksServing DEF KindAt
  <2> QED
    BY <2>1, <2>2, NoneMoves DEF SlotsMove
<1>5. CASE workers.loaded[r] = NoModel /\ EnsureThen(workers, r, "load", c)
  <2>1. c.kind = KindAt("load") /\ AtHand = c
    BY <1>2 DEF KindAt, c
  <2> QED
    BY <1>2, <1>5, <2>1, EnsureMoves
<1> QED
  BY <1>2, <1>3, <1>4, <1>5 DEF TakeLoad

\* The second half of unload_all, on m, when the first is done.
LEMMA UnloadTtsMoves ==
  ASSUME NEW m, Kept(workers, m, "stt"), AtHand.kind = "UnloadAll", NEW c, c.kind = "UnloadAll",
         Moves(AtHand, workers, m, "stt"), NEW failed, UnloadTtsNext(m, failed, c)
  PROVE  SlotsMove
<1>0. m \in Sound /\ Ousts(AtHand, workers, "tts")
  BY DEF Kept, Ousts
<1>1. CASE HasClient(m, "tts")
  <2>1. workers' = m /\ job' = [at |-> "unloadTts", cmd |-> c]
    BY <1>1 DEF UnloadTtsNext, SetWorkers
  <2>2. ServingInv'
    BY <2>1, AsksServing DEF KindAt
  <2> QED
    BY <2>1, <2>2, OneMoves, RoleFacts DEF SlotsMove
<1>2. CASE ~HasClient(m, "tts")
  <2> DEFINE n == MarkUnloaded(m, "tts")
  <2>1. workers' = n /\ job'.at = "sync"
    BY <1>2 DEF UnloadTtsNext, EndsFailing, SetWorkers
  <2>2. Kept(m, n, "tts") /\ Moves(AtHand, workers, n, "tts")
    BY <1>0, <1>2, UnmarkMoves, RoleFacts
  <2> HIDE DEF n
  <2>3. Moves(AtHand, workers, n, "stt")
    BY <2>2, StillMoves, RoleFacts
  <2> QED
    BY <2>1, <2>2, <2>3, EndsServing DEF SlotsMove, Roles
<1> QED
  BY <1>1, <1>2

\* Without clients the slots are cleared and the job thread is done.
LEMMA DownMoves ==
  ASSUME NEW m \in Sound, AtHand.kind = "Shutdown", \A r \in Roles : ~HasClient(m, r),
         DownTtsNext(m)
  PROVE  SlotsMove
<1>0. m \in Managed /\ \A r \in Roles : Ousts(AtHand, workers, r)
  BY DEF Ousts, Sound
<1> DEFINE n == [m EXCEPT !.loaded = NewManager.loaded]
<1>1. workers' = n /\ job'.at = "exited"
  BY RoleFacts DEF DownTtsNext, SetWorkers
<1>2. n.client = m.client /\ n.procs = m.procs /\ \A r \in Roles : n.loaded[r] = NoModel
  BY <1>0 DEF Managed, Manager, NewManager
<1> HIDE DEF n
<1>3. \A r \in Roles : Mem(m, r) = "gone"
  BY <1>0, MemFacts
<1>4. \A r \in Roles : Mem(n, r) = "gone"
  BY <1>2, <1>3 DEF Mem, Running, ProcOf
<1>5. \A r \in Roles : Moves(AtHand, workers, n, r)
  BY <1>0, <1>2, <1>4 DEF Moves
<1> QED
  BY <1>1, <1>5, EndsServing DEF SlotsMove

\* The second half of shutdown_all, on m.
LEMMA DownTtsMoves ==
  ASSUME NEW m, Kept(workers, m, "stt"), AtHand.kind = "Shutdown",
         Moves(AtHand, workers, m, "stt"), ~HasClient(m, "stt"), DownTtsNext(m)
  PROVE  SlotsMove
<1>0. m \in Sound
  BY DEF Kept
<1>1. CASE HasClient(m, "tts")
  <2>1. workers' = m /\ job' = [at |-> "downTts", cmd |-> Shutdown]
    BY <1>1 DEF DownTtsNext, Asks, SetWorkers
  <2>2. Shutdown.kind = "Shutdown"
    BY DEF Shutdown, Command
  <2>3. ServingInv'
    BY <2>1, <2>2, AsksServing DEF KindAt
  <2> QED
    BY <2>1, <2>3, OneMoves, RoleFacts DEF SlotsMove
<1>2. CASE ~HasClient(m, "tts")
  BY <1>0, <1>2, DownMoves DEF Roles
<1> QED
  BY <1>1, <1>2

\* unload asks a worker that is there, or only clears its slot.
LEMMA TakeUnloadMoves == ASSUME HubInv, TakeUnload PROVE SlotsMove
<1> DEFINE c == AtHand
           r == c.role
<1>1. Takes("Unload")
  BY DEF TakeUnload
<1>2. c = Head(cmds) /\ c.kind = "Unload" /\ r \in Roles /\ workers \in Sound
  BY <1>1, TakesServe
<1> HIDE DEF c
<1>3. CASE HasClient(workers, r)
  <2>1. workers' = workers /\ job' = [at |-> "unload", cmd |-> c]
    BY <1>2, <1>3 DEF TakeUnload, Asks, SetWorkers
  <2>2. ServingInv'
    BY <1>2, <2>1, AsksServing DEF KindAt
  <2> QED
    BY <2>1, <2>2, NoneMoves DEF SlotsMove
<1>4. CASE ~HasClient(workers, r)
  <2> DEFINE n == MarkUnloaded(workers, r)
  <2>1. workers' = n /\ job'.at = "sync"
    BY <1>2, <1>4 DEF TakeUnload, Ends, EndsFailing, SetWorkers
  <2>2. Ousts(c, workers, r)
    BY <1>2 DEF Ousts
  <2> HIDE DEF r
  <2>3. Kept(workers, n, r) /\ Moves(c, workers, n, r)
    BY <1>2, <1>4, <2>2, UnmarkMoves
  <2> QED
    BY <1>2, <2>1, <2>3, EndsServing, OneMoves DEF SlotsMove, c
<1> QED
  BY <1>3, <1>4

\* unload_all asks the STT worker first.
LEMMA TakeUnloadAllMoves == ASSUME HubInv, TakeUnloadAll PROVE SlotsMove
<1> DEFINE c == AtHand
<1>1. Takes("UnloadAll")
  BY DEF TakeUnloadAll
<1>2. c = Head(cmds) /\ c.kind = "UnloadAll" /\ workers \in Sound
  BY <1>1, TakesServe
<1>3. CASE HasClient(workers, "stt")
  <2>1. workers' = workers /\ job' = [at |-> "unloadStt", cmd |-> c]
    BY <1>2, <1>3 DEF TakeUnloadAll, Asks, SetWorkers
  <2> HIDE DEF c
  <2>2. ServingInv'
    BY <1>2, <2>1, AsksServing DEF KindAt
  <2> QED
    BY <2>1, <2>2, NoneMoves DEF SlotsMove
<1>4. CASE ~HasClient(workers, "stt")
  <2> DEFINE n == MarkUnloaded(workers, "stt")
  <2>1. UnloadTtsNext(n, {}, c)
    BY <1>2, <1>4 DEF TakeUnloadAll
  <2>2. Ousts(c, workers, "stt")
    BY <1>2 DEF Ousts
  <2>3. Kept(workers, n, "stt") /\ Moves(c, workers, n, "stt")
    BY <1>2, <1>4, <2>2, UnmarkMoves, RoleFacts
  <2> HIDE DEF n
  <2> QED
    BY <1>2, <2>1, <2>3, UnloadTtsMoves
<1> QED
  BY <1>3, <1>4

\* A transcription or a synthesis asks a loaded worker, or ends.
LEMMA TakeWorkMoves == ASSUME HubInv, TakeWork PROVE SlotsMove
<1>1. Takes("Work") /\ workers' = workers
  BY DEF TakeWork
<1>2. AtHand = Head(cmds) /\ AtHand.kind = "Work"
  BY <1>1, TakesServe
<1>3. job'.at = "sync" \/ job' = [at |-> "work", cmd |-> AtHand]
  BY <1>2 DEF TakeWork
<1>4. ServingInv'
  BY <1>2, <1>3, EndsServing, AsksServing DEF KindAt
<1> QED
  BY <1>1, <1>4, NoneMoves DEF SlotsMove

\* The kill of a synthesis risks the TTS worker and no other.
LEMMA TakeCancelTtsWorkerMoves == ASSUME HubInv, TakeCancelTtsWorker PROVE SlotsMove
<1> DEFINE n == KillWorker(workers, "tts")
<1>1. Takes("CancelTtsWorker") /\ workers' = n /\ job'.at = "sync"
  BY DEF TakeCancelTtsWorker, Ends, EndsFailing, SetWorkers
<1>2. workers \in Sound /\ AtHand.kind = "CancelTtsWorker" /\ AtHand.role = "tts"
  BY <1>1, TakesServe
<1>3. Kept(workers, n, "tts") /\ n.loaded["tts"] = NoModel /\ ~Running(n, "tts")
  BY <1>2, KillKept, RoleFacts
<1> HIDE DEF n
<1>4. Moves(AtHand, workers, n, "tts")
  BY <1>2, <1>3 DEF Moves, Mem, Risky
<1> QED
  BY <1>1, <1>3, <1>4, OneMoves, EndsServing, RoleFacts DEF SlotsMove

\* Tones are listed while no voice model is counted.
LEMMA TakeListTonesMoves == ASSUME HubInv, HeldInv, TakeListTones PROVE SlotsMove
<1> DEFINE c == AtHand
<1>1. Takes("ListTones")
  BY DEF TakeListTones
<1>2. /\ c = Head(cmds) /\ c.kind = "ListTones" /\ c.role = "tts"
      /\ workers \in Sound
  BY <1>1, TakesServe
<1>3. EnsureThen(workers, "tts", "list", c)
  BY <1>2 DEF TakeListTones
<1>4. workers.loaded["tts"] = NoModel
  <2>1. cmds \in Seq(GoodCmds) /\ cmds # << >> /\ Head(cmds).kind = "ListTones"
    BY <1>1 DEF HubInv, HubTypes, Takes
  <2>2. 1 \in DOMAIN cmds /\ cmds[1].kind = "ListTones"
    BY <2>1
  <2> QED
    BY <2>2, RoleFacts DEF HeldInv, CmdsInv
<1>5. AtHand = c /\ c.kind = KindAt("list")
  BY <1>2 DEF KindAt
<1> HIDE DEF c
<1> QED
  BY <1>2, <1>3, <1>4, <1>5, EnsureMoves, RoleFacts

\* shutdown_all asks the STT worker first.
LEMMA TakeShutdownMoves == ASSUME HubInv, TakeShutdown PROVE SlotsMove
<1>1. Takes("Shutdown")
  BY DEF TakeShutdown
<1>2. AtHand.kind = "Shutdown" /\ workers \in Sound
  BY <1>1, TakesServe
<1>3. CASE HasClient(workers, "stt")
  <2>1. workers' = workers /\ job' = [at |-> "downStt", cmd |-> Shutdown]
    BY <1>3 DEF TakeShutdown, Asks, SetWorkers
  <2>2. Shutdown.kind = "Shutdown"
    BY DEF Shutdown, Command
  <2>3. ServingInv'
    BY <2>1, <2>2, AsksServing DEF KindAt
  <2> QED
    BY <2>1, <2>3, NoneMoves DEF SlotsMove
<1>4. CASE ~HasClient(workers, "stt")
  <2>1. DownTtsNext(workers)
    BY <1>4 DEF TakeShutdown
  <2>2. Kept(workers, workers, "stt") /\ Moves(AtHand, workers, workers, "stt")
    BY <1>2, NoneMoves DEF Kept
  <2> QED
    BY <1>2, <1>4, <2>1, <2>2, DownTtsMoves
<1> QED
  BY <1>3, <1>4

\* What an answer leaves of the slot of the role asked.
LEMMA AnswerSlot ==
  ASSUME HubInv, ServingInv, NEW a, NEW n, Answer(a, n)
  PROVE  /\ AtHand = job.cmd /\ AtHand \in GoodCmds /\ AtHand.kind = KindAt(job.at)
         /\ AtHand.role \in Roles /\ RequestRole \in Roles
         /\ AtHand.kind = "ListTones" => AtHand.role = "tts"
         /\ n \in Sound /\ Kept(workers, n, RequestRole) /\ n.loaded = workers.loaded
         /\ IF a \in LivingAnswers
              THEN /\ Mem(workers, RequestRole) # "gone" /\ Mem(n, RequestRole) # "gone"
                   /\ Mem(n, RequestRole) =
                        ModelAfter(RequestCmd, AtHand.model, a, Mem(workers, RequestRole))
              ELSE Mem(n, RequestRole) = "gone"
<1> USE DEF Answer
<1> DEFINE r == RequestRole
<1>1. AtHand = job.cmd /\ AtHand.kind = KindAt(job.at)
  BY DEF AtHand, ServingInv, Requests
<1>2. AtHand \in GoodCmds /\ workers \in Sound /\ workers \in Managed
  BY <1>1 DEF HubInv, HubTypes, Sound
<1>3. r \in Roles /\ AtHand.role \in Roles /\ AtHand.model \in Models \union {NoModel}
  BY <1>1, <1>2, RequestFacts, GoodCmdFacts
<1>4. AtHand.kind = "ListTones" => AtHand.role = "tts"
  BY <1>2 DEF GoodCmds
<1>5. /\ Kept(workers, n, r) /\ n.loaded = workers.loaded
      /\ Running(n, r) =>
           /\ Running(workers, r) /\ a \in LivingAnswers
           /\ ProcOf(n, r).model =
                ModelAfter(RequestCmd, AtHand.model, a, ProcOf(workers, r).model)
      /\ a \in LivingAnswers => Running(n, r)
  BY <1>1, <1>2, <1>3, AnswerKept
<1> HIDE DEF r
<1>6. n \in Sound /\ n \in Managed
  BY <1>5 DEF Kept, Sound
<1>7. CASE a \in LivingAnswers
  <2>1. Running(n, r) /\ Running(workers, r)
    BY <1>5, <1>7
  <2>2. /\ Mem(n, r) = ProcOf(n, r).model /\ Mem(n, r) # "gone"
        /\ Mem(workers, r) = ProcOf(workers, r).model /\ Mem(workers, r) # "gone"
    BY <1>2, <1>3, <1>6, <2>1, MemFacts
  <2> QED
    BY <1>1, <1>2, <1>3, <1>4, <1>5, <1>6, <1>7, <2>1, <2>2 DEF r
<1>8. CASE a \notin LivingAnswers
  <2>1. Mem(n, r) = "gone"
    BY <1>5, <1>8 DEF Mem
  <2> QED
    BY <1>1, <1>2, <1>3, <1>4, <1>5, <1>6, <1>8, <2>1 DEF r
<1> QED
  BY <1>7, <1>8

\* An unload that the command at hand wants.
LEMMA UnloadMoves ==
  ASSUME HubInv, ServingInv, NEW a, NEW n, Answer(a, n), RequestCmd = "unload",
         NEW r, r = RequestRole, Ousts(AtHand, workers, r)
  PROVE  LET u == UnloadAnswered(n, r, a)
         IN  /\ Kept(workers, u.m, r) /\ Moves(AtHand, workers, u.m, r)
             /\ u.ok => Running(u.m, r) /\ u.m.loaded[r] = NoModel
<1>1. /\ r \in Roles /\ n \in Sound /\ Kept(workers, n, r) /\ n.loaded = workers.loaded
      /\ IF a \in LivingAnswers
           THEN Mem(workers, r) # "gone" /\ Mem(n, r) # "gone" /\ Mem(n, r) = NoModel
           ELSE Mem(n, r) = "gone"
  BY AnswerSlot DEF ModelAfter
<1>2. CASE a = "done"
  <2> DEFINE k == MarkUnloaded(n, r)
  <2>1. UnloadAnswered(n, r, a) = [m |-> k, ok |-> TRUE]
    BY <1>2 DEF UnloadAnswered, ErrorAnswers
  <2>2. Kept(n, k, r) /\ k.loaded[r] = NoModel /\ k.client = n.client /\ k.procs = n.procs
    BY <1>1, UnmarkKept
  <2> HIDE DEF k
  <2>3. Mem(k, r) = Mem(n, r) /\ (Mem(n, r) # "gone" => Running(k, r))
    BY <2>2 DEF Mem, Running, ProcOf
  <2>4. Moves(AtHand, workers, k, r)
    BY <1>1, <1>2, <2>2, <2>3 DEF Moves, LivingAnswers
  <2> QED
    BY <1>1, <1>2, <2>1, <2>2, <2>3, <2>4, KeptTwice DEF LivingAnswers
<1>3. CASE a \in ErrorAnswers
  <2>1. UnloadAnswered(n, r, a) = [m |-> n, ok |-> FALSE]
    BY <1>3 DEF UnloadAnswered, ErrorAnswers
  <2>2. Moves(AtHand, workers, n, r)
    BY <1>1, <1>3 DEF Moves, LivingAnswers
  <2> QED
    BY <1>1, <2>1, <2>2
<1>4. CASE a \notin {"done"} \union ErrorAnswers
  <2> DEFINE k == KillWorker(n, r)
  <2>1. UnloadAnswered(n, r, a) = [m |-> k, ok |-> FALSE]
    BY <1>4 DEF UnloadAnswered
  <2>2. Kept(n, k, r) /\ k.loaded[r] = NoModel /\ ~Running(k, r)
    BY <1>1, KillKept
  <2> HIDE DEF k
  <2>3. Moves(AtHand, workers, k, r)
    BY <2>2 DEF Moves, Mem
  <2> QED
    BY <1>1, <2>1, <2>2, <2>3, KeptTwice
<1> QED
  BY <1>2, <1>3, <1>4

\* The unload of the model a load replaces, and the request that follows.
LEMMA UnloadOldMoves ==
  ASSUME HubInv, SlotInv, NEW a, NEW n, Answer(a, n), UnloadOldAnswered(a, n)
  PROVE  SlotsMove
<1> DEFINE r == job.cmd.role
           u == UnloadAnswered(n, r, a)
<1>0. ServingInv
  BY DEF SlotInv
<1>1. job.at = "unloadOld"
  BY DEF UnloadOldAnswered, InRequest
<1>2. /\ AtHand = job.cmd /\ AtHand.kind = "Load" /\ AtHand.role = r /\ r \in Roles
      /\ AtHand \in GoodCmds
  BY <1>0, <1>1, AnswerSlot DEF KindAt
<1>3. RequestRole = r /\ RequestCmd = "unload"
  BY <1>1, <1>2, RequestFacts DEF Answer
<1>4. Ousts(AtHand, workers, r)
  BY <1>0, <1>1, <1>2 DEF Ousts, ServingInv
<1>5. \/ u.ok /\ EnsureThen(u.m, r, "load", job.cmd)
      \/ ~u.ok /\ EndsFailing(u.m, Refusing(r, a))
  BY DEF UnloadOldAnswered
<1>6. /\ Kept(workers, u.m, r) /\ Moves(AtHand, workers, u.m, r)
      /\ u.ok => Running(u.m, r) /\ u.m.loaded[r] = NoModel
  BY <1>0, <1>3, <1>4, UnloadMoves
<1> HIDE DEF u, r
<1>7. \A s \in Roles : Moves(AtHand, workers, u.m, s)
  BY <1>2, <1>6, OneMoves
<1>8. CASE u.ok /\ EnsureThen(u.m, r, "load", job.cmd)
  <2>1. Asks(u.m, "load", job.cmd)
    BY <1>6, <1>8 DEF EnsureThen, Ensured
  <2>2. workers' = u.m /\ job' = [at |-> "load", cmd |-> AtHand]
    BY <1>2, <2>1 DEF Asks, SetWorkers
  <2>3. ServingInv'
    BY <1>2, <2>2, AsksServing DEF KindAt
  <2> QED
    BY <1>7, <2>2, <2>3 DEF SlotsMove
<1>9. CASE EndsFailing(u.m, Refusing(r, a))
  <2>1. workers' = u.m /\ job'.at = "sync"
    BY <1>9 DEF EndsFailing, SetWorkers
  <2> QED
    BY <1>7, <2>1, EndsServing DEF SlotsMove
<1> QED
  BY <1>5, <1>8, <1>9

\* A load, done or not.
LEMMA LoadedMoves ==
  ASSUME HubInv, HeldInv, SlotInv, NEW a, NEW n, Answer(a, n), RequestCmd = "load"
  PROVE  /\ AtHand.kind = "Load" /\ AtHand.role = RequestRole
         /\ workers.loaded[RequestRole] = NoModel
         /\ a = "done" => Moves(AtHand, workers, MarkLoaded(n, RequestRole, AtHand.model), RequestRole)
         /\ a # "done" => Moves(AtHand, workers, n, RequestRole)
<1> DEFINE r == RequestRole
<1>0. ServingInv /\ TrueSlot(workers, r)
  BY AnswerSlot DEF SlotInv
<1>1. job.at \in {"load", "retry"}
  BY DEF RequestCmd
<1>2. /\ AtHand = job.cmd /\ AtHand.kind = "Load" /\ AtHand.role = r /\ r \in Roles
      /\ AtHand \in GoodCmds /\ AtHand.model \in ModelsOf(r) \union {NoModel}
  BY <1>0, <1>1, AnswerSlot, GoodCmdFacts DEF KindAt, RequestRole
<1>3. workers.loaded[r] = NoModel
  BY <1>1, <1>2 DEF HeldInv, Stages
<1>4. /\ n \in Sound /\ n.loaded = workers.loaded
      /\ IF a \in LivingAnswers
           THEN /\ Mem(workers, r) # "gone"
                /\ IF a = "done"
                     THEN Mem(n, r) = AtHand.model
                     ELSE \/ Mem(n, r) = Adrift
                          \/ Mem(n, r) = NoModel /\ Mem(workers, r) # Adrift
           ELSE Mem(n, r) = "gone"
  BY <1>0, AnswerSlot DEF ModelAfter
<1> HIDE DEF r
<1>5. Mem(workers, r) \in {"gone", NoModel, Adrift} /\ "done" \in LivingAnswers
  BY <1>0, <1>3 DEF TrueSlot, LivingAnswers
<1>6. ASSUME a = "done" PROVE Moves(AtHand, workers, MarkLoaded(n, r, AtHand.model), r)
  <2> DEFINE k == MarkLoaded(n, r, AtHand.model)
  <2>1. k.loaded[r] = AtHand.model /\ k.client = n.client /\ k.procs = n.procs
    BY <1>2, <1>4, MarkKept
  <2> HIDE DEF k
  <2>2. Mem(k, r) = Mem(n, r)
    BY <2>1 DEF Mem, Running, ProcOf
  <2> QED
    BY <1>2, <1>3, <1>4, <1>5, <1>6, <2>1, <2>2 DEF Moves, k
<1>7. ASSUME a # "done" PROVE Moves(AtHand, workers, n, r)
  BY <1>2, <1>3, <1>4, <1>5, <1>7 DEF Moves
<1> QED
  BY <1>2, <1>3, <1>6, <1>7 DEF r

\* A command that ends with the manager m.
LEMMA EndMoves ==
  ASSUME NEW m, NEW r \in Roles, NEW failed, EndsFailing(m, failed), Kept(workers, m, r),
         Moves(AtHand, workers, m, r)
  PROVE  SlotsMove
<1>1. workers' = m /\ job'.at = "sync"
  BY DEF EndsFailing, SetWorkers
<1> QED
  BY <1>1, EndsServing, OneMoves DEF SlotsMove

\* The first try of a load.
LEMMA LoadMoves ==
  ASSUME HubInv, HeldInv, SlotInv, NEW a, NEW n, Answer(a, n), LoadRequestAnswered(a, n)
  PROVE  SlotsMove
<1> DEFINE c == AtHand
           r == RequestRole
<1>0. ServingInv
  BY DEF SlotInv
<1>1. job.at = "load"
  BY DEF LoadRequestAnswered, InRequest
<1>2. job.cmd = c /\ c \in GoodCmds /\ r \in Roles
      /\ n \in Sound /\ Kept(workers, n, r) /\ n.loaded = workers.loaded
  BY <1>0, AnswerSlot
<1>3. RequestCmd = "load" /\ c.role = r /\ c.model \in ModelsOf(r) \union {NoModel}
  BY <1>1, <1>2, RequestFacts, GoodCmdFacts DEF Answer
<1>4. /\ c.kind = "Load" /\ workers.loaded[r] = NoModel
      /\ a = "done" => Moves(c, workers, MarkLoaded(n, r, c.model), r)
      /\ a # "done" => Moves(c, workers, n, r)
  BY <1>3, LoadedMoves
<1>5. IF EvictsPeer(n, r, a)
        THEN IF HasClient(n, Peer(r))
               THEN Asks(n, "evict", c)
               ELSE Asks(MarkUnloaded(n, Peer(r)), "retry", c)
        ELSE Ends(LoadAnswered(n, r, c.model, a))
  <2>1. job.cmd.role = r
    BY <1>2, <1>3
  <2> HIDE DEF r
  <2> QED
    BY <1>2, <2>1 DEF LoadRequestAnswered
<1> HIDE DEF c, r
<1>6. ASSUME NEW m, NEW at \in {"evict", "retry"}, Asks(m, at, c),
             \A s \in Roles : Moves(c, workers, m, s)
      PROVE  SlotsMove
  <2>1. workers' = m /\ job' = [at |-> at, cmd |-> c]
    BY <1>6 DEF Asks, SetWorkers
  <2>2. ServingInv'
    BY <1>4, <2>1, AsksServing DEF KindAt
  <2> QED
    BY <1>6, <2>1, <2>2 DEF SlotsMove, c
<1>7. CASE EvictsPeer(n, r, a) /\ HasClient(n, Peer(r))
  <2>1. Moves(c, workers, n, r)
    BY <1>4, <1>7 DEF EvictsPeer, OomAnswers
  <2>2. \A s \in Roles : Moves(c, workers, n, s)
    BY <1>2, <2>1, OneMoves
  <2> QED
    BY <1>5, <1>6, <1>7, <2>2
<1>8. CASE EvictsPeer(n, r, a) /\ ~HasClient(n, Peer(r))
  <2> DEFINE s == Peer(r)
             k == MarkUnloaded(n, s)
  <2>1. s \in Roles /\ Peer(s) = r /\ \A t \in Roles : t = r \/ t = s
    BY <1>2, RoleFacts
  <2>2. Ousts(c, workers, s)
    BY <1>3, <1>4, <2>1 DEF Ousts
  <2>3. Asks(k, "retry", c)
    BY <1>5, <1>8
  <2> HIDE DEF s
  <2>4. Kept(n, k, s) /\ Moves(c, workers, k, s)
    BY <1>2, <1>8, <2>1, <2>2, UnmarkMoves DEF s
  <2> HIDE DEF k
  <2>5. Moves(c, workers, n, r)
    BY <1>4, <1>8 DEF EvictsPeer, OomAnswers
  <2>6. Moves(c, workers, k, r)
    BY <1>2, <2>4, <2>5, StillMoves DEF s
  <2>7. \A t \in Roles : Moves(c, workers, k, t)
    BY <2>1, <2>4, <2>6
  <2> QED
    BY <1>6, <2>3, <2>7
<1>9. CASE ~EvictsPeer(n, r, a)
  <2>1. EndsFailing(LoadAnswered(n, r, c.model, a), {})
    BY <1>5, <1>9 DEF Ends
  <2>2. CASE a = "done"
    <3> DEFINE k == MarkLoaded(n, r, c.model)
    <3>1. Kept(n, k, r)
      BY <1>2, <1>3, MarkKept
    <3>2. EndsFailing(k, {})
      BY <2>1, <2>2 DEF LoadAnswered, TimedOutAnswers
    <3>3. Moves(c, workers, k, r)
      BY <1>4, <2>2
    <3> HIDE DEF k
    <3> QED
      BY <1>2, <3>1, <3>2, <3>3, EndMoves, KeptTwice DEF c
  <2>3. CASE a \in TimedOutAnswers
    <3> DEFINE k == KillWorker(n, r)
    <3>1. Kept(n, k, r) /\ k.loaded[r] = NoModel /\ ~Running(k, r)
      BY <1>2, KillKept
    <3>2. EndsFailing(k, {})
      BY <2>1, <2>3 DEF LoadAnswered, TimedOutAnswers
    <3> HIDE DEF k
    <3>3. Moves(c, workers, k, r)
      BY <1>4, <3>1 DEF Moves, Mem
    <3> QED
      BY <1>2, <3>1, <3>2, <3>3, EndMoves, KeptTwice DEF c
  <2>4. CASE a \notin {"done"} \union TimedOutAnswers
    <3>1. EndsFailing(n, {})
      BY <2>1, <2>4 DEF LoadAnswered
    <3> QED
      BY <1>2, <1>4, <2>4, <3>1, EndMoves DEF c
  <2> QED
    BY <2>2, <2>3, <2>4
<1> QED
  BY <1>7, <1>8, <1>9

\* The unload of the peer.
LEMMA EvictMoves ==
  ASSUME HubInv, HeldInv, SlotInv, NEW a, NEW n, Answer(a, n), EvictAnswered(a, n)
  PROVE  SlotsMove
<1> DEFINE c == AtHand
           r == RequestRole
           u == UnloadAnswered(n, r, a)
<1>0. ServingInv
  BY DEF SlotInv
<1>1. job.at = "evict"
  BY DEF EvictAnswered, InRequest
<1>2. job.cmd = c /\ c \in GoodCmds /\ r \in Roles /\ c.kind = "Load" /\ c.role \in Roles
  BY <1>0, <1>1, AnswerSlot DEF KindAt
<1>3. RequestCmd = "unload" /\ r = Peer(c.role)
  BY <1>1, <1>2, RequestFacts DEF Answer
<1>4. Ousts(c, workers, r)
  <2>1. Peer(r) = c.role
    BY <1>2, <1>3, RoleFacts
  <2>2. workers.loaded[c.role] = NoModel
    BY <1>1, <1>2 DEF HeldInv, Stages
  <2> QED
    BY <1>2, <2>1, <2>2 DEF Ousts
<1>5. \/ u.ok /\ Asks(u.m, "retry", c)
      \/ ~u.ok /\ EndsFailing(u.m, Refusing(r, a))
  BY <1>2 DEF EvictAnswered
<1>6. Kept(workers, u.m, r) /\ Moves(c, workers, u.m, r)
  BY <1>0, <1>3, <1>4, UnloadMoves
<1> HIDE DEF u, r, c
<1>7. CASE Asks(u.m, "retry", c)
  <2>1. workers' = u.m /\ job' = [at |-> "retry", cmd |-> c]
    BY <1>7 DEF Asks, SetWorkers
  <2>2. ServingInv'
    BY <1>2, <2>1, AsksServing DEF KindAt
  <2>3. \A s \in Roles : Moves(c, workers, u.m, s)
    BY <1>2, <1>6, OneMoves
  <2> QED
    BY <2>1, <2>2, <2>3 DEF SlotsMove, c
<1>8. CASE EndsFailing(u.m, Refusing(r, a))
  BY <1>2, <1>6, <1>8, EndMoves DEF c
<1> QED
  BY <1>5, <1>7, <1>8

\* The second try.
LEMMA RetryMoves ==
  ASSUME HubInv, HeldInv, SlotInv, NEW a, NEW n, Answer(a, n), RetryAnswered(a, n)
  PROVE  SlotsMove
<1> DEFINE c == AtHand
           r == RequestRole
           k == IF a = "done" THEN MarkLoaded(n, r, c.model) ELSE n
<1>0. ServingInv
  BY DEF SlotInv
<1>1. job.at = "retry"
  BY DEF RetryAnswered, InRequest
<1>2. job.cmd = c /\ c \in GoodCmds /\ r \in Roles /\ n \in Sound /\ Kept(workers, n, r)
  BY <1>0, AnswerSlot
<1>3. RequestCmd = "load" /\ c.role = r /\ c.model \in ModelsOf(r) \union {NoModel}
  BY <1>1, <1>2, RequestFacts, GoodCmdFacts DEF Answer
<1>4. EndsFailing(k, {})
  <2>1. job.cmd.role = r
    BY <1>2, <1>3
  <2> HIDE DEF r
  <2> QED
    BY <1>2, <2>1 DEF RetryAnswered, Ends
<1>5. Moves(c, workers, k, r)
  BY <1>3, LoadedMoves
<1> HIDE DEF c, r
<1>6. Kept(n, k, r)
  <2>1. Kept(n, MarkLoaded(n, r, c.model), r)
    BY <1>2, <1>3, MarkKept
  <2>2. Kept(n, n, r)
    BY <1>2 DEF Kept
  <2> QED
    BY <2>1, <2>2
<1> HIDE DEF k
<1> QED
  BY <1>2, <1>4, <1>5, <1>6, EndMoves, KeptTwice DEF c

\* An unload that was asked for.
LEMMA UnloadRequestMoves ==
  ASSUME HubInv, SlotInv, NEW a, NEW n, Answer(a, n), UnloadRequestAnswered(a, n)
  PROVE  SlotsMove
<1> DEFINE c == AtHand
           r == RequestRole
           u == UnloadAnswered(n, r, a)
<1>0. ServingInv
  BY DEF SlotInv
<1>1. job.at = "unload"
  BY DEF UnloadRequestAnswered, InRequest
<1>2. job.cmd = c /\ c \in GoodCmds /\ r \in Roles /\ c.kind = "Unload"
  BY <1>0, <1>1, AnswerSlot DEF KindAt
<1>3. RequestCmd = "unload" /\ c.role = r
  BY <1>1, <1>2, RequestFacts DEF Answer
<1>4. EndsFailing(u.m, Refusing(r, a))
  <2>1. job.cmd.role = r
    BY <1>2, <1>3
  <2> HIDE DEF r
  <2> QED
    BY <2>1 DEF UnloadRequestAnswered
<1>5. Ousts(c, workers, r)
  BY <1>2, <1>3 DEF Ousts
<1>6. Kept(workers, u.m, r) /\ Moves(c, workers, u.m, r)
  BY <1>0, <1>3, <1>5, UnloadMoves
<1> HIDE DEF u, r, c
<1> QED
  BY <1>2, <1>4, <1>6, EndMoves DEF c

\* The halves of unload_all.
LEMMA UnloadAllMoves ==
  ASSUME HubInv, SlotInv, NEW a, NEW n, Answer(a, n), UnloadAllAnswered(a, n)
  PROVE  SlotsMove
<1> DEFINE c == AtHand
           r == RequestRole
           k == UnloadAnswered(n, r, a).m
<1>0. ServingInv
  BY DEF SlotInv
<1>1. job.at \in {"unloadStt", "unloadTts"}
  BY DEF UnloadAllAnswered, InRequest
<1>2. job.cmd = c /\ c \in GoodCmds /\ r \in Roles /\ c.kind = "UnloadAll"
  BY <1>0, <1>1, AnswerSlot DEF KindAt
<1>3. /\ RequestCmd = "unload" /\ (job.at = "unloadStt" => r = "stt")
      /\ job.at = "unloadTts" => r = "tts"
  BY <1>1, <1>2, RequestFacts DEF Answer
<1>4. Ousts(c, workers, r)
  BY <1>2 DEF Ousts
<1>5. Kept(workers, k, r) /\ Moves(c, workers, k, r)
  BY <1>0, <1>3, <1>4, UnloadMoves
<1> HIDE DEF r
<1>6. CASE job.at = "unloadStt"
  <2>1. r = "stt" /\ UnloadTtsNext(k, Refusing("stt", a), c)
    BY <1>2, <1>3, <1>6 DEF UnloadAllAnswered, InRequest
  <2> HIDE DEF k, c
  <2> QED
    BY <1>2, <1>5, <2>1, UnloadTtsMoves DEF c
<1>7. CASE job.at = "unloadTts"
  <2>1. r = "tts" /\ EndsFailing(k, Refusing("tts", a))
    BY <1>3, <1>7 DEF UnloadAllAnswered, InRequest
  <2> HIDE DEF k, c
  <2> QED
    BY <1>2, <1>5, <2>1, EndMoves DEF c
<1> QED
  BY <1>1, <1>6, <1>7

\* A transcription, a synthesis: the failure may cost the worker its life.
LEMMA WorkMoves ==
  ASSUME HubInv, SlotInv, NEW a, NEW n, Answer(a, n), WorkAnswered(a, n)
  PROVE  SlotsMove
<1> DEFINE c == AtHand
           r == RequestRole
           k == IF WorkKills(r, a) THEN KillWorker(n, r) ELSE n
<1>0. ServingInv
  BY DEF SlotInv
<1>1. job.at = "work"
  BY DEF WorkAnswered, InRequest
<1>2. job.cmd = c /\ c \in GoodCmds /\ r \in Roles /\ c.kind = "Work"
      /\ n \in Sound /\ Kept(workers, n, r) /\ n.loaded = workers.loaded
  BY <1>0, <1>1, AnswerSlot DEF KindAt
<1>3. RequestCmd = "other" /\ c.role = r
  BY <1>1, <1>2, RequestFacts DEF Answer
<1>4. workers' = k /\ job'.at = "sync"
  <2>1. job.cmd.role = r
    BY <1>2, <1>3
  <2> HIDE DEF r
  <2> QED
    BY <2>1 DEF WorkAnswered, SetWorkers
<1>5. Mem(n, r) \in {Mem(workers, r), "gone"}
  BY <1>0, <1>3, AnswerSlot DEF ModelAfter
<1> HIDE DEF c, r
<1>6. Kept(workers, k, r) /\ Moves(c, workers, k, r)
  <2>1. CASE WorkKills(r, a)
    <3> DEFINE m == KillWorker(n, r)
    <3>1. Kept(n, m, r) /\ m.loaded[r] = NoModel /\ ~Running(m, r)
      BY <1>2, KillKept
    <3>2. k = m
      BY <2>1
    <3> HIDE DEF m, k
    <3>3. Risky(c, r)
      BY <1>2, <1>3 DEF Risky
    <3> QED
      BY <1>2, <3>1, <3>2, <3>3, KeptTwice DEF Moves, Mem
  <2>2. CASE ~WorkKills(r, a)
    BY <1>2, <1>5, <2>2 DEF Moves
  <2> QED
    BY <2>1, <2>2
<1> HIDE DEF k
<1> QED
  BY <1>2, <1>4, <1>6, EndsServing, OneMoves DEF SlotsMove, c

\* The tones.
LEMMA ListMoves ==
  ASSUME HubInv, SlotInv, NEW a, NEW n, Answer(a, n), ListAnswered(a, n)
  PROVE  SlotsMove
<1> DEFINE r == RequestRole
<1>0. ServingInv
  BY DEF SlotInv
<1>1. job.at = "list" /\ EndsFailing(n, {})
  BY DEF ListAnswered, InRequest, Ends
<1>2. job.cmd \in GoodCmds /\ r \in Roles /\ Kept(workers, n, r) /\ n.loaded = workers.loaded
  BY <1>0, AnswerSlot
<1>3. RequestCmd = "other"
  BY <1>1, <1>2, RequestFacts DEF Answer
<1>4. Mem(n, r) \in {Mem(workers, r), "gone"}
  BY <1>0, <1>3, AnswerSlot DEF ModelAfter
<1> HIDE DEF r
<1>5. Moves(AtHand, workers, n, r)
  BY <1>2, <1>4 DEF Moves
<1> QED
  BY <1>1, <1>2, <1>5, EndMoves

\* The workers go down.
LEMMA DownAnsweredMoves ==
  ASSUME HubInv, SlotInv, NEW a, NEW n, Answer(a, n), DownAnswered(a, n)
  PROVE  SlotsMove
<1> DEFINE r == RequestRole
           k == ShutDown(n, r)
<1>0. ServingInv
  BY DEF SlotInv
<1>1. job.at \in {"downStt", "downTts"}
  BY DEF DownAnswered, InRequest
<1>2. AtHand = job.cmd /\ AtHand \in GoodCmds /\ r \in Roles /\ AtHand.kind = "Shutdown"
      /\ n \in Sound /\ Kept(workers, n, r) /\ n.loaded = workers.loaded
  BY <1>0, <1>1, AnswerSlot DEF KindAt
<1>3. (job.at = "downStt" => r = "stt") /\ (job.at = "downTts" => r = "tts")
  BY <1>1, <1>2, RequestFacts DEF Answer
<1>4. DownTtsNext(k)
  <2> HIDE DEF r
  <2> QED
    BY <1>3 DEF DownAnswered, InRequest
<1> HIDE DEF r
<1>5. Kept(n, k, r) /\ k.loaded = n.loaded /\ ~Running(k, r) /\ ~HasClient(k, r)
  BY <1>2, ShutDownKept
<1> HIDE DEF k
<1>6. Kept(workers, k, r) /\ k \in Sound
  BY <1>2, <1>5, KeptTwice DEF Kept
<1>7. CASE job.at = "downStt"
  <2>1. r = "stt" /\ Moves(AtHand, workers, k, r)
    BY <1>2, <1>3, <1>5, <1>7 DEF Moves, Mem
  <2> QED
    BY <1>2, <1>4, <1>5, <1>6, <2>1, DownTtsMoves
<1>8. CASE job.at = "downTts"
  <2>1. r = "tts" /\ ~HasClient(workers, "stt")
    BY <1>3, <1>8 DEF HubInv, SttDown
  <2>2. k.client["stt"] = workers.client["stt"]
    BY <1>6, <2>1, RoleFacts DEF Kept
  <2>3. \A s \in Roles : ~HasClient(k, s)
    BY <1>5, <2>1, <2>2 DEF HasClient, Roles
  <2> QED
    BY <1>2, <1>4, <1>6, <2>3, DownMoves
<1> QED
  BY <1>1, <1>7, <1>8

\* Any answer.
LEMMA AnsweredMoves ==
  ASSUME HubInv, HeldInv, SlotInv, NEW a \in Answers, Answered(a)
  PROVE  SlotsMove
<1>1. PICK n \in AfterAnswer(workers, RequestRole, RequestCmd, job.cmd.model, a) :
        \/ UnloadOldAnswered(a, n) \/ LoadRequestAnswered(a, n)
        \/ EvictAnswered(a, n) \/ RetryAnswered(a, n)
        \/ UnloadRequestAnswered(a, n) \/ UnloadAllAnswered(a, n)
        \/ WorkAnswered(a, n) \/ ListAnswered(a, n) \/ DownAnswered(a, n)
  BY DEF Answered
<1>2. Answer(a, n)
  BY DEF Answered, Answer
<1> QED
  BY <1>1, <1>2, UnloadOldMoves, LoadMoves, EvictMoves, RetryMoves, UnloadRequestMoves,
     UnloadAllMoves, WorkMoves, ListMoves, DownAnsweredMoves

\* A step that at most ends a process and leaves the job thread where it is.
LEMMA ProcMoves ==
  ASSUME HubInv, SlotInv, NEW p \in Pids, NEW st \in {"zombie", "free", "foreign"},
         workers' = [workers EXCEPT !.procs[p] = InState(st)], job' = job
  PROVE  SlotsMove
<1> DEFINE q == InState(st)
           n == [workers EXCEPT !.procs[p] = q]
<1>1. workers \in Managed /\ q \in Process /\ q.st # "running"
  BY DEF HubInv, HubTypes, InState, Process
<1> HIDE DEF q
<1>2. /\ n.client = workers.client /\ n.loaded = workers.loaded /\ n.procs[p] = q
      /\ \A o \in Pids \ {p} : n.procs[o] = workers.procs[o]
  BY <1>1, SetProcManaged
<1>3. workers' = n
  BY DEF q
<1> HIDE DEF n
<1>4. \A r \in Roles : workers.client[r].live => workers.client[r].pid \in Pids
  BY <1>1, ManagerFacts
<1>5. \A r \in Roles : Mem(n, r) \in {Mem(workers, r), "gone"}
  BY <1>1, <1>2, <1>4 DEF Mem, Running, ProcOf
<1>6. \A r \in Roles : Moves(AtHand, workers, n, r)
  BY <1>2, <1>5 DEF Moves
<1>7. ServingInv'
  BY <1>2, <1>3 DEF SlotInv, ServingInv
<1> QED
  BY <1>3, <1>6, <1>7 DEF SlotsMove

\* A step that leaves the workers and the job thread alone.
LEMMA QuietMoves ==
  ASSUME SlotInv, UNCHANGED << workers, job >>
  PROVE  SlotsMove
BY NoneMoves DEF SlotsMove, SlotInv, ServingInv

\* The steps of the UI: a signal ends the process it finds.
LEMMA UiStepMoves == ASSUME HubInv, SlotInv, UiStep PROVE SlotsMove
<1>1. CASE SwapPid \/ SendCmd \/ ExitApp
  BY <1>1, QuietMoves DEF SwapPid, SendCmd, ExitApp
<1>2. CASE SignalPid
  <2> DEFINE s == Head(uiTodo)
             p == s.pid
  <2>1. workers' = Sigkill(workers, p) /\ job' = job
    BY <1>2 DEF SignalPid
  <2>2. p \in Pids
    <3>1. uiTodo \in Seq(GoodSteps) /\ uiTodo # << >> /\ s.step = "signal"
      BY <1>2 DEF HubInv, HubTypes, SignalPid, UiTakes
    <3>2. s \in GoodSteps
      BY <3>1
    <3> QED
      BY <3>1, <3>2 DEF GoodSteps
  <2> HIDE DEF p
  <2>3. CASE workers.procs[p].st \in {"running", "foreign"}
    <3> DEFINE st == IF workers.procs[p].st = "running" THEN "zombie" ELSE "free"
    <3>1. workers' = [workers EXCEPT !.procs[p] = InState(st)]
      BY <2>1, <2>3 DEF Sigkill
    <3>2. st \in {"zombie", "free", "foreign"}
      OBVIOUS
    <3> HIDE DEF st
    <3> QED
      BY <2>1, <2>2, <3>1, <3>2, ProcMoves
  <2>4. CASE workers.procs[p].st \notin {"running", "foreign"}
    <3>1. workers' = workers
      BY <2>1, <2>4 DEF Sigkill
    <3> QED
      BY <2>1, <3>1, QuietMoves
  <2> QED
    BY <2>3, <2>4
<1> QED
  BY <1>1, <1>2 DEF UiStep

\* The processes.
LEMMA EnvironmentMoves == ASSUME HubInv, SlotInv, Environment PROVE SlotsMove
<1>1. PICK p \in Pids : \/ WorkerDies(p) \/ PidReused(p)
                        \/ ForeignEnds(p) \/ WorkerSeesEof(p)
  BY DEF Environment
<1>2. \E st \in {"zombie", "free", "foreign"} : SetProc(p, st)
  BY <1>1 DEF WorkerDies, PidReused, ForeignEnds, WorkerSeesEof
<1>3. PICK st \in {"zombie", "free", "foreign"} : SetProc(p, st)
  BY <1>2
<1>4. workers' = [workers EXCEPT !.procs[p] = InState(st)] /\ job' = job
  BY <1>3 DEF SetProc
<1> QED
  BY <1>4, ProcMoves

\* What a worker holds is the model that is counted, or nothing; when nobody
\* knows what it holds nothing is counted.
HeldIsCounted ==
  \A r \in Roles : \/ Holding[r] \in {"gone", NoModel, workers.loaded[r]}
                   \/ Holding[r] = Adrift /\ workers.loaded[r] = NoModel

\* Each step of the job hub moves both slots as ModelSlots allows.
LEMMA StepMoves ==
  ASSUME HubInv, HeldInv, SlotInv, [Next]_vars
  PROVE  SlotsMove
<1>1. CASE TakeCmd
  BY <1>1, TakeLoadMoves, TakeUnloadMoves, TakeUnloadAllMoves, TakeWorkMoves,
     TakeCancelTtsWorkerMoves, TakeListTonesMoves, TakeShutdownMoves DEF TakeCmd
<1>2. CASE SyncLivePids
  <2>1. workers' = workers /\ job'.at = "idle"
    BY <1>2 DEF SyncLivePids
  <2> QED
    BY <2>1, EndsServing, NoneMoves DEF SlotsMove
<1>3. ASSUME NEW a \in Answers, Answered(a) PROVE SlotsMove
  BY <1>3, AnsweredMoves
<1>4. CASE UiHandler
  <2>1. UNCHANGED << workers, job >>
    BY <1>4 DEF UiHandler, LoadModel, UnloadModel, StartWork, StopSpeech, UnloadAllModels,
       Quit, Handles
  <2> QED
    BY <2>1, QuietMoves
<1>5. CASE UiStep
  BY <1>5, UiStepMoves
<1>6. CASE Environment
  BY <1>6, EnvironmentMoves
<1>7. CASE UNCHANGED vars
  BY <1>7, QuietMoves DEF vars
<1> QED
  BY <1>1, <1>2, <1>3, <1>4, <1>5, <1>6, <1>7 DEF Next

\* What holds of the slots holds of them still.
LEMMA SlotInvStep == HubInv /\ HeldInv /\ SlotInv /\ [Next]_vars => SlotInv'
<1> SUFFICES ASSUME HubInv, HeldInv, SlotInv, [Next]_vars PROVE SlotInv'
  OBVIOUS
<1>1. SlotsMove
  BY StepMoves
<1>2. \A r \in Roles : TrueSlot(workers', r)
  BY <1>1, MovesTrue DEF SlotInv, SlotsMove
<1>3. (\A r \in Roles : TrueSlot(workers, r))'
  BY <1>2 DEF TrueSlot, Mem, Running, ProcOf
<1> QED
  BY <1>1, <1>3 DEF SlotInv, SlotsMove

\* A role that moves as allowed takes a step of ModelSlots.
LEMMA MovesStep ==
  ASSUME NEW r \in Roles, Moves(AtHand, workers, workers', r)
  PROVE  Slots!SlotStep(r)
<1>1. Holding[r] = Mem(workers, r) /\ Holding'[r] = Mem(workers', r)
  BY DEF Holding, Mem, Running, ProcOf
<1>2. Ousts(AtHand, workers, r) => Slots!WantsOut(r)
  <2>1. Peer(r) \in Roles \ {r}
    BY RoleFacts
  <2> QED
    BY <2>1 DEF Ousts, Slots!WantsOut, Slots!For
<1>3. Risky(AtHand, r) => Slots!Risks(r)
  BY DEF Risky, Slots!Risks, Slots!For
<1> QED
  BY <1>1, <1>2, <1>3 DEF Moves, Slots!SlotStep, Slots!Start, Slots!Fill, Slots!Mislay,
     Slots!Empty, Slots!Refuse, Slots!Die, Slots!GiveUp, Slots!Stay, Slots!Becomes, Slots!For

\* At the start nothing is loaded and no worker runs.
LEMMA SlotsInit == Init => SlotInv /\ Slots!Init
<1> SUFFICES ASSUME Init PROVE SlotInv /\ Slots!Init
  OBVIOUS
<1>1. \A r \in Roles : workers.client[r].live = FALSE
  BY DEF Init, NewManager, NoClient
<1>2. \A r \in Roles : ~Running(workers, r)
  BY <1>1 DEF Running
<1>3. \A r \in Roles : Mem(workers, r) = "gone" /\ Holding[r] = "gone"
  BY <1>2 DEF Mem, Holding
<1>4. job.at = "idle"
  BY DEF Init
<1>5. SlotInv
  BY <1>3, <1>4 DEF SlotInv, ServingInv, TrueSlot, Requests
<1>6. workers.loaded = [r \in Roles |-> NoModel] /\ Holding = [r \in Roles |-> "gone"]
  BY <1>3 DEF Init, NewManager, Holding
<1> QED
  BY <1>5, <1>6 DEF Slots!Init

-----------------------------------------------------------------------------
(* The theorems.                                                           *)

\* Every variable of the job hub has its type, with any number of commands
\* queued and any number of pids handed out.
THEOREM JobHubTypes == Spec => []TypeOK
<1>1. HubInv => TypeOK
  <2> SUFFICES ASSUME HubInv PROVE TypeOK
    OBVIOUS
  <2>1. /\ \A c \in GoodCmds : c \in Cmds
        /\ \A s \in GoodSteps : s \in UiSteps
    BY CommandFacts
  <2>2. job \in [at : Positions, cmd : Cmds]
    BY <2>1 DEF HubInv, HubTypes
  <2>3. cmds \in Seq(Cmds) /\ uiTodo \in Seq(UiSteps)
    BY <2>1 DEF HubInv, HubTypes
  <2>4. workers \in Manager /\ \A r \in Roles : workers.loaded[r] \in ModelsOf(r) \union {NoModel}
    BY DEF HubInv, HubTypes, Managed
  <2> QED
    BY <2>2, <2>3, <2>4 DEF HubInv, HubTypes, TypeOK
<1> QED
  BY <1>1, HubAlways, PTL

\* No load, eviction, kill, crash or restart leaves a worker without its client,
\* or two clients with one worker, while the application is there
\* (WorkerManager, workers.rs).
THEOREM NoWorkerStrays == Spec => []NoStrayWorker
<1>1. HubInv => NoStrayWorker
  BY DEF HubInv, NoStrayWorker, Owned, RunningPids
<1> QED
  BY <1>1, HubAlways, PTL

\* A Stop finds the pid of the worker that synthesizes: it is registered before
\* the request starts, and taken out only to be signalled (app/live_pids.rs).
THEOREM StopFindsSynthesis == Spec => []StopReachesSynthesis
<1>1. HubInv => StopReachesSynthesis
  BY DEF HubInv
<1> QED
  BY <1>1, HubAlways, PTL

\* Whenever the job thread waits for a command, the status it posted last is
\* the state of the policy (push_status in app/jobs.rs).
THEOREM StatusIsCurrent == Spec => []StatusCurrent
<1>1. HubInv => StatusCurrent
  BY DEF HubInv, Told, StatusCurrent
<1> QED
  BY <1>1, HubAlways, PTL

\* A load that finds its model counted answers at once and asks no worker
\* (load_timeout in workers.rs): it may, for the worker of a model the policy
\* counts has it as long as it runs, whatever was killed, evicted, unloaded or
\* lost before, unless that worker refused to unload.
THEOREM LoadedIsHeld == Spec => []LoadedMeansHeld
<1>1. Init => HeldInv
  BY HeldInit
<1>2. HubInv /\ HeldInv /\ [Next]_vars => HeldInv'
  BY HeldStep
<1>3. HeldInv => LoadedMeansHeld
  BY DEF HeldInv
<1> QED
  BY <1>1, <1>2, <1>3, HubAlways, PTL DEF Spec

\* The two slots move as module ModelSlots says: a model is counted in the step
\* in which its load is answered, and leaves only for an unload, another load of
\* its role, an eviction for a role that has none, a kill or a shutdown, or with
\* its worker (load_timeout, load_model, unload_timeout, kill_worker, workers.rs).
THEOREM SlotsKept == Spec => KeepsSlots
<1>1. Init => HeldInv /\ SlotInv /\ Slots!Init
  BY HeldInit, SlotsInit
<1>2. HubInv /\ HeldInv /\ [Next]_vars => HeldInv'
  BY HeldStep
<1>3. HubInv /\ HeldInv /\ SlotInv /\ [Next]_vars => SlotInv'
  BY SlotInvStep
<1>4. HubInv /\ HeldInv /\ SlotInv /\ [Next]_vars => [Slots!Next]_Slots!slotVars
  <2> SUFFICES ASSUME HubInv, HeldInv, SlotInv, [Next]_vars PROVE Slots!Next
    OBVIOUS
  <2> QED
    BY StepMoves, MovesStep DEF SlotsMove, Slots!Next
<1> QED
  BY <1>1, <1>2, <1>3, <1>4, HubAlways, PTL DEF Spec, KeepsSlots, Slots!Spec

\* The promise is enough for the memory: in the middle of a request as between
\* two, a worker holds nothing but the model that is counted for its role, or
\* nothing is counted for a worker that was left alone with a load (policy.rs).
THEOREM SlotsAreTrue == KeepsSlots => []HeldIsCounted
<1>1. Slots!Init => HeldIsCounted
  BY DEF Slots!Init, HeldIsCounted
<1>2. HeldIsCounted /\ [Slots!Next]_Slots!slotVars => HeldIsCounted'
  <2>1. ASSUME HeldIsCounted, Slots!Next PROVE HeldIsCounted'
    <3> SUFFICES ASSUME NEW r \in Roles
                 PROVE  \/ Holding'[r] \in {"gone", NoModel, workers'.loaded[r]}
                        \/ Holding'[r] = Adrift /\ workers'.loaded[r] = NoModel
      BY DEF HeldIsCounted
    <3>1. /\ Slots!SlotStep(r)
          /\ \/ Holding[r] \in {"gone", NoModel, workers.loaded[r]}
             \/ Holding[r] = Adrift /\ workers.loaded[r] = NoModel
      BY <2>1 DEF Slots!Next, HeldIsCounted
    <3> QED
      BY <3>1 DEF Slots!SlotStep, Slots!Start, Slots!Fill, Slots!Mislay, Slots!Empty,
         Slots!Refuse, Slots!Die, Slots!GiveUp, Slots!Stay, Slots!Becomes
  <2>2. ASSUME HeldIsCounted, UNCHANGED Slots!slotVars PROVE HeldIsCounted'
    BY <2>2 DEF Slots!slotVars, HeldIsCounted
  <2> QED
    BY <2>1, <2>2
<1> QED
  BY <1>1, <1>2, PTL DEF KeepsSlots, Slots!Spec

\* What a worker holds is what the policy counts, whatever errors, kills and
\* timeouts came before; a load whose request failed while its worker runs on is
\* the one thing that is not counted, and until the worker is asked again nothing
\* is counted for it at all (the marks of workers.rs and policy.rs).
THEOREM MemoryIsAccounted == Spec => []MemoryAccounted
<1>1. HubInv /\ HeldIsCounted => MemoryAccounted
  <2> SUFFICES ASSUME HubInv, HeldIsCounted, NEW r \in Roles, Running(workers, r)
               PROVE  \/ ProcOf(workers, r).model \in {NoModel, workers.loaded[r]}
                      \/ ProcOf(workers, r).model = Adrift /\ workers.loaded[r] = NoModel
    BY DEF MemoryAccounted
  <2>1. workers \in Managed
    BY DEF HubInv, HubTypes
  <2>2. Holding[r] = ProcOf(workers, r).model /\ Holding[r] # "gone"
    BY <2>1, MemFacts DEF Holding, Mem
  <2> QED
    BY <2>2 DEF HeldIsCounted
<1> QED
  BY <1>1, HubAlways, SlotsKept, SlotsAreTrue, PTL
=============================================================================
