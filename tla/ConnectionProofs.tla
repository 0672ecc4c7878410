--------------------------- MODULE ConnectionProofs ---------------------------
(***************************************************************************)
(* Proofs of the safety properties of the connection lifecycle, for any    *)
(* number of callers, Matrix events, generations and calls.                *)
(*                                                                         *)
(* The argument has three parts.  Whoever saves or connects owns an        *)
(* operation, so that nobody does while the client is quiet (Owners).      *)
(* At most one caller changes the generation, and only the current         *)
(* generation and the one that is being stopped are alive (Generations).   *)
(* The chain of saves is in order (Chain): NewLogin writes outside it, but *)
(* only while the client is quiet.  The places that are closed are the     *)
(* first ones of the chain, so that only the first open place can have its *)
(* turn, and whoever writes is alone and has read the metadata after the   *)
(* last write.                                                             *)
(***************************************************************************)
EXTENDS Connection, TLAPS

-----------------------------------------------------------------------------
(* The chain of saves. *)


Chain ==
  /\ stored <= meta
  /\ 0 \in closed /\ abandoned \cap closed = {}
  /\ \A n \in closed : \A m \in 0..n : m \in closed
  /\ \A t \in Savers : place[t] # 0 => place[t] \notin closed \cup abandoned
  /\ \A t, u \in Savers : place[t] # 0 /\ place[t] = place[u] => t = u
  /\ \A t \in Savers : snap[t] # 0 => place[t] # 0 /\ place[t] - 1 \in closed /\ stored <= snap[t]

(* An empty chain is in order. *)
LEMMA ChainAtFirst ==
  ASSUME SavesInit
  PROVE  SavesTypeOK /\ Chain
PROOF
  BY DEF SavesInit, SavesTypeOK, Chain

(* Two threads never write at the same time. *)
LEMMA OneWriter ==
  ASSUME SavesTypeOK, Chain, NEW t \in Savers, NEW u \in Savers, snap[t] # 0, snap[u] # 0
  PROVE  t = u
PROOF
  <1> DEFINE p == place[t]  q == place[u]
  <1>1. p \in Nat \ {0} /\ q \in Nat \ {0} /\ p - 1 \in closed /\ q - 1 \in closed
    BY DEF SavesTypeOK, Chain
  <1>2. p \notin closed /\ q \notin closed
    BY <1>1 DEF Chain
  <1>3. ~(p < q)
    <2>1. p < q => p \in 0..(q - 1)
      BY <1>1
    <2>2. QED  BY <1>1, <1>2, <2>1 DEF Chain
  <1>4. ~(q < p)
    <2>1. q < p => q \in 0..(p - 1)
      BY <1>1
    <2>2. QED  BY <1>1, <1>2, <2>1 DEF Chain
  <1>5. QED  BY <1>1, <1>3, <1>4 DEF Chain

(* A thread without a place takes the next one. *)
LEMMA QueueKeeps ==
  ASSUME SavesTypeOK, Chain, NEW t \in Savers, place[t] = 0, Queue(t)
  PROVE  SavesTypeOK' /\ Chain' /\ stored' >= stored
PROOF
  <1>1. SavesTypeOK'
    BY DEF SavesTypeOK, Chain, Queue
  <1>2. \A u \in Savers : place[u] <= tail
    BY DEF SavesTypeOK
  <1>3. Chain'
    BY <1>2 DEF SavesTypeOK, Chain, Queue
  <1>4. QED  BY <1>1, <1>3 DEF Queue, SavesTypeOK

(* A thread whose turn has come reads metadata that is no older than what   *)
(* is stored.                                                               *)
LEMMA TurnKeeps ==
  ASSUME SavesTypeOK, Chain, NEW t \in Savers, Turn(t)
  PROVE  SavesTypeOK' /\ Chain' /\ stored' >= stored
PROOF
  BY DEF SavesTypeOK, Chain, Turn

(* The only thread that writes stores what it has read. *)
LEMMA WriteKeeps ==
  ASSUME SavesTypeOK, Chain, NEW t \in Savers, Write(t)
  PROVE  SavesTypeOK' /\ Chain' /\ stored' >= stored
PROOF
  <1>1. snap[t] # 0 /\ place[t] \in 1..tail /\ place[t] - 1 \in closed /\ stored <= snap[t]
    BY DEF SavesTypeOK, Chain, Write
  <1>2. SavesTypeOK'
    <2>1. closed' \subseteq 0..tail'
      BY <1>1 DEF SavesTypeOK, Write
    <2>2. place' \in [Savers -> 0..tail'] /\ snap' \in [Savers -> 0..meta']
      BY DEF SavesTypeOK, Write
    <2>3. stored' \in Nat
      BY DEF SavesTypeOK, Write
    <2>4. QED  BY <2>1, <2>2, <2>3 DEF SavesTypeOK, Write
  <1>3. \A u \in Savers : u # t => snap[u] = 0
    BY <1>1, OneWriter
  <1>4. stored' \in {stored, snap[t]} /\ stored' >= stored /\ stored' <= meta
    BY <1>1 DEF SavesTypeOK, Chain, Write
  <1>5. \A n \in closed' : \A m \in 0..n : m \in closed'
    <2>1. ASSUME NEW m \in 0..place[t]
          PROVE  m \in closed'
      <3>1. m = place[t] \/ m \in 0..(place[t] - 1)
        BY <1>1
      <3>2. QED  BY <1>1, <3>1 DEF Chain, Write
    <2>2. QED  BY <2>1 DEF Chain, Write
  <1>6. Chain'
    <2>1. closed' = closed \cup {place[t]} /\ abandoned' = abandoned /\ meta' = meta
      BY DEF Write
    <2>2. \A u \in Savers : /\ place'[u] = IF u = t THEN 0 ELSE place[u]
                            /\ snap'[u] = 0
      BY <1>3 DEF SavesTypeOK, Write
    <2>3. 0 \in closed' /\ abandoned' \cap closed' = {}
      BY <1>1, <2>1 DEF Chain
    <2>4. \A u \in Savers : place'[u] # 0 => place'[u] \notin closed' \cup abandoned'
      BY <1>1, <2>1, <2>2 DEF Chain
    <2>5. \A u, v \in Savers : place'[u] # 0 /\ place'[u] = place'[v] => u = v
      BY <2>2 DEF Chain
    <2>6. QED  BY <1>4, <1>5, <2>1, <2>2, <2>3, <2>4, <2>5 DEF Chain
  <1>7. QED  BY <1>2, <1>4, <1>6

(* A place is left to a goroutine. *)
LEMMA GiveUpKeeps ==
  ASSUME SavesTypeOK, Chain, NEW t \in Savers, GiveUp(t)
  PROVE  SavesTypeOK' /\ Chain' /\ stored' >= stored
PROOF
  <1>1. place[t] \in 1..tail /\ place[t] \notin closed \cup abandoned
    BY DEF SavesTypeOK, Chain, GiveUp
  <1>2. SavesTypeOK'
    <2>1. abandoned' \subseteq 1..tail'
      BY <1>1 DEF SavesTypeOK, GiveUp
    <2>2. place' \in [Savers -> 0..tail']
      BY DEF SavesTypeOK, GiveUp
    <2>3. QED  BY <2>1, <2>2 DEF SavesTypeOK, GiveUp
  <1>3. Chain'
    <2>1. \A u \in Savers : place'[u] = IF u = t THEN 0 ELSE place[u]
      BY DEF SavesTypeOK, GiveUp
    <2>2. abandoned' = abandoned \cup {place[t]} /\ closed' = closed
      BY DEF GiveUp
    <2>3. \A u \in Savers : place'[u] # 0 => place'[u] \notin closed' \cup abandoned'
      BY <1>1, <2>1, <2>2 DEF Chain
    <2>4. \A u, v \in Savers : place'[u] # 0 /\ place'[u] = place'[v] => u = v
      BY <2>1 DEF Chain
    <2>5. \A u \in Savers : snap'[u] # 0 =>
            place'[u] # 0 /\ place'[u] - 1 \in closed' /\ stored' <= snap'[u]
      BY <2>1, <2>2 DEF Chain, GiveUp
    <2>6. stored' <= meta'
      BY DEF Chain, GiveUp
    <2>7. QED  BY <1>1, <2>2, <2>3, <2>4, <2>5, <2>6 DEF Chain
  <1>4. QED  BY <1>2, <1>3 DEF GiveUp, SavesTypeOK

(* A place that was left is closed in its turn. *)
LEMMA PassKeeps ==
  ASSUME SavesTypeOK, Chain, NEW n \in abandoned, Pass(n)
  PROVE  SavesTypeOK' /\ Chain' /\ stored' >= stored
PROOF
  <1>1. SavesTypeOK'
    BY DEF SavesTypeOK, Pass
  <1>2. \A k \in closed' : \A m \in 0..k : m \in closed'
    <2>1. ASSUME NEW m \in 0..n
          PROVE  m \in closed'
      <3>1. m = n \/ m \in 0..(n - 1)
        BY DEF SavesTypeOK
      <3>2. QED  BY <3>1 DEF Chain, Pass
    <2>2. QED  BY <2>1 DEF Chain, Pass
  <1>3. Chain'
    BY <1>2 DEF SavesTypeOK, Chain, Pass
  <1>4. QED  BY <1>1, <1>3 DEF Pass, SavesTypeOK

-----------------------------------------------------------------------------
(* Who owns an operation. *)

Connecting == {"check", "login", "announce"}

CallsOwn == \A t \in Calls :
  /\ call[t] = "connect" /\ pc[t] \in {"change", "stop"} => t \in owned
  /\ pc[t] \in Connecting => t \in owned

SaversOwn == \A t \in Savers :
  /\ pc[t] \in {"handling", "saving"} => t \in owned
  /\ place[t] # 0 => pc[t] = "saving"

Quiet ==
  /\ quiet => retired /\ owned = {} /\ ~loggedIn
  /\ call[Login] = "replace" /\ pc[Login] \in {"change", "stop", "signoff"} => quiet
  /\ pc[Login] = "newlogin" => quiet
  /\ pc[Login] = "drain" => retired

Owners == CallsOwn /\ SaversOwn /\ Quiet

Stopping(g) == \E t \in Calls : pc[t] = "stop" /\ prev[t] = g

(* One caller changes the generation at a time. *)
OneChange ==
  /\ changing <=> \E t \in Calls : pc[t] = "stop"
  /\ \A t, u \in Calls : pc[t] = "stop" /\ pc[u] = "stop" => t = u
  /\ changing => current = 0

(* What a connecting caller knows of its generation. *)
OneConnects ==
  /\ \A t \in Calls : pc[t] = "stop" /\ call[t] = "connect" => gen[t] = last /\ last \in Gens
  /\ \A t \in Calls : pc[t] \in Connecting => gen[t] \in Gens /\ pc[Worker[gen[t]]] = "reserved"
  /\ \A t, u \in Calls : pc[t] \in Connecting /\ pc[u] \in Connecting => t = u

(* No state is about a later generation than one that is alive. *)
AliveNewest ==
  /\ told.of <= last /\ current <= last
  /\ \A g \in Gens : gen[Worker[g]] = g
  /\ \A g \in Gens : Alive(g) => g <= last /\ told.of <= g /\ (g = current \/ Stopping(g))

HandlersLate == \A h \in Handlers :
  /\ gen[h] <= last
  /\ pc[h] \in {"failed", "cancel"} => gen[h] # 0
  /\ pc[h] # "resign"
  /\ \A g \in Gens : Alive(g) => gen[h] <= g

Generations == OneChange /\ OneConnects /\ AliveNewest /\ HandlersLate

ConnectionInv == ConnectionTypeOK /\ Chain /\ Owners /\ Generations

-----------------------------------------------------------------------------
(* A thread is of one kind, and a generation has its own. *)
LEMMA ThreadsApart ==
  /\ Calls \cap Handlers = {} /\ Calls \cap Workers = {} /\ Handlers \cap Workers = {}
  /\ Login \in Calls /\ Callers \subseteq Calls /\ Login \notin Callers
  /\ Calls \subseteq Threads /\ Handlers \subseteq Threads /\ Workers \subseteq Threads
  /\ Savers = Handlers \cup Workers /\ Savers \subseteq Threads /\ Savers \cap Calls = {}
  /\ \A g \in Gens : Worker[g] \in Workers
  /\ \A t \in Workers : \E g \in Gens : t = Worker[g]
  /\ \A g, k \in Gens : Worker[g] = Worker[k] => g = k
PROOF
  BY ConnectionAssumption DEF Calls, Threads, Workers

(* Two generations are never alive at once. *)
LEMMA AliveAlone ==
  ASSUME ConnectionTypeOK, Generations
  PROVE  OneGeneration
PROOF
  <1> SUFFICES ASSUME NEW g \in Gens, NEW k \in Gens, Alive(g), Alive(k)
               PROVE  g = k
    BY DEF OneGeneration
  <1>1. (g = current \/ Stopping(g)) /\ (k = current \/ Stopping(k))
    BY DEF Generations, AliveNewest
  <1>2. g # 0 /\ k # 0
    BY ConnectionAssumption DEF Gens
  <1>3. Stopping(g) \/ Stopping(k) => current = 0
    BY DEF Generations, OneChange, Stopping
  <1>4. QED  BY <1>1, <1>2, <1>3 DEF Generations, OneChange, Stopping

(* The generation of a connecting caller has its goroutine reserved. *)
LEMMA WorkerReserved ==
  ASSUME ConnectionInv, NEW t \in Calls, pc[t] \in Connecting
  PROVE  /\ gen[t] \in Gens /\ Worker[gen[t]] \in Workers
         /\ pc[Worker[gen[t]]] = "reserved"
PROOF
  BY ThreadsApart DEF ConnectionInv, Generations, OneConnects

(* A thread that ends a generation knows which. *)
LEMMA FailsSome ==
  ASSUME ConnectionInv, NEW t \in Handlers \cup Workers, pc[t] \in {"failed", "cancel", "resign"}
  PROVE  gen[t] \in Gens
PROOF
  <1>1. CASE t \in Workers
    <2>1. PICK g \in Gens : t = Worker[g]
      BY <1>1, ThreadsApart
    <2>2. QED  BY <2>1 DEF ConnectionInv, Generations, AliveNewest
  <1>2. CASE t \in Handlers
    <2>1. gen[t] \in 0..MaxGens
      BY <1>2, ThreadsApart DEF ConnectionInv, ConnectionTypeOK
    <2>2. gen[t] # 0
      BY <1>2 DEF ConnectionInv, Generations, HandlersLate
    <2>3. MaxGens \in Nat
      BY ConnectionAssumption
    <2>4. gen[t] \in Int /\ 0 <= gen[t] /\ gen[t] <= MaxGens
      BY <2>1, <2>3
    <2>5. 1 <= gen[t]
      BY <2>2, <2>4
    <2>6. QED  BY <2>3, <2>4, <2>5 DEF Gens
  <1>3. QED  BY <1>1, <1>2

(* At the end of a change no generation is alive, and nobody is connecting. *)
LEMMA NobodyAlive ==
  ASSUME ConnectionInv, NEW t \in Calls, EndChange(t)
  PROVE  /\ \A g \in Gens : ~Alive(g)
         /\ \A u \in Calls : pc[u] \notin Connecting
         /\ call[t] = "connect" =>
              /\ gen[t] \in Gens /\ gen[t] = last
              /\ Worker[gen[t]] \in Workers /\ pc[Worker[gen[t]]] \in {"idle", "done"}
PROOF
  <1>1. pc[t] = "stop" /\ current = 0 /\ Stopped(prev[t])
    BY DEF ConnectionInv, Generations, OneChange, EndChange
  <1>2. ASSUME NEW g \in Gens, Alive(g) PROVE FALSE
    <2>1. g # 0 /\ (g = current \/ Stopping(g))
      BY <1>2, ConnectionAssumption DEF ConnectionInv, Generations, AliveNewest, Gens
    <2>2. prev[t] = g
      BY <1>1, <2>1 DEF ConnectionInv, Generations, OneChange, Stopping
    <2>3. QED  BY <1>1, <1>2, <2>2 DEF Stopped, Alive, Gens
  <1>3. ASSUME NEW u \in Calls, pc[u] \in Connecting PROVE FALSE
    BY <1>2, <1>3, WorkerReserved DEF Alive
  <1>4. call[t] = "connect" => gen[t] \in Gens /\ gen[t] = last
    BY <1>1 DEF ConnectionInv, Generations, OneConnects
  <1>5. \A g \in Gens : Worker[g] \in Workers /\ pc[Worker[g]] \in {"idle", "done"}
    BY <1>2, ThreadsApart DEF Alive
  <1>6. QED  BY <1>2, <1>3, <1>4, <1>5

-----------------------------------------------------------------------------
(* A thread moves, and no generation begins or ends but by its own goroutine. *)
Moves(t) ==
  /\ \A u \in Threads : u # t => pc'[u] = pc[u] /\ gen'[u] = gen[u]
  /\ changing' = changing /\ current' = current /\ last' = last /\ prev' = prev
  /\ \A u \in Calls : pc[u] = "stop" => call'[u] = call[u]
  /\ told'.of \in {told.of, gen[t]}
  /\ t \in Calls =>
       /\ told'.of = told.of /\ gen'[t] = gen[t]
       /\ pc[t] # "stop" /\ pc'[t] # "stop"
       /\ pc'[t] \in Connecting => pc[t] \in Connecting
  /\ t \in Workers => gen'[t] = gen[t] /\ pc[t] \notin {"idle", "done", "reserved"}
  /\ t \in Handlers =>
       /\ gen'[t] \in {gen[t], current}
       /\ pc'[t] \in {"failed", "cancel"} => gen'[t] # 0
       /\ pc'[t] # "resign"

LEMMA MovesKeep ==
  ASSUME ConnectionInv, NEW t \in Threads, Moves(t)
  PROVE  Generations'
PROOF
  <1>inv. ConnectionTypeOK /\ Generations
    BY DEF ConnectionInv
  <1>calls. \A u \in Calls :
              /\ u \in Threads /\ u \notin Handlers /\ u \notin Workers
              /\ gen'[u] = gen[u] /\ (pc'[u] = "stop" <=> pc[u] = "stop")
              /\ pc[u] = "stop" => call'[u] = call[u]
              /\ pc'[u] \in Connecting => pc[u] \in Connecting
    BY ThreadsApart DEF Moves
  <1>workers. \A g \in Gens :
                /\ gen'[Worker[g]] = gen[Worker[g]]
                /\ Alive(g)' => Alive(g)
                /\ pc[Worker[g]] = "reserved" => pc'[Worker[g]] = "reserved"
    <2> SUFFICES ASSUME NEW g \in Gens
                 PROVE  /\ gen'[Worker[g]] = gen[Worker[g]]
                        /\ Alive(g)' => Alive(g)
                        /\ pc[Worker[g]] = "reserved" => pc'[Worker[g]] = "reserved"
      OBVIOUS
    <2>1. Worker[g] \in Workers /\ Worker[g] \in Threads /\ Worker' = Worker
      BY ThreadsApart
    <2>2. QED  BY <2>1 DEF Moves, Alive
  <1>same. changing' = changing /\ current' = current /\ last' = last /\ prev' = prev
    BY DEF Moves
  <1>stop. \A g \in Gens : Stopping(g)' <=> Stopping(g)
    BY <1>calls, <1>same DEF Stopping
  <1>told. told'.of <= last /\ \A g \in Gens : Alive(g) => told'.of <= g
    <2>1. CASE t \in Calls
      BY <2>1, <1>inv DEF Moves, Generations, AliveNewest
    <2>2. CASE t \in Workers
      <3>1. PICK k \in Gens : t = Worker[k]
        BY <2>2, ThreadsApart
      <3>2. Alive(k) /\ gen[t] = k /\ told'.of \in {told.of, k}
        BY <2>2, <3>1, <1>inv DEF Moves, Alive, Generations, AliveNewest
      <3>3. told.of <= last /\ k <= last /\ \A g \in Gens : Alive(g) => told.of <= g /\ g = k
        BY <3>2, <1>inv, AliveAlone DEF OneGeneration, Generations, AliveNewest
      <3>4. k \in Int
        BY ThreadsApart DEF Gens
      <3>5. QED  BY <3>2, <3>3, <3>4
    <2>3. CASE t \in Handlers
      <3>1. told'.of \in {told.of, gen[t]}
        BY DEF Moves
      <3>2. QED  BY <2>3, <3>1, <1>inv DEF Generations, AliveNewest, HandlersLate
    <2>4. QED  BY <2>1, <2>2, <2>3, ThreadsApart DEF Threads
  <1>1. OneChange'
    BY <1>inv, <1>calls, <1>same DEF Generations, OneChange
  <1>2. OneConnects'
    <2>1. \A u \in Calls : pc'[u] = "stop" /\ call'[u] = "connect" => gen'[u] = last' /\ last' \in Gens
      BY <1>inv, <1>calls, <1>same DEF Generations, OneConnects
    <2>2. \A u \in Calls : pc'[u] \in Connecting => gen'[u] \in Gens /\ pc'[Worker[gen'[u]]] = "reserved"
      BY <1>inv, <1>calls, <1>workers DEF Generations, OneConnects
    <2>3. \A u, v \in Calls : pc'[u] \in Connecting /\ pc'[v] \in Connecting => u = v
      BY <1>inv, <1>calls DEF Generations, OneConnects
    <2>4. QED  BY <2>1, <2>2, <2>3 DEF OneConnects
  <1>3. AliveNewest'
    <2>1. \A g \in Gens : Alive(g)' => g <= last' /\ told'.of <= g /\ (g = current' \/ Stopping(g)')
      BY <1>inv, <1>workers, <1>same, <1>stop, <1>told DEF Generations, AliveNewest
    <2>2. \A g \in Gens : gen'[Worker[g]] = g
      BY <1>inv, <1>workers DEF Generations, AliveNewest
    <2>3. told'.of <= last' /\ current' <= last'
      BY <1>inv, <1>same, <1>told DEF Generations, AliveNewest
    <2>4. QED  BY <2>1, <2>2, <2>3 DEF AliveNewest
  <1>4. HandlersLate'
    <2> SUFFICES ASSUME NEW h \in Handlers
                 PROVE  /\ gen'[h] <= last'
                        /\ pc'[h] \in {"failed", "cancel"} => gen'[h] # 0
                        /\ pc'[h] # "resign"
                        /\ \A g \in Gens : Alive(g)' => gen'[h] <= g
      BY DEF HandlersLate
    <2>1. CASE h # t
      <3>1. pc'[h] = pc[h] /\ gen'[h] = gen[h]
        BY <2>1, ThreadsApart DEF Moves
      <3>2. QED  BY <3>1, <1>inv, <1>same, <1>workers DEF Generations, HandlersLate
    <2>2. CASE h = t
      <3>1. /\ gen'[h] \in {gen[h], current}
            /\ pc'[h] \in {"failed", "cancel"} => gen'[h] # 0
            /\ pc'[h] # "resign"
        BY <2>2 DEF Moves
      <3>2. gen'[h] <= last'
        BY <3>1, <1>inv, <1>same DEF Generations, HandlersLate, AliveNewest
      <3>3. ASSUME NEW g \in Gens, Alive(g) PROVE gen'[h] <= g
        <4>1. gen[h] <= g /\ (g = current \/ (Stopping(g) /\ current = 0))
          BY <3>3, <1>inv DEF Generations, HandlersLate, AliveNewest, OneChange, Stopping
        <4>2. g \in Int /\ 0 <= g
          BY ThreadsApart DEF Gens
        <4>3. CASE gen'[h] = gen[h]
          BY <4>1, <4>3
        <4>4. CASE gen'[h] = current
          BY <4>1, <4>2, <4>4
        <4>5. QED  BY <3>1, <4>3, <4>4
      <3>4. QED  BY <3>1, <3>2, <3>3, <1>workers
    <2>3. QED  BY <2>1, <2>2
  <1>5. QED  BY <1>1, <1>2, <1>3, <1>4 DEF Generations

(* A connecting caller hands its generation over to the goroutine, or ends it. *)
LEMMA HandOverKeeps ==
  ASSUME ConnectionInv, NEW t \in Calls, pc[t] \in Connecting,
         NEW p, pc' = [pc EXCEPT ![t] = "idle", ![Worker[gen[t]]] = p],
         told'.of \in {told.of, gen[t]},
         call' = call, gen' = gen, prev' = prev,
         changing' = changing, current' = current, last' = last
  PROVE  Generations'
PROOF
  <1>inv. ConnectionTypeOK /\ Generations
    BY DEF ConnectionInv
  <1>w. PICK g \in Gens : g = gen[t] /\ Alive(g) /\ pc[Worker[g]] = "reserved"
    BY WorkerReserved DEF Alive
  <1>pc. /\ pc'[t] = "idle"
         /\ \A u \in Calls : u # t => pc'[u] = pc[u]
         /\ \A h \in Handlers : pc'[h] = pc[h]
         /\ \A k \in Gens : k # g => pc'[Worker[k]] = pc[Worker[k]]
    BY <1>inv, <1>w, ThreadsApart DEF ConnectionTypeOK
  <1>calls. \A u \in Calls : (pc'[u] = "stop" <=> pc[u] = "stop") /\ pc'[u] \notin Connecting
    BY <1>inv, <1>pc DEF Generations, OneConnects, Connecting
  <1>alive. \A k \in Gens : Alive(k)' => Alive(k)
    BY <1>w, <1>pc DEF Alive
  <1>alone. \A k \in Gens : Alive(k) => k = g
    BY <1>inv, <1>w, AliveAlone DEF OneGeneration
  <1>told. told'.of <= last /\ told'.of <= g
    <2>1. g \in Int /\ told.of <= last /\ g <= last /\ told.of <= g
      BY <1>inv, <1>w DEF Generations, AliveNewest, Gens
    <2>2. QED  BY <1>w, <2>1
  <1>1. OneChange'
    BY <1>inv, <1>calls DEF Generations, OneChange
  <1>2. OneConnects'
    BY <1>inv, <1>calls DEF Generations, OneConnects
  <1>3. AliveNewest'
    BY <1>inv, <1>calls, <1>alive, <1>alone, <1>told DEF Generations, AliveNewest, Stopping
  <1>4. HandlersLate'
    BY <1>inv, <1>pc, <1>alive DEF Generations, HandlersLate
  <1>5. QED  BY <1>1, <1>2, <1>3, <1>4 DEF Generations

(* A step keeps the owned operations in order. *)
LEMMA OwnersKept ==
  ASSUME ConnectionInv, Next
  PROVE  Owners'
PROOF
  <1> USE ThreadsApart DEF ConnectionInv
  <1>1. ASSUME NEW t \in Calls, StartCall(t)
        PROVE  Owners'
    BY <1>1 DEF StartCall, Owners, ConnectionTypeOK, SavesTypeOK, CallsOwn, SaversOwn, Quiet,
       Connecting, Goto, Act, Begin, genVars, saveVars
  <1>2. ASSUME NEW t \in Calls, BeginChange(t)
        PROVE  Owners'
    BY <1>2 DEF BeginChange, Owners, ConnectionTypeOK, SavesTypeOK, CallsOwn, SaversOwn,
       Quiet, Connecting, Goto, ownVars, saveVars
  <1>3. ASSUME NEW t \in Calls, EndChange(t)
        PROVE  Owners'
    <2>1. call[t] = "connect" => gen[t] \in Gens /\ Worker[gen[t]] \in Workers /\ pc[Worker[gen[t]]] \in {"idle", "done"}
      BY <1>3, NobodyAlive
    <2>2. \A u \in Threads : u # t => pc'[u] = pc[u] \/ (u \in Workers /\ pc[u] \in {"idle", "done"} /\ pc'[u] = "reserved")
      BY <1>3, <2>1 DEF EndChange, ConnectionTypeOK, Goto, memVars, saveVars, ownVars
    <2>3. pc[t] = "stop" /\ ((pc'[t] = "check" /\ call[t] = "connect") \/ pc'[t] = "signoff")
      BY <1>3, <2>1 DEF EndChange, ConnectionTypeOK, Goto, memVars, saveVars, ownVars
    <2>4. call' = call /\ retired' = retired /\ quiet' = quiet /\ loggedIn' = loggedIn /\ place' = place /\ owned' = owned
      BY <1>3, <2>1 DEF EndChange, ConnectionTypeOK, Goto, memVars, saveVars, ownVars
    <2>5. CallsOwn'
      BY <2>2, <2>3, <2>4 DEF Owners, CallsOwn, Connecting
    <2>6. SaversOwn'
      BY <2>2, <2>3, <2>4 DEF Owners, SaversOwn
    <2>7. Quiet'
      BY <2>2, <2>3, <2>4 DEF Owners, Quiet, CallsOwn, Connecting
    <2>8. QED  BY <2>5, <2>6, <2>7 DEF Owners
  <1>4. ASSUME NEW t \in Calls, CheckCurrent(t)
        PROVE  Owners'
    <2>1. PICK w \in Workers : w = Worker[gen[t]] /\ pc[w] = "reserved"
      BY <1>4, WorkerReserved DEF CheckCurrent, Connecting
    <2>2. \/ pc' = [pc EXCEPT ![t] = "login"] /\ owned' = owned
          \/ pc' = [pc EXCEPT ![t] = "idle", ![w] = "done"] /\ owned' = owned \ {t}
      BY <1>4, <2>1 DEF CheckCurrent, Goto, End
    <2>3. t \in Threads /\ w \in Threads /\ t # w /\ pc = [u \in Threads |-> pc[u]]
      BY <2>1 DEF ConnectionTypeOK
    <2>4. \A u \in Threads : u # t => pc'[u] = pc[u] \/ (u \in Workers /\ pc[u] = "reserved" /\ pc'[u] = "done")
      BY <2>1, <2>2, <2>3 DEF ConnectionTypeOK
    <2>5. pc[t] = "check" /\ ((pc'[t] = "login" /\ owned' = owned) \/ (pc'[t] = "idle" /\ owned' = owned \ {t}))
      BY <1>4, <2>1, <2>2, <2>3 DEF CheckCurrent, ConnectionTypeOK
    <2>6. call' = call /\ retired' = retired /\ quiet' = quiet /\ loggedIn' = loggedIn /\ place' = place
      BY <1>4, <2>1, <2>2, <2>3 DEF CheckCurrent, memVars, saveVars
    <2>7. CallsOwn'
      BY <2>4, <2>5, <2>6 DEF Owners, CallsOwn, Connecting
    <2>8. SaversOwn'
      BY <2>4, <2>5, <2>6 DEF Owners, SaversOwn
    <2>9. Quiet'
      BY <2>4, <2>5, <2>6 DEF Owners, Quiet, CallsOwn, Connecting
    <2>10. QED  BY <2>7, <2>8, <2>9 DEF Owners
  <1>5. ASSUME NEW t \in Calls, SignIn(t)
        PROVE  Owners'
    BY <1>5 DEF SignIn, Owners, ConnectionTypeOK, SavesTypeOK, CallsOwn, SaversOwn, Quiet,
       Connecting, Goto, memVars, ownVars, genVars, saveVars
  <1>6. ASSUME NEW t \in Calls, StartRun(t)
        PROVE  Owners'
    <2>1. Worker[gen[t]] \in Workers /\ pc[Worker[gen[t]]] = "reserved"
      BY <1>6, WorkerReserved DEF StartRun, Connecting
    <2>2. \A u \in Threads : u # t => pc'[u] = pc[u] \/ (u \in Workers /\ pc[u] = "reserved" /\ pc'[u] = "boot")
      BY <1>6, <2>1 DEF StartRun, ConnectionTypeOK, memVars, saveVars, End
    <2>3. pc[t] = "announce" /\ pc'[t] = "idle" /\ owned' = owned \ {t}
      BY <1>6, <2>1 DEF StartRun, ConnectionTypeOK, memVars, saveVars, End
    <2>4. call' = call /\ retired' = retired /\ quiet' = quiet /\ loggedIn' = loggedIn /\ place' = place
      BY <1>6, <2>1 DEF StartRun, ConnectionTypeOK, memVars, saveVars, End
    <2>5. CallsOwn'
      BY <2>2, <2>3, <2>4 DEF Owners, CallsOwn, Connecting
    <2>6. SaversOwn'
      BY <2>2, <2>3, <2>4 DEF Owners, SaversOwn
    <2>7. Quiet'
      BY <2>2, <2>3, <2>4 DEF Owners, Quiet, CallsOwn, Connecting
    <2>8. QED  BY <2>5, <2>6, <2>7 DEF Owners
  <1>7. ASSUME NEW t \in Calls, SignOff(t)
        PROVE  Owners'
    BY <1>7 DEF SignOff, Owners, ConnectionTypeOK, SavesTypeOK, CallsOwn, SaversOwn, Quiet,
       Connecting, Goto, End, memVars, genVars, saveVars
  <1>8. ASSUME Retire
        PROVE  Owners'
    BY <1>8 DEF Retire, Owners, ConnectionTypeOK, SavesTypeOK, CallsOwn, SaversOwn, Quiet,
       Connecting, Goto, Act, memVars, genVars, saveVars
  <1>9. ASSUME Drain
        PROVE  Owners'
    BY <1>9 DEF Drain, Owners, ConnectionTypeOK, SavesTypeOK, CallsOwn, SaversOwn, Quiet,
       Connecting, Goto, ownVars, genVars, saveVars
  <1>10. ASSUME NewLogin
        PROVE  Owners'
    BY <1>10 DEF NewLogin, Owners, ConnectionTypeOK, SavesTypeOK, CallsOwn, SaversOwn, Quiet,
       Connecting, Goto, memVars, ownVars, genVars
  <1>11. ASSUME NewLoginFails
        PROVE  Owners'
    BY <1>11 DEF NewLoginFails, Owners, ConnectionTypeOK, SavesTypeOK, CallsOwn, SaversOwn,
       Quiet, Connecting, Goto, memVars, genVars
  <1>12. ASSUME Reconnect
        PROVE  Owners'
    BY <1>12 DEF Reconnect, Owners, ConnectionTypeOK, SavesTypeOK, CallsOwn, SaversOwn,
       Quiet, Connecting, Goto, Begin, genVars, saveVars
  <1>13. ASSUME SavePass
        PROVE  Owners'
    BY <1>13 DEF SavePass, Owners, ConnectionTypeOK, SavesTypeOK, Pass, CallsOwn, SaversOwn,
       Quiet, Connecting, Unsaved, memVars, ownVars, genVars
  <1>14. ASSUME NEW t \in Workers, Boot(t)
        PROVE  Owners'
    BY <1>14 DEF Boot, Owners, ConnectionTypeOK, SavesTypeOK, CallsOwn, SaversOwn, Quiet,
       Connecting, Goto, Send, memVars, ownVars, genVars, saveVars
  <1>15. ASSUME NEW t \in Workers, Apply(t)
        PROVE  Owners'
    BY <1>15 DEF Apply, Owners, ConnectionTypeOK, SavesTypeOK, Queue, CallsOwn, SaversOwn,
       Quiet, Connecting, Goto, Begin, memVars, genVars, saveVars
  <1>16. ASSUME NEW t \in Workers, StartWorkers(t)
        PROVE  Owners'
    BY <1>16 DEF StartWorkers, Owners, ConnectionTypeOK, SavesTypeOK, CallsOwn, SaversOwn,
       Quiet, Connecting, Goto, End, memVars, genVars, saveVars
  <1>17. ASSUME NEW t \in Workers, SendReport(t)
        PROVE  Owners'
    BY <1>17 DEF SendReport, Owners, ConnectionTypeOK, SavesTypeOK, CallsOwn, SaversOwn,
       Quiet, Connecting, Goto, Send, memVars, ownVars, genVars, saveVars
  <1>18. ASSUME NEW t \in Workers, Stop(t)
        PROVE  Owners'
    BY <1>18 DEF Stop, Owners, ConnectionTypeOK, SavesTypeOK, CallsOwn, SaversOwn, Quiet,
       Connecting, Goto, memVars, ownVars, genVars, saveVars
  <1>19. ASSUME NEW t \in Workers, Refresh(t)
        PROVE  Owners'
    BY <1>19 DEF Refresh, Owners, ConnectionTypeOK, SavesTypeOK, Queue, CallsOwn, SaversOwn,
       Quiet, Connecting, Goto, Act, Begin, memVars, genVars
  <1>20. ASSUME NEW t \in Workers, Report(t)
        PROVE  Owners'
    BY <1>20 DEF Report, Owners, ConnectionTypeOK, SavesTypeOK, CallsOwn, SaversOwn, Quiet,
       Connecting, Goto, memVars, ownVars, genVars, saveVars
  <1>21. ASSUME NEW t \in Handlers, Handle(t)
        PROVE  Owners'
    BY <1>21 DEF Handle, Owners, ConnectionTypeOK, SavesTypeOK, CallsOwn, SaversOwn, Quiet,
       Connecting, Goto, Act, Begin, memVars, genVars, saveVars
  <1>22. ASSUME NEW t \in Handlers, Edit(t)
        PROVE  Owners'
    BY <1>22 DEF Edit, Owners, ConnectionTypeOK, SavesTypeOK, Queue, CallsOwn, SaversOwn,
       Quiet, Connecting, Goto, memVars, ownVars, genVars
  <1>23. ASSUME NEW t \in Handlers, Finish(t)
        PROVE  Owners'
    BY <1>23 DEF Finish, Owners, ConnectionTypeOK, SavesTypeOK, CallsOwn, SaversOwn, Quiet,
       Connecting, Goto, End, Return, memVars, genVars, saveVars
  <1>24. ASSUME NEW t \in Handlers \cup Workers, Unauthorized(t)
        PROVE  Owners'
    BY <1>24 DEF Unauthorized, Owners, ConnectionTypeOK, SavesTypeOK, CallsOwn, SaversOwn,
       Quiet, Connecting, Goto, ownVars, genVars, saveVars
  <1>25. ASSUME NEW t \in Handlers \cup Workers, CheckRunning(t)
        PROVE  Owners'
    BY <1>25 DEF CheckRunning, Owners, ConnectionTypeOK, SavesTypeOK, CallsOwn, SaversOwn,
       Quiet, Connecting, Goto, End, Return, memVars, genVars, saveVars
  <1>26. ASSUME NEW t \in Handlers \cup Workers, SetLoggedOut(t)
        PROVE  Owners'
    BY <1>26 DEF SetLoggedOut, Owners, ConnectionTypeOK, SavesTypeOK, CallsOwn, SaversOwn,
       Quiet, Connecting, Goto, memVars, ownVars, genVars, saveVars
  <1>27. ASSUME NEW t \in Handlers \cup Workers, CancelAndTell(t)
        PROVE  Owners'
    BY <1>27 DEF CancelAndTell, Owners, ConnectionTypeOK, SavesTypeOK, CallsOwn, SaversOwn,
       Quiet, Connecting, Goto, End, Return, Send, memVars, saveVars
  <1>28. ASSUME NEW t \in Handlers \cup Workers, SwapLoggedIn(t)
        PROVE  Owners'
    BY <1>28 DEF SwapLoggedIn, Owners, ConnectionTypeOK, SavesTypeOK, CallsOwn, SaversOwn,
       Quiet, Connecting, Goto, End, Return, Send, memVars, genVars, saveVars
  <1>29. ASSUME NEW t \in Handlers \cup Workers, SaveTurn(t)
        PROVE  Owners'
    BY <1>29 DEF SaveTurn, Owners, ConnectionTypeOK, SavesTypeOK, Turn, CallsOwn, SaversOwn,
       Quiet, Connecting, Unsaved, memVars, ownVars, genVars
  <1>30. ASSUME NEW t \in Handlers \cup Workers, SaveEnd(t)
        PROVE  Owners'
    BY <1>30 DEF SaveEnd, Owners, ConnectionTypeOK, SavesTypeOK, Write, GiveUp, CallsOwn,
       SaversOwn, Quiet, Connecting, Goto, Unsaved, memVars, ownVars, genVars
  <1>31. QED
    BY <1>1, <1>2, <1>3, <1>4, <1>5, <1>6, <1>7, <1>8, <1>9, <1>10, <1>11, <1>12,
       <1>13, <1>14, <1>15, <1>16, <1>17, <1>18, <1>19, <1>20, <1>21, <1>22, <1>23, <1>24,
       <1>25, <1>26, <1>27, <1>28, <1>29, <1>30
    DEF Next, CallStep, LoginStep, FailStep, SaveStep, WorkStep

(* A step keeps the chain of saves in order. *)
LEMMA ChainKept ==
  ASSUME ConnectionInv, Next
  PROVE  (SavesTypeOK /\ Chain)'
PROOF
  <1> USE ThreadsApart DEF ConnectionInv
  <1>1. ASSUME NEW t \in Calls, StartCall(t)
        PROVE  (SavesTypeOK /\ Chain)'
    BY <1>1 DEF StartCall, SavesTypeOK, Chain, ConnectionTypeOK, saveVars
  <1>2. ASSUME NEW t \in Calls, BeginChange(t)
        PROVE  (SavesTypeOK /\ Chain)'
    BY <1>2 DEF BeginChange, SavesTypeOK, Chain, ConnectionTypeOK, saveVars
  <1>3. ASSUME NEW t \in Calls, EndChange(t)
        PROVE  (SavesTypeOK /\ Chain)'
    BY <1>3 DEF EndChange, SavesTypeOK, Chain, ConnectionTypeOK, saveVars
  <1>4. ASSUME NEW t \in Calls, CheckCurrent(t)
        PROVE  (SavesTypeOK /\ Chain)'
    BY <1>4 DEF CheckCurrent, SavesTypeOK, Chain, ConnectionTypeOK, saveVars
  <1>5. ASSUME NEW t \in Calls, SignIn(t)
        PROVE  (SavesTypeOK /\ Chain)'
    BY <1>5 DEF SignIn, SavesTypeOK, Chain, ConnectionTypeOK, saveVars
  <1>6. ASSUME NEW t \in Calls, StartRun(t)
        PROVE  (SavesTypeOK /\ Chain)'
    BY <1>6 DEF StartRun, SavesTypeOK, Chain, ConnectionTypeOK, saveVars
  <1>7. ASSUME NEW t \in Calls, SignOff(t)
        PROVE  (SavesTypeOK /\ Chain)'
    BY <1>7 DEF SignOff, SavesTypeOK, Chain, ConnectionTypeOK, saveVars
  <1>8. ASSUME Retire
        PROVE  (SavesTypeOK /\ Chain)'
    BY <1>8 DEF Retire, SavesTypeOK, Chain, ConnectionTypeOK, saveVars
  <1>9. ASSUME Drain
        PROVE  (SavesTypeOK /\ Chain)'
    BY <1>9 DEF Drain, SavesTypeOK, Chain, ConnectionTypeOK, saveVars
  <1>10. ASSUME NewLogin
        PROVE  (SavesTypeOK /\ Chain)'
    <2>1. \A t \in Savers : snap[t] = 0
      BY <1>10 DEF Owners, SaversOwn, Quiet, Chain, NewLogin
    <2>2. /\ stored \in Nat /\ meta \in Nat /\ stored <= meta
          /\ snap \in [Savers -> 0..meta]
      BY DEF ConnectionTypeOK, SavesTypeOK, Chain
    <2>3. meta' \in Nat /\ meta <= meta' /\ stored' \in Nat /\ stored' <= meta'
      BY ONLY <1>10, <2>2 DEF NewLogin
    <2>4. snap' \in [Savers -> 0..meta']
      BY ONLY <1>10, <2>2, <2>3 DEF NewLogin
    <2>5. SavesTypeOK'
      BY <1>10, <2>3, <2>4 DEF ConnectionTypeOK, SavesTypeOK, NewLogin
    <2>6. Chain'
      BY <1>10, <2>1, <2>3 DEF Chain, NewLogin
    <2>7. QED  BY <2>5, <2>6
  <1>11. ASSUME NewLoginFails
        PROVE  (SavesTypeOK /\ Chain)'
    <2>1. \A t \in Savers : snap[t] = 0
      BY <1>11 DEF Owners, SaversOwn, Quiet, Chain, NewLoginFails
    <2>2. /\ stored \in Nat /\ meta \in Nat /\ stored <= meta
          /\ snap \in [Savers -> 0..meta]
      BY DEF ConnectionTypeOK, SavesTypeOK, Chain
    <2>3. meta' \in Nat /\ meta <= meta' /\ stored' \in Nat /\ stored' <= meta'
      BY ONLY <1>11, <2>2 DEF NewLoginFails
    <2>4. snap' \in [Savers -> 0..meta']
      BY ONLY <1>11, <2>2, <2>3 DEF NewLoginFails
    <2>5. SavesTypeOK'
      BY <1>11, <2>3, <2>4 DEF ConnectionTypeOK, SavesTypeOK, NewLoginFails
    <2>6. Chain'
      BY <1>11, <2>1, <2>3 DEF Chain, NewLoginFails
    <2>7. QED  BY <2>5, <2>6
  <1>12. ASSUME Reconnect
        PROVE  (SavesTypeOK /\ Chain)'
    BY <1>12 DEF Reconnect, SavesTypeOK, Chain, ConnectionTypeOK, saveVars
  <1>13. ASSUME SavePass
        PROVE  (SavesTypeOK /\ Chain)'
    BY <1>13, PassKeeps DEF SavePass, ConnectionTypeOK
  <1>14. ASSUME NEW t \in Workers, Boot(t)
        PROVE  (SavesTypeOK /\ Chain)'
    BY <1>14 DEF Boot, SavesTypeOK, Chain, ConnectionTypeOK, saveVars
  <1>15. ASSUME NEW t \in Workers, Apply(t)
        PROVE  (SavesTypeOK /\ Chain)'
    <2>1. t \in Savers /\ place[t] = 0
      BY <1>15 DEF Owners, SaversOwn, Apply
    <2>2. CASE Queue(t)
      BY <2>1, <2>2, QueueKeeps DEF ConnectionTypeOK
    <2>3. CASE UNCHANGED saveVars
      BY <2>3 DEF ConnectionTypeOK, SavesTypeOK, Chain, ConnectionTypeOK, saveVars
    <2>4. QED  BY <1>15, <2>2, <2>3 DEF Apply
  <1>16. ASSUME NEW t \in Workers, StartWorkers(t)
        PROVE  (SavesTypeOK /\ Chain)'
    BY <1>16 DEF StartWorkers, SavesTypeOK, Chain, ConnectionTypeOK, saveVars
  <1>17. ASSUME NEW t \in Workers, SendReport(t)
        PROVE  (SavesTypeOK /\ Chain)'
    BY <1>17 DEF SendReport, SavesTypeOK, Chain, ConnectionTypeOK, saveVars
  <1>18. ASSUME NEW t \in Workers, Stop(t)
        PROVE  (SavesTypeOK /\ Chain)'
    BY <1>18 DEF Stop, SavesTypeOK, Chain, ConnectionTypeOK, saveVars
  <1>19. ASSUME NEW t \in Workers, Refresh(t)
        PROVE  (SavesTypeOK /\ Chain)'
    <2>1. t \in Savers /\ place[t] = 0
      BY <1>19 DEF Owners, SaversOwn, Refresh
    <2>2. Queue(t)
      BY <1>19 DEF Refresh
    <2>3. QED  BY <2>1, <2>2, QueueKeeps DEF ConnectionTypeOK
  <1>20. ASSUME NEW t \in Workers, Report(t)
        PROVE  (SavesTypeOK /\ Chain)'
    BY <1>20 DEF Report, SavesTypeOK, Chain, ConnectionTypeOK, saveVars
  <1>21. ASSUME NEW t \in Handlers, Handle(t)
        PROVE  (SavesTypeOK /\ Chain)'
    BY <1>21 DEF Handle, SavesTypeOK, Chain, ConnectionTypeOK, saveVars
  <1>22. ASSUME NEW t \in Handlers, Edit(t)
        PROVE  (SavesTypeOK /\ Chain)'
    <2>1. t \in Savers /\ place[t] = 0
      BY <1>22 DEF Owners, SaversOwn, Edit
    <2>2. Queue(t)
      BY <1>22 DEF Edit
    <2>3. QED  BY <2>1, <2>2, QueueKeeps DEF ConnectionTypeOK
  <1>23. ASSUME NEW t \in Handlers, Finish(t)
        PROVE  (SavesTypeOK /\ Chain)'
    BY <1>23 DEF Finish, SavesTypeOK, Chain, ConnectionTypeOK, saveVars
  <1>24. ASSUME NEW t \in Handlers \cup Workers, Unauthorized(t)
        PROVE  (SavesTypeOK /\ Chain)'
    BY <1>24 DEF Unauthorized, SavesTypeOK, Chain, ConnectionTypeOK, saveVars
  <1>25. ASSUME NEW t \in Handlers \cup Workers, CheckRunning(t)
        PROVE  (SavesTypeOK /\ Chain)'
    BY <1>25 DEF CheckRunning, SavesTypeOK, Chain, ConnectionTypeOK, saveVars
  <1>26. ASSUME NEW t \in Handlers \cup Workers, SetLoggedOut(t)
        PROVE  (SavesTypeOK /\ Chain)'
    BY <1>26 DEF SetLoggedOut, SavesTypeOK, Chain, ConnectionTypeOK, saveVars
  <1>27. ASSUME NEW t \in Handlers \cup Workers, CancelAndTell(t)
        PROVE  (SavesTypeOK /\ Chain)'
    BY <1>27 DEF CancelAndTell, SavesTypeOK, Chain, ConnectionTypeOK, saveVars
  <1>28. ASSUME NEW t \in Handlers \cup Workers, SwapLoggedIn(t)
        PROVE  (SavesTypeOK /\ Chain)'
    BY <1>28 DEF SwapLoggedIn, SavesTypeOK, Chain, ConnectionTypeOK, saveVars
  <1>29. ASSUME NEW t \in Handlers \cup Workers, SaveTurn(t)
        PROVE  (SavesTypeOK /\ Chain)'
    BY <1>29, TurnKeeps DEF SaveTurn, ConnectionTypeOK
  <1>30. ASSUME NEW t \in Handlers \cup Workers, SaveEnd(t)
        PROVE  (SavesTypeOK /\ Chain)'
    BY <1>30, WriteKeeps, GiveUpKeeps DEF SaveEnd, ConnectionTypeOK
  <1>31. QED
    BY <1>1, <1>2, <1>3, <1>4, <1>5, <1>6, <1>7, <1>8, <1>9, <1>10, <1>11, <1>12,
       <1>13, <1>14, <1>15, <1>16, <1>17, <1>18, <1>19, <1>20, <1>21, <1>22, <1>23, <1>24,
       <1>25, <1>26, <1>27, <1>28, <1>29, <1>30
    DEF Next, CallStep, LoginStep, FailStep, SaveStep, WorkStep

PlaceTypes == pc \in [Threads -> Places]

MemTypes ==
  /\ call \in [Calls -> {"none", "connect", "disconnect", "logout", "replace"}]
  /\ gen \in [Threads -> 0..MaxGens] /\ prev \in [Calls -> 0..MaxGens]

StateTypes ==
  /\ retired \in BOOLEAN /\ owned \subseteq Threads
  /\ changing \in BOOLEAN /\ current \in 0..MaxGens /\ last \in 0..MaxGens
  /\ cancelled \subseteq Gens /\ loggedIn \in BOOLEAN
  /\ told \in [state : States, of : 0..MaxGens]
  /\ quiet \in BOOLEAN /\ acts \in 0..MaxActs

(* A step keeps the types. *)
LEMMA TypesKept ==
  ASSUME ConnectionInv, Next
  PROVE  ConnectionTypeOK'
PROOF
  <1> USE ThreadsApart, ConnectionAssumption DEF ConnectionInv
  <1>types. PlaceTypes /\ MemTypes /\ StateTypes
    BY DEF ConnectionTypeOK, PlaceTypes, MemTypes, StateTypes
  <1>saves. SavesTypeOK'
    BY ChainKept
  <1>1. ASSUME NEW t \in Calls, StartCall(t)
        PROVE  ConnectionTypeOK'
    <2>1. PlaceTypes'
      BY <1>types, <1>1 DEF StartCall, PlaceTypes, Places, Goto
    <2>2. MemTypes'
      <3>1. \E c \in {"connect", "logout", "disconnect"} : call' = [call EXCEPT ![t] = c]
        BY <1>1 DEF StartCall
      <3>2. gen' = gen /\ prev' = prev
        BY <1>1 DEF StartCall
      <3>3. QED  BY <1>types, <3>1, <3>2 DEF MemTypes, StateTypes
    <2>3. StateTypes'
      BY <1>types, <1>1 DEF StartCall, StateTypes, MemTypes, States, Gens, Act, Begin, genVars
    <2>4. QED  BY <1>saves, <2>1, <2>2, <2>3 DEF ConnectionTypeOK, PlaceTypes, MemTypes, StateTypes
  <1>2. ASSUME NEW t \in Calls, BeginChange(t)
        PROVE  ConnectionTypeOK'
    <2>1. PlaceTypes'
      BY <1>types, <1>2 DEF BeginChange, PlaceTypes, Places, Goto
    <2>2. MemTypes'
      <3>1. prev' \in [Calls -> 0..MaxGens] /\ call' = call
        BY <1>types, <1>2 DEF BeginChange, MemTypes, StateTypes
      <3>2. gen' \in {gen, [gen EXCEPT ![t] = last + 1]} /\ (gen' # gen => last < MaxGens)
        BY <1>2 DEF BeginChange
      <3>3. gen' \in [Threads -> 0..MaxGens]
        BY <1>types, <3>2 DEF MemTypes, StateTypes
      <3>4. QED  BY <1>types, <3>1, <3>2, <3>3 DEF MemTypes, StateTypes
    <2>3. StateTypes'
      BY <1>types, <1>2 DEF BeginChange, StateTypes, MemTypes, States, Gens, ownVars
    <2>4. QED  BY <1>saves, <2>1, <2>2, <2>3 DEF ConnectionTypeOK, PlaceTypes, MemTypes, StateTypes
  <1>3. ASSUME NEW t \in Calls, EndChange(t)
        PROVE  ConnectionTypeOK'
    <2>1. PlaceTypes'
      <3>1. \/ pc' = [pc EXCEPT ![t] = "signoff"]
            \/ pc' = [pc EXCEPT ![t] = "check", ![Worker[gen[t]]] = "reserved"]
        BY <1>3 DEF EndChange, Goto
      <3>2. QED  BY <1>types, <3>1 DEF PlaceTypes, Places
    <2>2. MemTypes'
      BY <1>types, <1>3 DEF EndChange, MemTypes, StateTypes, memVars, Gens
    <2>3. StateTypes'
      <3>1. current' \in {current, gen[t]} /\ changing' = FALSE
        BY <1>3 DEF EndChange
      <3>2. UNCHANGED <<ownVars, last, cancelled, loggedIn, told, quiet, acts>>
        BY <1>3 DEF EndChange
      <3>3. gen[t] \in 0..MaxGens
        BY <1>types DEF MemTypes
      <3>4. QED  BY <1>types, <3>1, <3>2, <3>3 DEF StateTypes, MemTypes, States, Gens, ownVars
    <2>4. QED  BY <1>saves, <2>1, <2>2, <2>3 DEF ConnectionTypeOK, PlaceTypes, MemTypes, StateTypes
  <1>4. ASSUME NEW t \in Calls, CheckCurrent(t)
        PROVE  ConnectionTypeOK'
    <2>1. PlaceTypes'
      <3>1. \/ pc' = [pc EXCEPT ![t] = "login"]
            \/ pc' = [pc EXCEPT ![t] = "idle", ![Worker[gen[t]]] = "done"]
        BY <1>4 DEF CheckCurrent, Goto
      <3>2. QED  BY <1>types, <3>1 DEF PlaceTypes, Places
    <2>2. MemTypes'
      BY <1>types, <1>4 DEF CheckCurrent, MemTypes, StateTypes, memVars, Gens
    <2>3. StateTypes'
      <3>1. gen[t] \in Gens
        BY <1>4, WorkerReserved DEF CheckCurrent, Connecting
      <3>2. cancelled' \in {cancelled, cancelled \cup {gen[t]}} /\ owned' \subseteq owned
        BY <1>4 DEF CheckCurrent, End
      <3>3. UNCHANGED <<retired, changing, current, last, loggedIn, told, quiet, acts>>
        BY <1>4 DEF CheckCurrent
      <3>4. QED  BY <1>types, <3>1, <3>2, <3>3 DEF StateTypes, MemTypes, States, Gens
    <2>4. QED  BY <1>saves, <2>1, <2>2, <2>3 DEF ConnectionTypeOK, PlaceTypes, MemTypes, StateTypes
  <1>5. ASSUME NEW t \in Calls, SignIn(t)
        PROVE  ConnectionTypeOK'
    BY <1>saves, <1>5 DEF SignIn, ConnectionTypeOK, Places, States, Gens, Goto, memVars,
       ownVars, genVars
  <1>6. ASSUME NEW t \in Calls, StartRun(t)
        PROVE  ConnectionTypeOK'
    BY <1>saves, <1>6 DEF StartRun, ConnectionTypeOK, Places, States, Gens, End, Send,
       memVars, genVars
  <1>7. ASSUME NEW t \in Calls, SignOff(t)
        PROVE  ConnectionTypeOK'
    BY <1>saves, <1>7 DEF SignOff, ConnectionTypeOK, Places, States, Gens, Goto, End,
       memVars, genVars
  <1>8. ASSUME Retire
        PROVE  ConnectionTypeOK'
    BY <1>saves, <1>8 DEF Retire, ConnectionTypeOK, Places, States, Gens, Goto, Act, memVars,
       genVars
  <1>9. ASSUME Drain
        PROVE  ConnectionTypeOK'
    BY <1>saves, <1>9 DEF Drain, ConnectionTypeOK, Places, States, Gens, Goto, ownVars, genVars
  <1>10. ASSUME NewLogin
        PROVE  ConnectionTypeOK'
    BY <1>saves, <1>10 DEF NewLogin, ConnectionTypeOK, Places, States, Gens, Goto, memVars,
       ownVars, genVars
  <1>11. ASSUME NewLoginFails
        PROVE  ConnectionTypeOK'
    BY <1>saves, <1>11 DEF NewLoginFails, ConnectionTypeOK, Places, States, Gens, Goto,
       memVars, genVars
  <1>12. ASSUME Reconnect
        PROVE  ConnectionTypeOK'
    BY <1>saves, <1>12 DEF Reconnect, ConnectionTypeOK, Places, States, Gens, Goto, Begin,
       genVars
  <1>13. ASSUME SavePass
        PROVE  ConnectionTypeOK'
    BY <1>saves, <1>13 DEF SavePass, ConnectionTypeOK, Places, States, Gens, Unsaved,
       memVars, ownVars, genVars
  <1>14. ASSUME NEW t \in Workers, Boot(t)
        PROVE  ConnectionTypeOK'
    <2>1. PlaceTypes'
      <3>1. pc' = pc \/ (\E p \in {"apply", "resign", "done"} : pc' = [pc EXCEPT ![t] = p])
        BY <1>14 DEF Boot, Goto
      <3>2. QED  BY <1>types, <3>1 DEF PlaceTypes, Places
    <2>2. MemTypes'
      BY <1>types, <1>14 DEF Boot, MemTypes, StateTypes, memVars, Gens
    <2>3. StateTypes'
      <3>1. UNCHANGED <<ownVars, genVars, loggedIn, quiet, acts>>
        BY <1>14 DEF Boot
      <3>2. told' = told \/ told' = [state |-> "transient", of |-> gen[t]]
        BY <1>14 DEF Boot, Send
      <3>3. gen[t] \in 0..MaxGens
        BY <1>types DEF MemTypes
      <3>4. QED  BY <1>types, <3>1, <3>2, <3>3 DEF StateTypes, MemTypes, States, Gens, ownVars, genVars
    <2>4. QED  BY <1>saves, <2>1, <2>2, <2>3 DEF ConnectionTypeOK, PlaceTypes, MemTypes, StateTypes
  <1>15. ASSUME NEW t \in Workers, Apply(t)
        PROVE  ConnectionTypeOK'
    <2>1. PlaceTypes'
      <3>1. \E p \in {"saving", "failing", "done"} : pc' = [pc EXCEPT ![t] = p]
        BY <1>15 DEF Apply, Goto
      <3>2. QED  BY <1>types, <3>1 DEF PlaceTypes, Places
    <2>2. MemTypes'
      BY <1>types, <1>15 DEF Apply, MemTypes, StateTypes, memVars, Gens
    <2>3. StateTypes'
      BY <1>types, <1>15 DEF Apply, StateTypes, MemTypes, States, Gens, Begin, genVars
    <2>4. QED  BY <1>saves, <2>1, <2>2, <2>3 DEF ConnectionTypeOK, PlaceTypes, MemTypes, StateTypes
  <1>16. ASSUME NEW t \in Workers, StartWorkers(t)
        PROVE  ConnectionTypeOK'
    BY <1>saves, <1>16 DEF StartWorkers, ConnectionTypeOK, Places, States, Gens, Goto, End,
       memVars, genVars
  <1>17. ASSUME NEW t \in Workers, SendReport(t)
        PROVE  ConnectionTypeOK'
    BY <1>saves, <1>17 DEF SendReport, ConnectionTypeOK, Places, States, Gens, Goto, Send,
       memVars, ownVars, genVars
  <1>18. ASSUME NEW t \in Workers, Stop(t)
        PROVE  ConnectionTypeOK'
    BY <1>saves, <1>18 DEF Stop, ConnectionTypeOK, Places, States, Gens, Goto, memVars,
       ownVars, genVars
  <1>19. ASSUME NEW t \in Workers, Refresh(t)
        PROVE  ConnectionTypeOK'
    BY <1>saves, <1>19 DEF Refresh, ConnectionTypeOK, Places, States, Gens, Goto, Act, Begin,
       memVars, genVars
  <1>20. ASSUME NEW t \in Workers, Report(t)
        PROVE  ConnectionTypeOK'
    BY <1>saves, <1>20 DEF Report, ConnectionTypeOK, Places, States, Gens, Goto, memVars,
       ownVars, genVars
  <1>21. ASSUME NEW t \in Handlers, Handle(t)
        PROVE  ConnectionTypeOK'
    BY <1>saves, <1>21 DEF Handle, ConnectionTypeOK, Places, States, Gens, Goto, Act, Begin,
       memVars, genVars
  <1>22. ASSUME NEW t \in Handlers, Edit(t)
        PROVE  ConnectionTypeOK'
    BY <1>saves, <1>22 DEF Edit, ConnectionTypeOK, Places, States, Gens, Goto, memVars,
       ownVars, genVars
  <1>23. ASSUME NEW t \in Handlers, Finish(t)
        PROVE  ConnectionTypeOK'
    BY <1>saves, <1>23 DEF Finish, ConnectionTypeOK, Places, States, Gens, Goto, End, Return,
       memVars, genVars
  <1>24. ASSUME NEW t \in Handlers \cup Workers, Unauthorized(t)
        PROVE  ConnectionTypeOK'
    <2>1. PlaceTypes'
      <3>1. \E p \in {"failing", "swap"} : pc' = [pc EXCEPT ![t] = p]
        BY <1>24 DEF Unauthorized, Goto
      <3>2. QED  BY <1>types, <3>1 DEF PlaceTypes, Places
    <2>2. MemTypes'
      BY <1>types, <1>24 DEF Unauthorized, MemTypes, StateTypes, Gens
    <2>3. StateTypes'
      BY <1>types, <1>24 DEF Unauthorized, StateTypes, MemTypes, States, Gens, genVars, ownVars
    <2>4. QED  BY <1>saves, <2>1, <2>2, <2>3 DEF ConnectionTypeOK, PlaceTypes, MemTypes, StateTypes
  <1>25. ASSUME NEW t \in Handlers \cup Workers, CheckRunning(t)
        PROVE  ConnectionTypeOK'
    <2>1. PlaceTypes'
      <3>1. \E p \in {"failed", "done", "idle"} : pc' = [pc EXCEPT ![t] = p]
        BY <1>25 DEF CheckRunning, Goto, Return
      <3>2. QED  BY <1>types, <3>1 DEF PlaceTypes, Places
    <2>2. MemTypes'
      BY <1>types, <1>25 DEF CheckRunning, MemTypes, StateTypes, memVars, Gens
    <2>3. StateTypes'
      BY <1>types, <1>25 DEF CheckRunning, StateTypes, MemTypes, States, Gens, End, Return,
         genVars
    <2>4. QED  BY <1>saves, <2>1, <2>2, <2>3 DEF ConnectionTypeOK, PlaceTypes, MemTypes, StateTypes
  <1>26. ASSUME NEW t \in Handlers \cup Workers, SetLoggedOut(t)
        PROVE  ConnectionTypeOK'
    BY <1>saves, <1>26 DEF SetLoggedOut, ConnectionTypeOK, Places, States, Gens, Goto,
       memVars, ownVars, genVars
  <1>27. ASSUME NEW t \in Handlers \cup Workers, CancelAndTell(t)
        PROVE  ConnectionTypeOK'
    <2>1. PlaceTypes'
      BY <1>types, <1>27 DEF CancelAndTell, PlaceTypes, Places, Goto, Return
    <2>2. MemTypes'
      BY <1>types, <1>27 DEF CancelAndTell, MemTypes, StateTypes, memVars, Gens
    <2>3. StateTypes'
      <3>1. gen[t] \in Gens
        BY <1>27, FailsSome DEF CancelAndTell
      <3>2. \E s \in States : told' = told \/ told' = [state |-> s, of |-> gen[t]]
        BY <1>27 DEF CancelAndTell, Send, States
      <3>3. told' \in [state : States, of : 0..MaxGens]
        BY <1>types, <3>1, <3>2 DEF StateTypes, Gens
      <3>4. cancelled' = cancelled \cup {gen[t]} /\ owned' \subseteq owned
        BY <1>27 DEF CancelAndTell, Return, End
      <3>5. UNCHANGED <<retired, changing, current, last, loggedIn, quiet, acts>>
        BY <1>27 DEF CancelAndTell
      <3>6. QED  BY <1>types, <3>1, <3>2, <3>3, <3>4, <3>5 DEF StateTypes, MemTypes, States, Gens
    <2>4. QED  BY <1>saves, <2>1, <2>2, <2>3 DEF ConnectionTypeOK, PlaceTypes, MemTypes, StateTypes
  <1>28. ASSUME NEW t \in Handlers \cup Workers, SwapLoggedIn(t)
        PROVE  ConnectionTypeOK'
    <2>1. PlaceTypes'
      BY <1>types, <1>28 DEF SwapLoggedIn, PlaceTypes, Places, Goto, Return
    <2>2. MemTypes'
      BY <1>types, <1>28 DEF SwapLoggedIn, MemTypes, StateTypes, memVars, Gens
    <2>3. StateTypes'
      <3>1. told' = told \/ told' = [state |-> "bad", of |-> gen[t]]
        BY <1>28 DEF SwapLoggedIn, Send
      <3>2. gen[t] \in 0..MaxGens
        BY <1>types DEF MemTypes
      <3>3. told' \in [state : States, of : 0..MaxGens]
        BY <1>types, <3>1, <3>2 DEF StateTypes, States
      <3>4. owned' \subseteq owned /\ loggedIn' = FALSE
        BY <1>28 DEF SwapLoggedIn, Return, End
      <3>5. UNCHANGED <<retired, genVars, quiet, acts>>
        BY <1>28 DEF SwapLoggedIn
      <3>6. QED  BY <1>types, <3>1, <3>2, <3>3, <3>4, <3>5 DEF StateTypes, MemTypes, States, Gens, ownVars, genVars
    <2>4. QED  BY <1>saves, <2>1, <2>2, <2>3 DEF ConnectionTypeOK, PlaceTypes, MemTypes, StateTypes
  <1>29. ASSUME NEW t \in Handlers \cup Workers, SaveTurn(t)
        PROVE  ConnectionTypeOK'
    BY <1>saves, <1>29 DEF SaveTurn, ConnectionTypeOK, Places, States, Gens, Unsaved,
       memVars, ownVars, genVars
  <1>30. ASSUME NEW t \in Handlers \cup Workers, SaveEnd(t)
        PROVE  ConnectionTypeOK'
    BY <1>saves, <1>30 DEF SaveEnd, ConnectionTypeOK, Places, States, Gens, Goto, Unsaved,
       memVars, ownVars, genVars
  <1>31. QED
    BY <1>1, <1>2, <1>3, <1>4, <1>5, <1>6, <1>7, <1>8, <1>9, <1>10, <1>11, <1>12,
       <1>13, <1>14, <1>15, <1>16, <1>17, <1>18, <1>19, <1>20, <1>21, <1>22, <1>23, <1>24,
       <1>25, <1>26, <1>27, <1>28, <1>29, <1>30
    DEF Next, CallStep, LoginStep, FailStep, SaveStep, WorkStep

(* A step keeps the generations in order. *)
LEMMA GenerationsKept ==
  ASSUME ConnectionInv, Next
  PROVE  Generations'
PROOF
  <1> USE ThreadsApart DEF ConnectionInv
  <1>1. ASSUME NEW t \in Calls, StartCall(t)
        PROVE  Generations'
    <2>1. Moves(t)
      BY <1>1 DEF StartCall, Moves, Goto, Act, Begin, genVars, saveVars, ConnectionTypeOK,
         Connecting
    <2>2. QED  BY <2>1, MovesKeep
  <1>2. ASSUME NEW t \in Calls, BeginChange(t)
        PROVE  Generations'
    <2>1. /\ pc[t] = "change" /\ pc' = [pc EXCEPT ![t] = "stop"] /\ prev' = [prev EXCEPT ![t] = current]
          /\ ~changing /\ changing' = TRUE /\ current' = 0 /\ told' = told /\ call' = call
      BY <1>2 DEF BeginChange, Goto
    <2>2. /\ \A u \in Threads : u # t => pc'[u] = pc[u] /\ gen'[u] = gen[u]
          /\ pc'[t] = "stop" /\ prev'[t] = current
          /\ call[t] = "connect" => gen'[t] = last' /\ last < MaxGens /\ last' = last + 1
          /\ last' \in {last, last + 1}
      BY <1>2, <2>1 DEF BeginChange, ConnectionTypeOK
    <2>3. \A u \in Calls : pc[u] # "stop"
      BY <2>1 DEF Generations, OneChange
    <2>4. last \in Nat /\ last' \in Nat /\ last <= last' /\ (call[t] = "connect" => last' \in Gens)
      BY <2>2, ConnectionAssumption DEF ConnectionTypeOK, Gens
    <2>5. \A g \in Gens : (Alive(g)' <=> Alive(g)) /\ gen'[Worker[g]] = gen[Worker[g]]
                          /\ pc'[Worker[g]] = pc[Worker[g]]
      BY <2>2 DEF Alive
    <2>6. OneChange'
      BY <2>1, <2>2, <2>3 DEF OneChange
    <2>7. OneConnects'
      BY <2>1, <2>2, <2>3, <2>4, <2>5 DEF Generations, OneConnects, Connecting
    <2>8. AliveNewest'
      <3>1. told'.of <= last' /\ current' <= last'
        BY <2>1, <2>2, <2>4 DEF Generations, AliveNewest, ConnectionTypeOK
      <3>2. ASSUME NEW g \in Gens, Alive(g) PROVE g <= last' /\ told'.of <= g /\ Stopping(g)'
        <4>1. g <= last /\ told.of <= g /\ g = current
          BY <2>3, <3>2 DEF Generations, AliveNewest, Stopping
        <4>2. g <= last'
          BY <2>4, <4>1 DEF Gens
        <4>3. QED  BY <2>1, <2>2, <4>1, <4>2 DEF Stopping
      <3>3. QED  BY <2>5, <3>1, <3>2 DEF Generations, AliveNewest
    <2>9. HandlersLate'
      BY <2>2, <2>4, <2>5 DEF Generations, HandlersLate, ConnectionTypeOK
    <2>10. QED  BY <2>6, <2>7, <2>8, <2>9 DEF Generations
  <1>3. ASSUME NEW t \in Calls, EndChange(t)
        PROVE  Generations'
    <2>1. /\ pc[t] = "stop" /\ changing' = FALSE /\ last' = last /\ told' = told
          /\ gen' = gen /\ call' = call /\ prev' = prev
      BY <1>3 DEF EndChange, memVars
    <2>2. /\ \A g \in Gens : ~Alive(g)
          /\ \A u \in Calls : pc[u] \notin Connecting /\ (pc[u] = "stop" => u = t)
      BY <1>3, <2>1, NobodyAlive DEF Generations, OneChange
    <2>3. CASE call[t] # "connect"
      <3>1. \A u \in Threads : u # t => pc'[u] = pc[u]
        BY <1>3, <2>3 DEF EndChange, Goto, ConnectionTypeOK
      <3>2. pc'[t] = "signoff" /\ current' = current /\ current = 0
        BY <1>3, <2>1, <2>3 DEF EndChange, Goto, ConnectionTypeOK, Generations, OneChange
      <3>3. \A g \in Gens : ~Alive(g)'
        BY <2>2, <3>1 DEF Alive
      <3>4. QED
        BY <2>1, <2>2, <3>1, <3>2, <3>3
        DEF Generations, OneChange, OneConnects, AliveNewest, HandlersLate, Connecting
    <2>4. CASE call[t] = "connect"
      <3>1. PICK k \in Gens : k = gen[t] /\ k = last /\ Worker[k] \in Workers /\ Worker[k] # t
        BY <1>3, <2>4, NobodyAlive
      <3>2. pc' = [pc EXCEPT ![t] = "check", ![Worker[k]] = "reserved"] /\ current' = k
        BY <1>3, <2>4, <3>1 DEF EndChange
      <3>3. /\ pc'[t] = "check" /\ pc'[Worker[k]] = "reserved"
            /\ \A u \in Threads : u # t /\ u # Worker[k] => pc'[u] = pc[u]
        BY <3>1, <3>2 DEF ConnectionTypeOK
      <3>4. \A g \in Gens : Alive(g)' => g = k
        BY <2>2, <3>3 DEF Alive
      <3>5. k \in Int /\ k <= last'
        BY <2>1, <3>1, ConnectionAssumption DEF Gens
      <3>6. \A u \in Calls \cup Handlers : u # t => pc'[u] = pc[u]
        BY <3>1, <3>3
      <3>7. OneChange'
        BY <2>1, <2>2, <3>3, <3>6 DEF OneChange
      <3>8. OneConnects'
        BY <2>1, <2>2, <3>1, <3>3, <3>6 DEF OneConnects, Connecting
      <3>9. AliveNewest'
        <4>1. told'.of <= last' /\ told'.of <= k /\ \A g \in Gens : gen'[Worker[g]] = g
          BY <2>1, <3>1 DEF Generations, AliveNewest
        <4>2. QED  BY <3>2, <3>4, <3>5, <4>1 DEF AliveNewest
      <3>10. HandlersLate'
        BY <2>1, <3>1, <3>4, <3>6 DEF Generations, HandlersLate
      <3>11. QED  BY <3>7, <3>8, <3>9, <3>10 DEF Generations
    <2>5. QED  BY <2>3, <2>4
  <1>4. ASSUME NEW t \in Calls, CheckCurrent(t)
        PROVE  Generations'
    <2>1. CASE IsCurrent(gen[t])
      <3>1. Moves(t)
        BY <1>4, <2>1 DEF CheckCurrent, Moves, Goto, memVars, ConnectionTypeOK, Connecting
      <3>2. QED  BY <3>1, MovesKeep
    <2>2. CASE ~IsCurrent(gen[t])
      BY <1>4, <2>2, HandOverKeeps DEF CheckCurrent, Connecting, memVars
    <2>3. QED  BY <2>1, <2>2
  <1>5. ASSUME NEW t \in Calls, SignIn(t)
        PROVE  Generations'
    <2>1. Moves(t)
      BY <1>5 DEF SignIn, Moves, Goto, memVars, ownVars, genVars, saveVars, ConnectionTypeOK,
         Connecting
    <2>2. QED  BY <2>1, MovesKeep
  <1>6. ASSUME NEW t \in Calls, StartRun(t)
        PROVE  Generations'
    <2>1. told'.of \in {told.of, gen[t]} /\ pc[t] \in Connecting
      BY <1>6 DEF StartRun, Send, Connecting
    <2>2. QED  BY <1>6, <2>1, HandOverKeeps DEF StartRun, memVars, genVars
  <1>7. ASSUME NEW t \in Calls, SignOff(t)
        PROVE  Generations'
    <2>1. Moves(t)
      BY <1>7 DEF SignOff, Moves, Goto, End, memVars, genVars, saveVars, ConnectionTypeOK,
         Connecting
    <2>2. QED  BY <2>1, MovesKeep
  <1>8. ASSUME Retire
        PROVE  Generations'
    <2>1. Moves(Login)
      BY <1>8 DEF Retire, Moves, Goto, Act, memVars, genVars, saveVars, ConnectionTypeOK,
         Connecting
    <2>2. QED  BY <2>1, MovesKeep
  <1>9. ASSUME Drain
        PROVE  Generations'
    <2>1. Moves(Login)
      BY <1>9 DEF Drain, Moves, Goto, ownVars, genVars, saveVars, ConnectionTypeOK, Connecting
    <2>2. QED  BY <2>1, MovesKeep
  <1>10. ASSUME NewLogin
        PROVE  Generations'
    <2>1. Moves(Login)
      BY <1>10 DEF NewLogin, Moves, Goto, memVars, ownVars, genVars, ConnectionTypeOK,
         Connecting
    <2>2. QED  BY <2>1, MovesKeep
  <1>11. ASSUME NewLoginFails
        PROVE  Generations'
    <2>1. Moves(Login)
      BY <1>11 DEF NewLoginFails, Moves, Goto, memVars, genVars, ConnectionTypeOK, Connecting
    <2>2. QED  BY <2>1, MovesKeep
  <1>12. ASSUME Reconnect
        PROVE  Generations'
    <2>1. Moves(Login)
      BY <1>12 DEF Reconnect, Moves, Goto, Begin, genVars, saveVars, ConnectionTypeOK,
         Connecting
    <2>2. QED  BY <2>1, MovesKeep
  <1>13. ASSUME SavePass
        PROVE  Generations'
    BY <1>13 DEF SavePass, Unsaved, memVars, genVars, Generations, OneChange, OneConnects,
       AliveNewest, HandlersLate, Stopping, Alive
  <1>14. ASSUME NEW t \in Workers, Boot(t)
        PROVE  Generations'
    <2>1. Moves(t)
      BY <1>14 DEF Boot, Moves, Running, IsCurrent, Goto, Send, memVars, ownVars, genVars,
         saveVars, ConnectionTypeOK, Connecting
    <2>2. QED  BY <2>1, MovesKeep
  <1>15. ASSUME NEW t \in Workers, Apply(t)
        PROVE  Generations'
    <2>1. Moves(t)
      BY <1>15 DEF Apply, Moves, Running, IsCurrent, Goto, Begin, memVars, genVars, saveVars,
         ConnectionTypeOK, Connecting
    <2>2. QED  BY <2>1, MovesKeep
  <1>16. ASSUME NEW t \in Workers, StartWorkers(t)
        PROVE  Generations'
    <2>1. Moves(t)
      BY <1>16 DEF StartWorkers, Moves, Goto, End, memVars, genVars, saveVars,
         ConnectionTypeOK, Connecting
    <2>2. QED  BY <2>1, MovesKeep
  <1>17. ASSUME NEW t \in Workers, SendReport(t)
        PROVE  Generations'
    <2>1. Moves(t)
      BY <1>17 DEF SendReport, Moves, Goto, Send, memVars, ownVars, genVars, saveVars,
         ConnectionTypeOK, Connecting
    <2>2. QED  BY <2>1, MovesKeep
  <1>18. ASSUME NEW t \in Workers, Stop(t)
        PROVE  Generations'
    <2>1. Moves(t)
      BY <1>18 DEF Stop, Moves, Goto, memVars, ownVars, genVars, saveVars, ConnectionTypeOK,
         Connecting
    <2>2. QED  BY <2>1, MovesKeep
  <1>19. ASSUME NEW t \in Workers, Refresh(t)
        PROVE  Generations'
    <2>1. Moves(t)
      BY <1>19 DEF Refresh, Moves, Goto, Act, Begin, memVars, genVars, ConnectionTypeOK,
         Connecting
    <2>2. QED  BY <2>1, MovesKeep
  <1>20. ASSUME NEW t \in Workers, Report(t)
        PROVE  Generations'
    <2>1. Moves(t)
      BY <1>20 DEF Report, Moves, Running, IsCurrent, Goto, memVars, ownVars, genVars,
         saveVars, ConnectionTypeOK, Connecting
    <2>2. QED  BY <2>1, MovesKeep
  <1>21. ASSUME NEW t \in Handlers, Handle(t)
        PROVE  Generations'
    <2>1. Moves(t)
      BY <1>21 DEF Handle, Moves, Goto, Act, Begin, memVars, genVars, saveVars,
         ConnectionTypeOK, Connecting
    <2>2. QED  BY <2>1, MovesKeep
  <1>22. ASSUME NEW t \in Handlers, Edit(t)
        PROVE  Generations'
    <2>1. Moves(t)
      BY <1>22 DEF Edit, Moves, Goto, memVars, ownVars, genVars, ConnectionTypeOK, Connecting
    <2>2. QED  BY <2>1, MovesKeep
  <1>23. ASSUME NEW t \in Handlers, Finish(t)
        PROVE  Generations'
    <2>1. Moves(t)
      BY <1>23 DEF Finish, Moves, Goto, End, Return, memVars, genVars, saveVars,
         ConnectionTypeOK, Connecting
    <2>2. QED  BY <2>1, MovesKeep
  <1>24. ASSUME NEW t \in Handlers \cup Workers, Unauthorized(t)
        PROVE  Generations'
    <2>1. Moves(t)
      BY <1>24 DEF Unauthorized, Moves, Running, IsCurrent, Goto, ownVars, genVars, saveVars,
         ConnectionTypeOK, Connecting
    <2>2. QED  BY <2>1, MovesKeep
  <1>25. ASSUME NEW t \in Handlers \cup Workers, CheckRunning(t)
        PROVE  Generations'
    <2>1. Moves(t)
      BY <1>25 DEF CheckRunning, Moves, Running, Goto, End, Return, memVars, genVars,
         saveVars, ConnectionTypeOK, Connecting
    <2>2. QED  BY <2>1, MovesKeep
  <1>26. ASSUME NEW t \in Handlers \cup Workers, SetLoggedOut(t)
        PROVE  Generations'
    <2>1. Moves(t)
      BY <1>26, FailsSome, ConnectionAssumption DEF SetLoggedOut, Gens, Moves, Goto, memVars,
         ownVars, genVars, saveVars, ConnectionTypeOK, Connecting
    <2>2. QED  BY <2>1, MovesKeep
  <1>27. ASSUME NEW t \in Handlers \cup Workers, CancelAndTell(t)
        PROVE  Generations'
    <2>1. Moves(t)
      BY <1>27 DEF CancelAndTell, Moves, Goto, End, Return, Send, memVars, saveVars,
         ConnectionTypeOK, Connecting
    <2>2. QED  BY <2>1, MovesKeep
  <1>28. ASSUME NEW t \in Handlers \cup Workers, SwapLoggedIn(t)
        PROVE  Generations'
    <2>1. Moves(t)
      BY <1>28 DEF SwapLoggedIn, Moves, Goto, End, Return, Send, memVars, genVars, saveVars,
         ConnectionTypeOK, Connecting
    <2>2. QED  BY <2>1, MovesKeep
  <1>29. ASSUME NEW t \in Handlers \cup Workers, SaveTurn(t)
        PROVE  Generations'
    <2>1. Moves(t)
      BY <1>29 DEF SaveTurn, Moves, Unsaved, memVars, ownVars, genVars, ConnectionTypeOK,
         Connecting
    <2>2. QED  BY <2>1, MovesKeep
  <1>30. ASSUME NEW t \in Handlers \cup Workers, SaveEnd(t)
        PROVE  Generations'
    <2>1. Moves(t)
      BY <1>30 DEF SaveEnd, Moves, Goto, Unsaved, memVars, ownVars, genVars,
         ConnectionTypeOK, Connecting
    <2>2. QED  BY <2>1, MovesKeep
  <1>31. QED
    BY <1>1, <1>2, <1>3, <1>4, <1>5, <1>6, <1>7, <1>8, <1>9, <1>10, <1>11, <1>12,
       <1>13, <1>14, <1>15, <1>16, <1>17, <1>18, <1>19, <1>20, <1>21, <1>22, <1>23, <1>24,
       <1>25, <1>26, <1>27, <1>28, <1>29, <1>30
    DEF Next, CallStep, LoginStep, FailStep, SaveStep, WorkStep

-----------------------------------------------------------------------------
(* What a step of a quiet client leaves alone. *)
Silent == quiet /\ quiet' =>
  /\ told' = told /\ ~loggedIn' /\ owned' \subseteq owned /\ last' = last
  /\ stored' = stored \/ pc[Login] = "newlogin"

(* A state is about the generation of the last one, or a later one. *)
Later == told'.of >= told.of \/ \E t \in Handlers : pc[t] \in {"cancel", "swap"} /\ pc'[t] = "idle"

(* No step takes the database back. *)
LEMMA StoredGrows ==
  ASSUME ConnectionInv, Next
  PROVE  stored' >= stored
PROOF
  <1>inv. SavesTypeOK /\ Chain
    BY DEF ConnectionInv, ConnectionTypeOK
  <1> USE <1>inv, ThreadsApart DEF SavesTypeOK
  <1>1. ASSUME NEW t \in Calls, StartCall(t)
        PROVE  stored' >= stored
    BY <1>1 DEF StartCall, saveVars
  <1>2. ASSUME NEW t \in Calls, BeginChange(t)
        PROVE  stored' >= stored
    BY <1>2 DEF BeginChange, saveVars
  <1>3. ASSUME NEW t \in Calls, EndChange(t)
        PROVE  stored' >= stored
    BY <1>3 DEF EndChange, saveVars
  <1>4. ASSUME NEW t \in Calls, CheckCurrent(t)
        PROVE  stored' >= stored
    BY <1>4 DEF CheckCurrent, saveVars
  <1>5. ASSUME NEW t \in Calls, SignIn(t)
        PROVE  stored' >= stored
    BY <1>5 DEF SignIn, saveVars
  <1>6. ASSUME NEW t \in Calls, StartRun(t)
        PROVE  stored' >= stored
    BY <1>6 DEF StartRun, saveVars
  <1>7. ASSUME NEW t \in Calls, SignOff(t)
        PROVE  stored' >= stored
    BY <1>7 DEF SignOff, saveVars
  <1>8. ASSUME Retire
        PROVE  stored' >= stored
    BY <1>8 DEF Retire, saveVars
  <1>9. ASSUME Drain
        PROVE  stored' >= stored
    BY <1>9 DEF Drain, saveVars
  <1>10. ASSUME NewLogin
        PROVE  stored' >= stored
    BY <1>10 DEF NewLogin, Chain
  <1>11. ASSUME NewLoginFails
        PROVE  stored' >= stored
    BY <1>11 DEF NewLoginFails, Chain
  <1>12. ASSUME Reconnect
        PROVE  stored' >= stored
    BY <1>12 DEF Reconnect, saveVars
  <1>13. ASSUME SavePass
        PROVE  stored' >= stored
    BY <1>13 DEF SavePass, Pass
  <1>14. ASSUME NEW t \in Workers, Boot(t)
        PROVE  stored' >= stored
    BY <1>14 DEF Boot, saveVars
  <1>15. ASSUME NEW t \in Workers, Apply(t)
        PROVE  stored' >= stored
    BY <1>15 DEF Apply, Queue, saveVars
  <1>16. ASSUME NEW t \in Workers, StartWorkers(t)
        PROVE  stored' >= stored
    BY <1>16 DEF StartWorkers, saveVars
  <1>17. ASSUME NEW t \in Workers, SendReport(t)
        PROVE  stored' >= stored
    BY <1>17 DEF SendReport, saveVars
  <1>18. ASSUME NEW t \in Workers, Stop(t)
        PROVE  stored' >= stored
    BY <1>18 DEF Stop, saveVars
  <1>19. ASSUME NEW t \in Workers, Refresh(t)
        PROVE  stored' >= stored
    BY <1>19 DEF Refresh, Queue
  <1>20. ASSUME NEW t \in Workers, Report(t)
        PROVE  stored' >= stored
    BY <1>20 DEF Report, saveVars
  <1>21. ASSUME NEW t \in Handlers, Handle(t)
        PROVE  stored' >= stored
    BY <1>21 DEF Handle, saveVars
  <1>22. ASSUME NEW t \in Handlers, Edit(t)
        PROVE  stored' >= stored
    BY <1>22 DEF Edit, Queue
  <1>23. ASSUME NEW t \in Handlers, Finish(t)
        PROVE  stored' >= stored
    BY <1>23 DEF Finish, saveVars
  <1>24. ASSUME NEW t \in Handlers \cup Workers, Unauthorized(t)
        PROVE  stored' >= stored
    BY <1>24 DEF Unauthorized, saveVars
  <1>25. ASSUME NEW t \in Handlers \cup Workers, CheckRunning(t)
        PROVE  stored' >= stored
    BY <1>25 DEF CheckRunning, saveVars
  <1>26. ASSUME NEW t \in Handlers \cup Workers, SetLoggedOut(t)
        PROVE  stored' >= stored
    BY <1>26 DEF SetLoggedOut, saveVars
  <1>27. ASSUME NEW t \in Handlers \cup Workers, CancelAndTell(t)
        PROVE  stored' >= stored
    BY <1>27 DEF CancelAndTell, saveVars
  <1>28. ASSUME NEW t \in Handlers \cup Workers, SwapLoggedIn(t)
        PROVE  stored' >= stored
    BY <1>28 DEF SwapLoggedIn, saveVars
  <1>29. ASSUME NEW t \in Handlers \cup Workers, SaveTurn(t)
        PROVE  stored' >= stored
    BY <1>29 DEF SaveTurn, Turn
  <1>30. ASSUME NEW t \in Handlers \cup Workers, SaveEnd(t)
        PROVE  stored' >= stored
    BY <1>30, WriteKeeps, GiveUpKeeps DEF SaveEnd
  <1>31. QED
    BY <1>1, <1>2, <1>3, <1>4, <1>5, <1>6, <1>7, <1>8, <1>9, <1>10, <1>11, <1>12,
       <1>13, <1>14, <1>15, <1>16, <1>17, <1>18, <1>19, <1>20, <1>21, <1>22, <1>23, <1>24,
       <1>25, <1>26, <1>27, <1>28, <1>29, <1>30
    DEF Next, CallStep, LoginStep, FailStep, SaveStep, WorkStep

(* A step of a quiet client says, saves and begins nothing. *)
LEMMA QuietIsKept ==
  ASSUME ConnectionInv, Next
  PROVE  Silent
PROOF
  <1> SUFFICES ASSUME quiet, quiet' PROVE Silent
    BY DEF Silent
  <1>quiet. Owners /\ retired /\ owned = {} /\ ~loggedIn
    BY DEF ConnectionInv, Owners, Quiet
  <1> USE <1>quiet, ThreadsApart DEF Silent
  <1>1. ASSUME NEW t \in Calls, StartCall(t)
        PROVE  Silent
    BY <1>1 DEF StartCall, Goto, Act, Begin, genVars, saveVars
  <1>2. ASSUME NEW t \in Calls, BeginChange(t)
        PROVE  Silent
    BY <1>2 DEF BeginChange, Owners, CallsOwn, ownVars, saveVars
  <1>3. ASSUME NEW t \in Calls, EndChange(t)
        PROVE  Silent
    BY <1>3 DEF EndChange, Goto, memVars, ownVars, saveVars
  <1>4. ASSUME NEW t \in Calls, CheckCurrent(t)
        PROVE  Silent
    BY <1>4 DEF CheckCurrent, Goto, End, memVars, saveVars
  <1>5. ASSUME NEW t \in Calls, SignIn(t)
        PROVE  Silent
    BY <1>5 DEF SignIn, Owners, CallsOwn, Connecting
  <1>6. ASSUME NEW t \in Calls, StartRun(t)
        PROVE  Silent
    BY <1>6 DEF StartRun, End, Send, memVars, genVars, saveVars
  <1>7. ASSUME NEW t \in Calls, SignOff(t)
        PROVE  Silent
    BY <1>7 DEF SignOff, Goto, End, memVars, genVars, saveVars
  <1>8. ASSUME Retire
        PROVE  Silent
    BY <1>8 DEF Retire, Goto, Act, memVars, genVars, saveVars
  <1>9. ASSUME Drain
        PROVE  Silent
    BY <1>9 DEF Drain, Goto, ownVars, genVars, saveVars
  <1>10. ASSUME NewLogin
        PROVE  Silent
    BY <1>10 DEF NewLogin, Goto, memVars, ownVars, genVars
  <1>11. ASSUME NewLoginFails
        PROVE  Silent
    BY <1>11 DEF NewLoginFails, Goto, memVars, genVars
  <1>12. ASSUME Reconnect
        PROVE  Silent
    BY <1>12 DEF Reconnect, Goto, Begin, genVars, saveVars
  <1>13. ASSUME SavePass
        PROVE  Silent
    BY <1>13 DEF SavePass, Pass, Unsaved, ownVars, genVars
  <1>14. ASSUME NEW t \in Workers, Boot(t)
        PROVE  Silent
    BY <1>14 DEF Boot, Goto, Send, memVars, ownVars, genVars, saveVars
  <1>15. ASSUME NEW t \in Workers, Apply(t)
        PROVE  Silent
    BY <1>15 DEF Apply, Goto, Begin, memVars, genVars, saveVars
  <1>16. ASSUME NEW t \in Workers, StartWorkers(t)
        PROVE  Silent
    BY <1>16 DEF StartWorkers, Goto, End, memVars, genVars, saveVars
  <1>17. ASSUME NEW t \in Workers, SendReport(t)
        PROVE  Silent
    BY <1>17 DEF SendReport, Goto, Send, memVars, ownVars, genVars, saveVars
  <1>18. ASSUME NEW t \in Workers, Stop(t)
        PROVE  Silent
    BY <1>18 DEF Stop, Goto, memVars, ownVars, genVars, saveVars
  <1>19. ASSUME NEW t \in Workers, Refresh(t)
        PROVE  Silent
    BY <1>19 DEF Refresh, Goto, Act, Begin, memVars, genVars
  <1>20. ASSUME NEW t \in Workers, Report(t)
        PROVE  Silent
    BY <1>20 DEF Report, Goto, memVars, ownVars, genVars, saveVars
  <1>21. ASSUME NEW t \in Handlers, Handle(t)
        PROVE  Silent
    BY <1>21 DEF Handle, Goto, Act, Begin, memVars, genVars, saveVars
  <1>22. ASSUME NEW t \in Handlers, Edit(t)
        PROVE  Silent
    BY <1>22 DEF Edit, Owners, SaversOwn
  <1>23. ASSUME NEW t \in Handlers, Finish(t)
        PROVE  Silent
    BY <1>23 DEF Finish, Goto, End, Return, memVars, genVars, saveVars
  <1>24. ASSUME NEW t \in Handlers \cup Workers, Unauthorized(t)
        PROVE  Silent
    BY <1>24 DEF Unauthorized, Goto, ownVars, genVars, saveVars
  <1>25. ASSUME NEW t \in Handlers \cup Workers, CheckRunning(t)
        PROVE  Silent
    BY <1>25 DEF CheckRunning, Goto, End, Return, memVars, genVars, saveVars
  <1>26. ASSUME NEW t \in Handlers \cup Workers, SetLoggedOut(t)
        PROVE  Silent
    BY <1>26 DEF SetLoggedOut, Goto, memVars, ownVars, genVars, saveVars
  <1>27. ASSUME NEW t \in Handlers \cup Workers, CancelAndTell(t)
        PROVE  Silent
    BY <1>27 DEF CancelAndTell, Goto, End, Return, Send, memVars, saveVars
  <1>28. ASSUME NEW t \in Handlers \cup Workers, SwapLoggedIn(t)
        PROVE  Silent
    BY <1>28 DEF SwapLoggedIn, Goto, End, Return, Send, memVars, genVars, saveVars
  <1>29. ASSUME NEW t \in Handlers \cup Workers, SaveTurn(t)
        PROVE  Silent
    BY <1>29 DEF SaveTurn, Turn, Unsaved, ownVars, genVars
  <1>30. ASSUME NEW t \in Handlers \cup Workers, SaveEnd(t)
        PROVE  Silent
    BY <1>30 DEF SaveEnd, Owners, SaversOwn, Write, GiveUp, Unsaved, ownVars, genVars
  <1>31. QED
    BY <1>1, <1>2, <1>3, <1>4, <1>5, <1>6, <1>7, <1>8, <1>9, <1>10, <1>11, <1>12,
       <1>13, <1>14, <1>15, <1>16, <1>17, <1>18, <1>19, <1>20, <1>21, <1>22, <1>23, <1>24,
       <1>25, <1>26, <1>27, <1>28, <1>29, <1>30
    DEF Next, CallStep, LoginStep, FailStep, SaveStep, WorkStep

(* A generation that speaks is alive, so that no later one has spoken. *)
LEMMA StatesFollow ==
  ASSUME ConnectionInv, Next
  PROVE  Later
PROOF
  <1>inv. ConnectionTypeOK /\ AliveNewest /\ HandlersLate
    BY DEF ConnectionInv, Generations
  <1>told. told.of \in Int
    BY <1>inv, ConnectionAssumption DEF ConnectionTypeOK
  <1>worker. ASSUME NEW w \in Workers, pc[w] \notin {"idle", "done"} PROVE told.of <= gen[w] /\ gen[w] \in Int
    <2>1. PICK g \in Gens : w = Worker[g]
      BY ThreadsApart
    <2>2. QED  BY <1>inv, <1>worker, <2>1 DEF AliveNewest, Alive, Gens
  <1> USE <1>told, ThreadsApart DEF Later
  <1>1. ASSUME NEW t \in Calls, StartCall(t)
        PROVE  Later
    BY <1>1 DEF StartCall
  <1>2. ASSUME NEW t \in Calls, BeginChange(t)
        PROVE  Later
    BY <1>2 DEF BeginChange
  <1>3. ASSUME NEW t \in Calls, EndChange(t)
        PROVE  Later
    BY <1>3 DEF EndChange
  <1>4. ASSUME NEW t \in Calls, CheckCurrent(t)
        PROVE  Later
    BY <1>4 DEF CheckCurrent
  <1>5. ASSUME NEW t \in Calls, SignIn(t)
        PROVE  Later
    BY <1>5 DEF SignIn
  <1>6. ASSUME NEW t \in Calls, StartRun(t)
        PROVE  Later
    <2>1. told'.of \in {told.of, gen[t]} /\ gen[t] \in Gens /\ Alive(gen[t])
      BY <1>6, WorkerReserved DEF StartRun, Send, Connecting, Alive
    <2>2. QED  BY <2>1, <1>inv DEF AliveNewest, Gens
  <1>7. ASSUME NEW t \in Calls, SignOff(t)
        PROVE  Later
    BY <1>7 DEF SignOff
  <1>8. ASSUME Retire
        PROVE  Later
    BY <1>8 DEF Retire
  <1>9. ASSUME Drain
        PROVE  Later
    BY <1>9 DEF Drain
  <1>10. ASSUME NewLogin
        PROVE  Later
    BY <1>10 DEF NewLogin
  <1>11. ASSUME NewLoginFails
        PROVE  Later
    BY <1>11 DEF NewLoginFails
  <1>12. ASSUME Reconnect
        PROVE  Later
    BY <1>12 DEF Reconnect
  <1>13. ASSUME SavePass
        PROVE  Later
    BY <1>13 DEF SavePass, Unsaved
  <1>14. ASSUME NEW t \in Workers, Boot(t)
        PROVE  Later
    <2>1. told'.of \in {told.of, gen[t]} /\ pc[t] \notin {"idle", "done"}
      BY <1>14 DEF Boot, Send
    <2>2. QED  BY <2>1, <1>worker
  <1>15. ASSUME NEW t \in Workers, Apply(t)
        PROVE  Later
    BY <1>15 DEF Apply
  <1>16. ASSUME NEW t \in Workers, StartWorkers(t)
        PROVE  Later
    BY <1>16 DEF StartWorkers
  <1>17. ASSUME NEW t \in Workers, SendReport(t)
        PROVE  Later
    <2>1. told'.of \in {told.of, gen[t]} /\ pc[t] \notin {"idle", "done"}
      BY <1>17 DEF SendReport, Send
    <2>2. QED  BY <2>1, <1>worker
  <1>18. ASSUME NEW t \in Workers, Stop(t)
        PROVE  Later
    BY <1>18 DEF Stop
  <1>19. ASSUME NEW t \in Workers, Refresh(t)
        PROVE  Later
    BY <1>19 DEF Refresh
  <1>20. ASSUME NEW t \in Workers, Report(t)
        PROVE  Later
    BY <1>20 DEF Report
  <1>21. ASSUME NEW t \in Handlers, Handle(t)
        PROVE  Later
    BY <1>21 DEF Handle
  <1>22. ASSUME NEW t \in Handlers, Edit(t)
        PROVE  Later
    BY <1>22 DEF Edit
  <1>23. ASSUME NEW t \in Handlers, Finish(t)
        PROVE  Later
    BY <1>23 DEF Finish
  <1>24. ASSUME NEW t \in Handlers \cup Workers, Unauthorized(t)
        PROVE  Later
    BY <1>24 DEF Unauthorized
  <1>25. ASSUME NEW t \in Handlers \cup Workers, CheckRunning(t)
        PROVE  Later
    BY <1>25 DEF CheckRunning
  <1>26. ASSUME NEW t \in Handlers \cup Workers, SetLoggedOut(t)
        PROVE  Later
    BY <1>26 DEF SetLoggedOut
  <1>27. ASSUME NEW t \in Handlers \cup Workers, CancelAndTell(t)
        PROVE  Later
    <2>1. told'.of \in {told.of, gen[t]} /\ pc[t] \notin {"idle", "done"}
      BY <1>27 DEF CancelAndTell, Send
    <2>2. CASE t \in Workers
      BY <2>1, <2>2, <1>worker
    <2>3. CASE t \in Handlers
      BY <1>27, <2>3, <1>inv DEF CancelAndTell, Return, Goto, Send, ConnectionTypeOK, Later,
         HandlersLate
    <2>4. QED  BY <2>2, <2>3
  <1>28. ASSUME NEW t \in Handlers \cup Workers, SwapLoggedIn(t)
        PROVE  Later
    <2>1. told'.of \in {told.of, gen[t]} /\ pc[t] \notin {"idle", "done"}
      BY <1>28 DEF SwapLoggedIn, Send
    <2>2. CASE t \in Workers
      BY <2>1, <2>2, <1>worker
    <2>3. CASE t \in Handlers
      BY <1>28, <2>3, <1>inv DEF SwapLoggedIn, Return, Goto, Send, ConnectionTypeOK, Later,
         HandlersLate
    <2>4. QED  BY <2>2, <2>3
  <1>29. ASSUME NEW t \in Handlers \cup Workers, SaveTurn(t)
        PROVE  Later
    BY <1>29 DEF SaveTurn, Unsaved
  <1>30. ASSUME NEW t \in Handlers \cup Workers, SaveEnd(t)
        PROVE  Later
    BY <1>30 DEF SaveEnd, Unsaved
  <1>31. QED
    BY <1>1, <1>2, <1>3, <1>4, <1>5, <1>6, <1>7, <1>8, <1>9, <1>10, <1>11, <1>12,
       <1>13, <1>14, <1>15, <1>16, <1>17, <1>18, <1>19, <1>20, <1>21, <1>22, <1>23, <1>24,
       <1>25, <1>26, <1>27, <1>28, <1>29, <1>30
    DEF Next, CallStep, LoginStep, FailStep, SaveStep, WorkStep

-----------------------------------------------------------------------------
(* The invariant holds at the start, and every step keeps it. *)
THEOREM ConnectionInvariance == Spec => []ConnectionInv
PROOF
  <1>1. ASSUME Init PROVE ConnectionInv
    <2> USE <1>1, ThreadsApart, ConnectionAssumption
    <2>1. SavesTypeOK /\ Chain
      BY ChainAtFirst DEF Init
    <2>2. \A t \in Workers : (CHOOSE g \in Gens : Worker[g] = t) \in Gens
      OBVIOUS
    <2>3. gen = [t \in Threads |-> IF t \in Workers THEN CHOOSE g \in Gens : Worker[g] = t ELSE 0]
      BY DEF Init
    <2>4. ConnectionTypeOK
      <3>1. \A t \in Threads : gen[t] \in 0..MaxGens
        BY <2>2, <2>3 DEF Gens
      <3>2. gen = [t \in Threads |-> gen[t]]
        BY <2>3
      <3>3. gen \in [Threads -> 0..MaxGens]
        BY <3>1, <3>2
      <3>4. pc \in [Threads -> Places]
        BY DEF Init, Places
      <3>5. told \in [state : States, of : 0..MaxGens]
        BY DEF Init, States
      <3>6. /\ call \in [Calls -> {"none", "connect", "disconnect", "logout", "replace"}]
            /\ prev \in [Calls -> 0..MaxGens]
        BY DEF Init
      <3>7. retired \in BOOLEAN /\ changing \in BOOLEAN /\ loggedIn \in BOOLEAN /\ quiet \in BOOLEAN
        BY DEF Init
      <3>8. current \in 0..MaxGens /\ last \in 0..MaxGens /\ acts \in 0..MaxActs
        BY DEF Init
      <3>9. owned \subseteq Threads /\ cancelled \subseteq Gens
        BY DEF Init
      <3>10. QED  BY ONLY <2>1, <3>3, <3>4, <3>5, <3>6, <3>7, <3>8, <3>9 DEF ConnectionTypeOK
    <2>5. Owners
      BY DEF Init, SavesInit, Owners, CallsOwn, SaversOwn, Quiet, Connecting
    <2>6. AliveNewest
      <3>1. ASSUME NEW g \in Gens
            PROVE  gen[Worker[g]] = g /\ ~Alive(g)
        <4>1. (CHOOSE k \in Gens : Worker[k] = Worker[g]) = g
          OBVIOUS
        <4>2. QED  BY <2>3, <4>1 DEF Init, Alive
      <3>2. QED  BY <3>1 DEF Init, AliveNewest
    <2>7. OneChange /\ OneConnects
      BY DEF Init, OneChange, OneConnects, Connecting
    <2>8. HandlersLate
      BY <2>3 DEF Init, HandlersLate, Alive
    <2>9. QED  BY <2>1, <2>4, <2>5, <2>6, <2>7, <2>8 DEF ConnectionInv, Generations
  <1>2. ASSUME ConnectionInv, [Next]_vars PROVE ConnectionInv'
    <2>1. CASE Next
      BY <1>2, <2>1, TypesKept, ChainKept, OwnersKept, GenerationsKept DEF ConnectionInv
    <2>2. CASE UNCHANGED vars
      <3>1. /\ UNCHANGED <<pc, call, gen, prev, retired, owned, changing, current, last, cancelled>>
            /\ UNCHANGED <<loggedIn, told, quiet, acts, meta, stored, tail, closed, abandoned, place, snap>>
        BY <2>2 DEF vars, memVars, ownVars, genVars, saveVars
      <3>2. ConnectionTypeOK' /\ Chain'
        BY <1>2, <3>1 DEF ConnectionInv, ConnectionTypeOK, SavesTypeOK, Chain
      <3>3. Owners'
        BY <1>2, <3>1 DEF ConnectionInv, Owners, CallsOwn, SaversOwn, Quiet
      <3>4. Generations'
        BY <1>2, <3>1
        DEF ConnectionInv, Generations, OneChange, OneConnects, AliveNewest, HandlersLate, Stopping, Alive
      <3>5. QED  BY <3>2, <3>3, <3>4 DEF ConnectionInv
    <2>3. QED  BY <1>2, <2>1, <2>2
  <1>3. QED  BY <1>1, <1>2, PTL DEF Spec

(* The variables of a client have their types. *)
THEOREM ConnectionTypes == Spec => []ConnectionTypeOK
PROOF
  <1>1. ConnectionInv => ConnectionTypeOK  BY DEF ConnectionInv
  <1>2. QED  BY <1>1, ConnectionInvariance, PTL

(* Two generations never run at once (connectionGeneration).                *)
THEOREM OneAtATime == Spec => []OneGeneration
PROOF
  <1>1. ConnectionInv => OneGeneration  BY AliveAlone DEF ConnectionInv
  <1>2. QED  BY <1>1, ConnectionInvariance, PTL

(* What the database has of a login never goes back (saveOwnedUserLogin).   *)
THEOREM SavesOrdered == Spec => SavesInOrder
PROOF
  <1>1. ConnectionInv /\ [Next]_vars => [stored' >= stored]_vars
    BY StoredGrows
  <1>2. QED  BY <1>1, ConnectionInvariance, PTL DEF Spec, SavesInOrder

(* A retired client saves, says and begins nothing (retireForReplacement).  *)
THEOREM RetirementIsSilent == Spec => RetiredIsSilent
PROOF
  <1>1. ConnectionInv /\ [Next]_vars => [Silent]_vars
    BY QuietIsKept
  <1>2. ConnectionInv /\ [Next]_vars =>
          [quiet /\ quiet' =>
             /\ told' = told /\ ~loggedIn' /\ owned' \subseteq owned /\ last' = last
             /\ stored' = stored \/ pc[Login] = "newlogin"]_vars
    BY <1>1 DEF Silent
  <1>3. QED  BY <1>2, ConnectionInvariance, PTL DEF Spec, RetiredIsSilent

(* A replaced generation says nothing after its replacement has, but for a  *)
(* Matrix event (failGeneration, sendGenerationState).                      *)
THEOREM StatesOrdered == Spec => StatesInOrder
PROOF
  <1>1. ConnectionInv /\ [Next]_vars =>
          [told'.of >= told.of \/ \E t \in Handlers : pc[t] \in {"cancel", "swap"} /\ pc'[t] = "idle"]_vars
    BY StatesFollow DEF Later
  <1>2. QED  BY <1>1, ConnectionInvariance, PTL DEF Spec, StatesInOrder
=============================================================================
